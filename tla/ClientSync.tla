----------------------------- MODULE ClientSync -----------------------------
(***************************************************************************)
(* The client's synchronisation with one mailbox of a Replica:             *)
(* crates/elo-core/src/sync.rs and the tables of store/inbox.rs,           *)
(* store/repair.rs, store/local_deletion.rs and store/mod.rs.              *)
(*                                                                         *)
(* A pass reads one page of the inventory, downloads and stages what it    *)
(* does not know, admits what is staged and, unless it is the short pass   *)
(* after a notification tap, repairs what the mailbox has lost.  Passes    *)
(* run one at a time; the mailbox changes between any two of their         *)
(* requests, and the process may stop after any of its commits.            *)
(*                                                                         *)
(* The mailbox is what Replica promises: deliveries with arrival numbers,  *)
(* refusals for pruned and expired objects.  It can also be restored from  *)
(* a backup, which reuses arrival numbers, or created anew.  Other         *)
(* mailboxes of the device matter only as places a repair can fetch from.  *)
(* Every object is fetched at once, so lazy attachments are left out.      *)
(***************************************************************************)
EXTENDS Integers, FiniteSets, FiniteSetsExt, Functions

CONSTANTS
    Objects,
    Own,          \* objects this device has sent
    NeedsProof,   \* objects signed under a configuration this device lacks at first
    Mirrored,     \* objects another mailbox of this device holds as well
    PageSize,     \* 128 entries of a page
    MaxSeq,       \* model bound on arrival numbers
    MaxGeneration,\* model bound on generations of the mailbox
    MaxTroubles   \* model bound on what goes wrong: see Trouble

ASSUME SyncAssumption ==
    /\ Own \subseteq Objects /\ NeedsProof \subseteq Objects /\ Mirrored \subseteq Objects
    /\ {PageSize, MaxSeq, MaxTroubles} \subseteq Nat
    /\ MaxGeneration \in Nat \ {0}

VARIABLES
    srv,        \* the mailbox: generation, rows, last number, refusals, backup
    cursor,     \* peer_cursors: generation, arrival number, local epoch
    inbox,      \* states of staged entries, by generation, number and epoch
    scan,       \* replica_scans: the full scan in progress
    copies,     \* replica_copies: what the mailbox is known to have had
    cached,     \* ciphertexts on this device
    records,    \* records admitted or written here
    outbox,     \* own objects that wait to be sent, and what became of them
    floor,      \* what was written before the chat was deleted on this device
    removed,    \* local_deleted_objects
    proven,     \* the configuration has been received
    pass,       \* the pass in progress
    troubles,   \* how many things went wrong
    announced   \* history variable: how often a message was reported as new

vars == <<srv, cursor, inbox, scan, copies, cached, records, outbox, floor, removed,
          proven, pass, troubles, announced>>

tables == <<cursor, inbox, scan, copies, cached, records, outbox, floor, removed, proven>>

Put(f, k, v) == [x \in DOMAIN f \cup {k} |-> IF x = k THEN v ELSE f[x]]

Drop(f, S) == [x \in DOMAIN f \ S |-> f[x]]

Empty == [x \in {} |-> x]

\* A failed request, a stop of the process, a local deletion, or a change at the
\* mailbox that takes something away.
Trouble == troubles < MaxTroubles /\ troubles' = troubles + 1

Idle == [phase |-> "idle"]

-----------------------------------------------------------------------------
(* The mailbox, as the client sees it.                                      *)

Served == Range(srv.rows)

\* `inventory`: the first entries after a number, and the head.
Page(after) ==
    LET later == {s \in DOMAIN srv.rows : s > after}
        kept == {s \in later : Cardinality({t \in later : t < s}) < PageSize}
    IN [gen |-> srv.gen, head |-> Max({0} \cup DOMAIN srv.rows),
        rows |-> [s \in kept |-> srv.rows[s]],
        wanted |-> srv.wanted]

Refuses(o) == o \in srv.pruned \/ (o \in srv.expired /\ o \notin srv.wanted)

\* An upload: the number stays when the object is there already.
Stored(o) ==
    IF o \in Served THEN srv
    ELSE [srv EXCEPT !.rows = Put(@, srv.last + 1, o), !.last = @ + 1,
                     !.expired = @ \ {o}, !.wanted = @ \ {o}]

CanStore(o) == ~Refuses(o) /\ (o \notin Served => srv.last < MaxSeq)

Publish(o) ==
    /\ o \notin Own /\ o \notin Served /\ CanStore(o)
    /\ srv' = Stored(o)
    /\ UNCHANGED <<tables, pass, troubles, announced>>

\* An upload whose answer the client did not wait for.
LateUpload(o) ==
    /\ o \in srv.flying
    /\ srv' = [(IF CanStore(o) THEN Stored(o) ELSE srv) EXCEPT !.flying = @ \ {o}]
    /\ UNCHANGED <<tables, pass, troubles, announced>>

Without(o) == [s \in {t \in DOMAIN srv.rows : srv.rows[t] # o} |-> srv.rows[s]]

\* A body reaches its deadline or is accepted; the newest may go first.
Expire(o) ==
    /\ o \in Served
    /\ Trouble
    /\ srv' = [srv EXCEPT !.rows = Without(o), !.expired = @ \cup {o}]
    /\ UNCHANGED <<tables, pass, announced>>

Want(o) ==
    /\ o \in srv.expired \ srv.wanted
    /\ srv' = [srv EXCEPT !.wanted = @ \cup {o}]
    /\ UNCHANGED <<tables, pass, troubles, announced>>

Prune(o) ==
    /\ o \notin srv.pruned /\ o \in Served
    /\ Trouble
    /\ srv' = [srv EXCEPT !.rows = Without(o), !.pruned = @ \cup {o}]
    /\ UNCHANGED <<tables, pass, announced>>

\* An operator restores a backup: same generation, older rows and numbers.
Restore(b) ==
    /\ b.last < srv.last
    /\ Trouble
    /\ srv' = [srv EXCEPT !.rows = b.rows, !.last = b.last,
                          !.expired = {}, !.wanted = {}, !.pruned = {}]
    /\ UNCHANGED <<tables, pass, announced>>

Recreate ==
    /\ srv.gen < MaxGeneration
    /\ Trouble
    /\ srv' = [srv EXCEPT !.gen = @ + 1, !.rows = Empty, !.last = 0,
                          !.expired = {}, !.wanted = {}, !.pruned = {}]
    /\ UNCHANGED <<tables, pass, announced>>

-----------------------------------------------------------------------------
(* Reading.                                                                 *)

\* The entry at s of a page is in the inbox of the present epoch.
Key(gen, s) == <<gen, s, cursor.epoch>>

\* `run`, up to the first inventory: a tap reads on from the cursor, a full pass
\* from where the scan stopped.
StartPass(kind) ==
    LET after == IF kind = "tap" THEN cursor.seq ELSE IF scan.complete THEN 0 ELSE scan.after
    IN /\ pass.phase = "idle"
       /\ pass' = [phase |-> "check", kind |-> kind, page |-> Page(after)]
       \* `resume_requested_copies`.
       /\ copies' = [o \in DOMAIN copies |->
                       IF o \in srv.wanted /\ copies[o].missing /\ ~copies[o].pruned
                       THEN [copies[o] EXCEPT !.expired = FALSE] ELSE copies[o]]
       /\ UNCHANGED <<srv, cursor, inbox, scan, cached, records, outbox, floor, removed,
                      proven, troubles, announced>>

\* Fault: only the generation tells that the mailbox is another one.
RegenerationOnly(page) == cursor.gen # 0 /\ cursor.gen # page.gen

\* The mailbox is not the one of the cursor: another generation, a head below
\* what was seen, or a number that belongs to another object.
Regressed(page) ==
    \/ cursor.gen # 0 /\ (cursor.gen # page.gen \/ page.head < cursor.seq)
    \/ scan.gen # 0 /\ (scan.gen # page.gen \/ page.head < scan.head)
    \/ \E s \in DOMAIN page.rows :
         /\ cursor.gen = page.gen
         /\ Key(page.gen, s) \in DOMAIN inbox
         /\ inbox[Key(page.gen, s)].object # page.rows[s]

\* `begin_scan`.
Begun(old, page) ==
    IF ~old.complete /\ old.gen = page.gen
    THEN [old EXCEPT !.head = page.head]
    ELSE [gen |-> page.gen, seen |-> {}, after |-> 0, head |-> page.head,
          complete |-> FALSE]

\* Nothing is wrong with the page.
Check ==
    /\ pass.phase = "check" /\ ~Regressed(pass.page)
    /\ scan' = IF pass.kind = "tap" THEN scan ELSE Begun(scan, pass.page)
    /\ pass' = [phase |-> "stage", kind |-> pass.kind, page |-> pass.page,
                left |-> DOMAIN pass.page.rows]
    /\ UNCHANGED <<srv, cursor, inbox, copies, cached, records, outbox, floor, removed,
                   proven, troubles, announced>>

\* `reset_peer_cursor`, after a page from the beginning was fetched.
Reset ==
    LET page == Page(0)
        fresh == IF scan.gen = 0 THEN scan
                 ELSE [gen |-> page.gen, seen |-> {}, after |-> 0, head |-> 0,
                       complete |-> FALSE]
    IN /\ pass.phase = "check" /\ Regressed(pass.page)
       /\ cursor' = [gen |-> page.gen, seq |-> 0,
                     epoch |-> IF cursor.gen = 0 THEN 0 ELSE cursor.epoch + 1]
       /\ scan' = IF pass.kind = "tap" THEN fresh ELSE Begun(fresh, page)
       /\ pass' = [phase |-> "stage", kind |-> pass.kind, page |-> page,
                   left |-> DOMAIN page.rows]
       /\ UNCHANGED <<srv, inbox, copies, cached, records, outbox, floor, removed, proven,
                      troubles, announced>>

Copy == [missing |-> FALSE, expired |-> FALSE, pruned |-> FALSE]

Remembered(o) == IF o \in DOMAIN copies THEN copies ELSE Put(copies, o, Copy)

NextEntry == Min(pass.left)

\* An entry below the cursor that the inbox has is skipped.
Known(s) ==
    /\ cursor.gen = pass.page.gen /\ s =< cursor.seq
    /\ Key(pass.page.gen, s) \in DOMAIN inbox
    /\ inbox[Key(pass.page.gen, s)].object = pass.page.rows[s]

Skip ==
    /\ pass.phase = "stage" /\ pass.left # {} /\ Known(NextEntry)
    /\ pass' = [pass EXCEPT !.left = @ \ {NextEntry}]
    /\ UNCHANGED <<srv, tables, troubles, announced>>

\* `stage_inbox`: ciphertext, entry and cursor in one transaction.  An object that
\* was deleted here is not stored.
Stage ==
    LET s == NextEntry
        o == pass.page.rows[s]
        state == IF o \in removed THEN "REJECTED" ELSE "PENDING"
    IN /\ pass.phase = "stage" /\ pass.left # {} /\ ~Known(s)
       /\ o \in cached \cup Served
       /\ inbox' = IF Key(pass.page.gen, s) \in DOMAIN inbox THEN inbox
                   ELSE Put(inbox, Key(pass.page.gen, s), [object |-> o, state |-> state])
       /\ cursor' = [cursor EXCEPT
                       !.gen = pass.page.gen,
                       !.seq = IF cursor.gen = pass.page.gen THEN Max({@, s}) ELSE s]
       /\ cached' = IF o \notin removed THEN cached \cup {o} ELSE cached
       /\ copies' = IF o \in removed THEN copies ELSE Remembered(o)
       /\ pass' = [pass EXCEPT !.left = @ \ {s}]
       /\ UNCHANGED <<srv, scan, records, outbox, floor, removed, proven, troubles,
                      announced>>

\* Fault: what waits to be sent is left as it is.
TombstoneCopyOnly(o) ==
    /\ copies' = Put(copies, o, [(IF o \in DOMAIN copies THEN copies[o] ELSE Copy)
                                   EXCEPT !.pruned = TRUE, !.missing = FALSE])
    /\ UNCHANGED outbox

\* `confirm_pruned`: the copy is given up, and what waited to be sent.
Tombstone(o) ==
    /\ copies' = Put(copies, o, [(IF o \in DOMAIN copies THEN copies[o] ELSE Copy)
                                   EXCEPT !.pruned = TRUE, !.missing = FALSE])
    /\ outbox' = IF o \in DOMAIN outbox THEN [outbox EXCEPT ![o] = "REJECTED"] ELSE outbox

\* The download is answered with a proof that the object was pruned.
StagePruned ==
    LET o == pass.page.rows[NextEntry]
    IN /\ pass.phase = "stage" /\ pass.left # {} /\ ~Known(NextEntry)
       /\ o \in srv.pruned /\ o \notin cached
       /\ Tombstone(o)
       /\ pass' = [pass EXCEPT !.left = @ \ {NextEntry}]
       /\ UNCHANGED <<srv, cursor, inbox, scan, cached, records, floor, removed, proven,
                      troubles, announced>>

\* The copies once a page has been read.
CopiesShown(page) ==
    LET shown == Range(page.rows)
    IN [o \in DOMAIN copies \cup shown |->
          IF o \in shown
          THEN [(IF o \in DOMAIN copies THEN copies[o] ELSE Copy)
                  EXCEPT !.missing = FALSE, !.expired = FALSE]
          ELSE copies[o]]

\* Fault: a page counts as the whole round, and nothing is found missing.
FinishPageOnly ==
    /\ pass.phase = "stage" /\ pass.left = {} /\ pass.kind = "full"
    /\ copies' = CopiesShown(pass.page)
    /\ scan' = [scan EXCEPT !.complete = TRUE]
    /\ pass' = [phase |-> "admit", kind |-> pass.kind]
    /\ UNCHANGED <<srv, cursor, inbox, cached, records, outbox, floor, removed, proven,
                   troubles, announced>>

\* `finish_scan_page`: copies not seen in a whole round are missing.  The set of
\* those seen in the round stands for `seen_round`.
FinishScanPage ==
    LET page == pass.page
        shown == Range(page.rows)
        after == IF DOMAIN page.rows = {} THEN scan.after ELSE Max(DOMAIN page.rows)
        complete == after >= page.head
        seen == scan.seen \cup shown
        all == CopiesShown(page)
    IN /\ pass.phase = "stage" /\ pass.left = {} /\ pass.kind = "full"
       /\ copies' = [o \in DOMAIN all |->
                       IF complete /\ o \notin seen /\ ~all[o].pruned
                       THEN [all[o] EXCEPT !.missing = TRUE] ELSE all[o]]
       /\ scan' = [scan EXCEPT !.after = after, !.head = page.head, !.complete = complete,
                               !.seen = IF complete THEN {} ELSE seen]
       /\ pass' = [phase |-> "admit", kind |-> pass.kind]
       /\ UNCHANGED <<srv, cursor, inbox, cached, records, outbox, floor, removed, proven,
                      troubles, announced>>

EndTap ==
    /\ pass.phase = "stage" /\ pass.left = {} /\ pass.kind = "tap"
    /\ pass' = [phase |-> "admit", kind |-> pass.kind]
    /\ UNCHANGED <<srv, tables, troubles, announced>>

\* The mailbox no longer has the object: like any failed request, this ends the
\* reading, and the pass goes on with what is staged.
Gone ==
    /\ pass.phase = "stage" /\ pass.left # {} /\ ~Known(NextEntry)
    /\ pass.page.rows[NextEntry] \notin cached \cup Served \cup srv.pruned
    /\ pass' = [phase |-> "admit", kind |-> pass.kind]
    /\ UNCHANGED <<srv, tables, troubles, announced>>

NetworkFails ==
    /\ pass.phase \in {"check", "stage"} /\ Trouble
    /\ pass' = [phase |-> "admit", kind |-> pass.kind]
    /\ UNCHANGED <<srv, tables, announced>>

-----------------------------------------------------------------------------
(* Admission.                                                               *)

Pending == {k \in DOMAIN inbox : inbox[k].state = "PENDING"}

First(K) == CHOOSE k \in K : \A j \in K : k[2] =< j[2]

\* `discard_object`: the object, its record and everything that waits with it go.
Discard(S) ==
    /\ removed' = removed \cup S
    /\ inbox' = [k \in DOMAIN inbox |->
                   IF inbox[k].object \in S THEN [inbox[k] EXCEPT !.state = "REJECTED"]
                   ELSE inbox[k]]
    /\ records' = records \ S
    /\ outbox' = Drop(outbox, S)
    /\ copies' = Drop(copies, S)
    /\ cached' = cached \ S

\* Fault: the history floor is not asked when a record is admitted.
RejectsKnownOnly(o) == o \in removed

\* `rejects`: known to be deleted here, or from before the floor.
Rejects(o) == o \in removed \/ o \in floor

\* `discard_known_removed_inbox` comes before the authority is asked, the floor of
\* `finish_inbox` after it.
AdmitRejected ==
    LET o == inbox[First(Pending)].object
    IN /\ pass.phase = "admit" /\ Pending # {} /\ Rejects(o)
       /\ o \in removed \/ o \notin NeedsProof \/ proven
       /\ Discard({o})
       /\ UNCHANGED <<srv, cursor, scan, floor, proven, pass, troubles, announced>>

IsNew(o) == o \notin records

\* `finish_inbox`: the record and the state of the entry in one transaction.
Admit ==
    LET k == First(Pending)
        o == inbox[k].object
    IN /\ pass.phase = "admit" /\ Pending # {} /\ ~Rejects(o)
       /\ o \in NeedsProof => proven
       /\ inbox' = [inbox EXCEPT ![k].state = "ACCEPTED"]
       /\ records' = records \cup {o}
       /\ announced' = [announced EXCEPT ![o] = @ + IF IsNew(o) THEN 1 ELSE 0]
       /\ UNCHANGED <<srv, cursor, scan, copies, cached, outbox, floor, removed, proven,
                      pass, troubles>>

\* `defer_inbox`: the configuration is not known yet.
Defer ==
    LET k == First(Pending)
    IN /\ pass.phase = "admit" /\ Pending # {} /\ inbox[k].object \notin removed
       /\ inbox[k].object \in NeedsProof /\ ~proven
       /\ inbox' = [inbox EXCEPT ![k].state = "WAITING_FOR_PROOF"]
       /\ UNCHANGED <<srv, cursor, scan, copies, cached, records, outbox, floor, removed,
                      proven, pass, troubles, announced>>

EndAdmission ==
    /\ pass.phase = "admit" /\ Pending = {}
    /\ pass' = IF pass.kind = "tap" THEN Idle ELSE [phase |-> "repair", tried |-> {}]
    /\ UNCHANGED <<srv, tables, troubles, announced>>

\* Fault: entries that wait for a proof are left as they are.
CommitQuietly ==
    /\ pass.phase = "idle" /\ ~proven /\ proven' = TRUE
    /\ UNCHANGED <<srv, cursor, inbox, scan, copies, cached, records, outbox, floor,
                   removed, pass, troubles, announced>>

\* `commit_configuration`, between passes: entries that waited are tried again, and
\* what was signed before and not yet sent is held.
CommitConfiguration ==
    /\ pass.phase = "idle" /\ ~proven
    /\ proven' = TRUE
    /\ inbox' = [k \in DOMAIN inbox |->
                   IF inbox[k].state = "WAITING_FOR_PROOF"
                   THEN [inbox[k] EXCEPT !.state = "PENDING"] ELSE inbox[k]]
    /\ outbox' = [o \in DOMAIN outbox |-> IF outbox[o] = "PENDING" THEN "HELD" ELSE outbox[o]]
    /\ UNCHANGED <<srv, cursor, scan, copies, cached, records, floor, removed, pass, troubles,
                   announced>>

\* `delete_chat_local`: what was admitted goes now, and the ciphertext of what was
\* deleted before; what was signed before the cutoff and is still on its way goes
\* when it comes.
DeleteChatLocal(older) ==
    /\ pass.phase = "idle" /\ Trouble
    /\ floor' = floor \cup older
    /\ Discard(records \cup (cached \cap removed))
    /\ UNCHANGED <<srv, cursor, scan, proven, pass, announced>>

-----------------------------------------------------------------------------
(* Sending and repair.                                                      *)

\* `write_local_rows`: record, ciphertext and outbox entry together.
Compose(o) ==
    /\ pass.phase = "idle" /\ o \in Own /\ o \notin records \cup removed \cup floor
    /\ records' = records \cup {o} /\ cached' = cached \cup {o}
    /\ outbox' = Put(outbox, o, "PENDING")
    /\ UNCHANGED <<srv, cursor, inbox, scan, copies, floor, removed, proven, pass, troubles,
                   announced>>

\* `claim_next`.
ClaimUpload(o) ==
    /\ pass.phase = "idle" /\ o \in DOMAIN outbox /\ outbox[o] = "PENDING"
    /\ outbox' = [outbox EXCEPT ![o] = "INFLIGHT"]
    /\ pass' = [phase |-> "upload", object |-> o]
    /\ UNCHANGED <<srv, cursor, inbox, scan, copies, cached, records, floor, removed, proven,
                   troubles, announced>>

\* The upload and `confirm_stored`.
Upload ==
    LET o == pass.object
    IN /\ pass.phase = "upload" /\ CanStore(o)
       /\ srv' = Stored(o)
       /\ outbox' = [outbox EXCEPT ![o] = "STORED"]
       /\ copies' = [Remembered(o) EXCEPT ![o].missing = FALSE, ![o].expired = FALSE]
       /\ pass' = Idle
       /\ UNCHANGED <<cursor, inbox, scan, cached, records, floor, removed, proven, troubles,
                      announced>>

UploadPruned ==
    /\ pass.phase = "upload" /\ pass.object \in srv.pruned
    /\ Tombstone(pass.object)
    /\ pass' = Idle
    /\ UNCHANGED <<srv, cursor, inbox, scan, cached, records, floor, removed, proven, troubles,
                   announced>>

\* The answer is an error or is lost: `retry`, and the upload may still arrive.
UploadFails ==
    /\ pass.phase = "upload" /\ pass.object \notin srv.pruned
    /\ IF CanStore(pass.object) THEN Trouble ELSE UNCHANGED troubles
    /\ outbox' = [outbox EXCEPT ![pass.object] = "PENDING"]
    /\ srv' = IF CanStore(pass.object) THEN [srv EXCEPT !.flying = @ \cup {pass.object}] ELSE srv
    /\ pass' = Idle
    /\ UNCHANGED <<cursor, inbox, scan, copies, cached, records, floor, removed, proven,
                   announced>>

\* `claim_repair`: what is missing, and neither pruned nor expired there.  A claim
\* puts the next attempt off, so a pass claims each copy once.
Repairable ==
    {o \in DOMAIN copies \ pass.tried :
       copies[o].missing /\ ~copies[o].pruned /\ ~copies[o].expired}

Claimed == CHOOSE o \in Repairable : TRUE

\* There is no ciphertext here: the first other mailbox that answers gives it, and
\* `cache_repair_object` stores it, whether or not the message was deleted here.
FetchCopy ==
    LET o == Claimed
    IN /\ pass.phase = "repair" /\ Repairable # {} /\ o \notin cached /\ o \in Mirrored
       /\ cached' = cached \cup {o}
       /\ UNCHANGED <<srv, cursor, inbox, scan, copies, records, outbox, floor, removed, proven,
                      pass, troubles, announced>>

\* No other mailbox has it, none that has it was listed since the message was
\* deleted here (`copy_sources`), or none answers.
NoSource ==
    /\ pass.phase = "repair" /\ Repairable # {} /\ Claimed \notin cached
    /\ pass' = [pass EXCEPT !.tried = @ \cup {Claimed}]
    /\ UNCHANGED <<srv, tables, troubles, announced>>

\* Ciphertext of the claimed copy is at hand.
Resends == pass.phase = "repair" /\ Repairable # {} /\ Claimed \in cached

\* `repair_copies`: the same bytes go to the mailbox that had them; the receipt has
\* to be of the generation that was scanned.
Repair ==
    LET o == Claimed
    IN /\ Resends /\ CanStore(o)
       /\ srv' = Stored(o)
       /\ copies' = IF srv.gen = scan.gen
                    THEN [copies EXCEPT ![o].missing = FALSE, ![o].expired = FALSE] ELSE copies
       /\ pass' = [pass EXCEPT !.tried = @ \cup {o}]
       /\ UNCHANGED <<cursor, inbox, scan, cached, records, outbox, floor, removed, proven,
                      troubles, announced>>

RepairPruned ==
    /\ Resends /\ Claimed \in srv.pruned
    /\ Tombstone(Claimed)
    /\ pass' = [pass EXCEPT !.tried = @ \cup {Claimed}]
    /\ UNCHANGED <<srv, cursor, inbox, scan, cached, records, floor, removed, proven, troubles,
                   announced>>

\* `suspend_expired_copy`, until somebody asks for the message.
RepairExpired ==
    LET o == Claimed
    IN /\ Resends /\ o \notin srv.pruned /\ Refuses(o)
       /\ copies' = [copies EXCEPT ![o].expired = TRUE]
       /\ pass' = [pass EXCEPT !.tried = @ \cup {o}]
       /\ UNCHANGED <<srv, cursor, inbox, scan, cached, records, outbox, floor, removed, proven,
                      troubles, announced>>

EndRepair ==
    /\ pass.phase = "repair"
    /\ Repairable # {} => Resends /\ ~Refuses(Claimed) /\ ~CanStore(Claimed)
    /\ pass' = Idle
    /\ UNCHANGED <<srv, tables, troubles, announced>>

\* The process stops; a claimed upload is taken back when the store is opened.
Crash ==
    /\ pass.phase # "idle" /\ Trouble
    /\ pass' = Idle
    /\ srv' = IF pass.phase = "upload" /\ CanStore(pass.object)
              THEN [srv EXCEPT !.flying = @ \cup {pass.object}] ELSE srv
    /\ outbox' = [o \in DOMAIN outbox |-> IF outbox[o] = "INFLIGHT" THEN "PENDING" ELSE outbox[o]]
    /\ UNCHANGED <<cursor, inbox, scan, copies, cached, records, floor, removed, proven,
                   announced>>

-----------------------------------------------------------------------------

Init ==
    /\ srv = [gen |-> 1, rows |-> Empty, last |-> 0, expired |-> {}, wanted |-> {},
              pruned |-> {}, flying |-> {}]
    /\ cursor = [gen |-> 0, seq |-> 0, epoch |-> 0]
    /\ inbox = Empty
    /\ scan = [gen |-> 0, seen |-> {}, after |-> 0, head |-> 0, complete |-> TRUE]
    /\ copies = Empty
    /\ cached = {} /\ records = {} /\ outbox = Empty
    /\ floor = {} /\ removed = {} /\ proven = FALSE
    /\ pass = Idle /\ troubles = 0
    /\ announced = [o \in Objects |-> 0]

Backups == {[rows |-> Empty, last |-> 0]}
             \cup {[rows |-> [s \in {1} |-> o], last |-> 1] : o \in Objects}

Mailbox ==
    \/ \E o \in Objects : Publish(o) \/ LateUpload(o) \/ Expire(o) \/ Want(o) \/ Prune(o)
    \/ \E b \in Backups : Restore(b)
    \/ Recreate

Reading == Check \/ Reset \/ Skip \/ Stage \/ StagePruned \/ Gone \/ FinishScanPage \/ EndTap

Admission == AdmitRejected \/ Admit \/ Defer \/ EndAdmission

Repairing == FetchCopy \/ NoSource \/ Repair \/ RepairPruned \/ RepairExpired \/ EndRepair

Sending == Upload \/ UploadPruned \/ UploadFails

Next ==
    \/ Mailbox
    \/ StartPass("tap") \/ StartPass("full")
    \/ Reading \/ Admission \/ Repairing \/ Sending
    \/ NetworkFails \/ Crash
    \/ CommitConfiguration
    \/ \E older \in SUBSET Objects : older # {} /\ DeleteChatLocal(older)
    \/ \E o \in Own : Compose(o) \/ ClaimUpload(o)

\* The scheduler starts a full pass every minute and a pass goes on by itself;
\* troubles are finitely many; the configuration comes through its own service.
Fairness ==
    /\ SF_vars(StartPass("full"))
    /\ WF_vars(Reading \/ Admission \/ Repairing \/ Sending)
    /\ SF_vars(CommitConfiguration)
    /\ \A o \in Own : SF_vars(ClaimUpload(o))

Spec == Init /\ [][Next]_vars

FairSpec == Spec /\ Fairness

-----------------------------------------------------------------------------
(* Properties.                                                              *)

TypeOK ==
    /\ srv.gen \in 1 .. MaxGeneration /\ srv.last \in 0 .. MaxSeq
    /\ DOMAIN srv.rows \subseteq 1 .. srv.last /\ Served \subseteq Objects
    /\ cursor.gen \in 0 .. MaxGeneration /\ cursor.seq \in 0 .. MaxSeq
    /\ \A k \in DOMAIN inbox :
         /\ k[3] =< cursor.epoch
         /\ inbox[k].state \in {"PENDING", "WAITING_FOR_PROOF", "ACCEPTED", "REJECTED"}
    /\ DOMAIN copies \cup DOMAIN outbox \subseteq Objects
    /\ floor \cup removed \subseteq Objects
    /\ troubles \in 0 .. MaxTroubles

\* A pass never stops at an entry whose number the inbox has for another object
\* (ObjectIntegrity in stage_inbox), however often the mailbox was restored or
\* created anew: the cursor is reset first, and the new epoch starts empty.
NoIntegrityError ==
    (pass.phase = "stage" /\ pass.left # {}) =>
      LET k == Key(pass.page.gen, NextEntry)
      IN k \in DOMAIN inbox => inbox[k].object = pass.page.rows[NextEntry]

\* What waits for admission has its ciphertext: `run` stops with an error
\* otherwise, at the same entry every time.
PendingIsCached ==
    \A k \in DOMAIN inbox :
        inbox[k].state \in {"PENDING", "WAITING_FOR_PROOF"} => inbox[k].object \in cached

\* A message is reported as new once, also when a reset brings it again.
AnnouncedOnce == \A o \in Objects : announced[o] =< 1

\* Whatever the mailbox went through, the inbox is consistent: no entry stops a pass, what
\* waits can be admitted, and nothing is announced twice.
InboxSound ==
    /\ TypeOK
    /\ NoIntegrityError
    /\ PendingIsCached
    /\ AnnouncedOnce

\* What was deleted here is neither shown nor queued again.
NotShownAgain ==
    /\ (removed \cup floor) \cap records = {}
    /\ removed \cap DOMAIN outbox = {}

\* No entry of it waits for admission, whatever ciphertext there is.
NotAdmittedAgain ==
    \A k \in DOMAIN inbox : inbox[k].object \in removed => inbox[k].state = "REJECTED"

\* Its ciphertext comes back only for a copy the mailbox listed after the deletion,
\* and only if another mailbox holds it.
OnlyRefetched == removed \cap cached \subseteq Mirrored \cap DOMAIN copies

\* What was deleted on this device is not shown, queued or admitted again, whether it
\* comes back through a reset, a scan or a repair.  Its ciphertext is gone until
\* repair_copies downloads it for a mailbox that lost it, which does not ask whether
\* the message was deleted here.
NoResurrection ==
    /\ NotShownAgain
    /\ NotAdmittedAgain
    /\ OnlyRefetched

\* Whatever the mailbox keeps serving is received.
AllReceived ==
    \A o \in Objects :
        o \in Served ~> o \in records \cup removed \/ o \notin Served

\* An own message that was stored is served again after the mailbox lost it.
Restored ==
    \A o \in Own :
        (o \in DOMAIN outbox /\ outbox[o] = "STORED")
          ~> (o \in Served \/ Refuses(o) \/ o \in removed \/ ~CanStore(o)
              \/ (o \in DOMAIN copies /\ (copies[o].pruned \/ copies[o].expired)))

\* What was written here is sent, held for a new configuration or given up with a
\* proof, also when the answer to the first attempt was lost; nothing stays claimed.
Settled ==
    \A o \in Own :
        o \in DOMAIN outbox ~> \/ o \notin DOMAIN outbox
                               \/ outbox[o] \in {"STORED", "REJECTED", "HELD"}
                               \/ o \notin srv.pruned /\ ~CanStore(o)
=============================================================================
