---------------------------- MODULE StorageBroker ----------------------------
(***************************************************************************)
(* The attachment storage broker: crates/elo-storage/src (engine.rs,       *)
(* server.rs, freshness.rs), with the signed commands of                   *)
(* crates/elo-core/src/attachments/broker.rs.                              *)
(*                                                                         *)
(* The broker keeps the rows of attachments whose ciphertext lies with a   *)
(* storage provider.  A command or a transfer waits for the witness, for   *)
(* the client and for the provider without the engine lock, so everything  *)
(* it has read may be stale when it comes back.  The process may crash at  *)
(* any step while the provider goes on with an upload.                     *)
(*                                                                         *)
(* Configurations of a Space are numbered along its witnessed chain.  A    *)
(* position of the witness journal is its length: that there is only one   *)
(* journal is WitnessJournal's OneJournal.  A signature is the device      *)
(* named in the request.  Every object has size one.  The clock is taken   *)
(* to be monotone and shared with the witness.                             *)
(***************************************************************************)
EXTENDS Integers, FiniteSets

CONSTANTS
    Spaces,
    Objects,       \* the keys of the objects table: a Space and an object id
    SpaceOf,       \* [Objects -> Spaces]
    Devices,
    Heads,         \* 1 .. the last configuration of a chain
    Roles,         \* [Devices -> [Heads -> SUBSET {"read", "post", "manage"}]]
    Requests,      \* record ids of signed commands
    Body,          \* [Requests -> what was signed]
    Workers,       \* requests the server works on at once
    None,
    MaxSpaces,     \* 128 Spaces
    MaxProviders,  \* 32 provider generations of a Space
    MaxObjects,    \* 50 MB, or 1024 objects, of a Space
    LeaseLife,     \* 30 s
    TransferLife,  \* 120 s, TRANSFER_TTL
    PutLife,       \* 90 s for an upload, and what it takes to open the provider
    HelperLife,    \* 80 s for the MEGA helper, from its own start
    Detached,      \* the provider is MEGA, whose helper outlives its request
    BusyLife,      \* 100 s
    ReceiptGrace,  \* 60 s
    Batch,         \* 32 objects in a sweep
    MaxPosition,   \* model bound on the witness journal
    MaxRestarts,   \* model bound on crashes
    MaxTime        \* model bound on the clock

Actions == {"upload", "download"}

Operations == {"status", "configure", "policy", "disable", "reserve",
               "complete", "download", "cancel"}

\* A command: its Space and object, device, configuration, nonce, expiry, and
\* for a change of the settings the revision it expects and the retention.
Bodies == [op : Operations, space : Spaces, object : Objects,
           device : Devices, head : Heads, nonce : Nat, expires : Nat,
           expected : Nat, hours : Nat \ {0}]

ASSUME BrokerAssumption ==
    /\ SpaceOf \in [Objects -> Spaces]
    /\ Heads \subseteq Nat \ {0} /\ 1 \in Heads
    /\ Roles \in [Devices -> [Heads -> SUBSET {"read", "post", "manage"}]]
    /\ Body \in [Requests -> Bodies]
    /\ \A r \in Requests : Body[r].space = SpaceOf[Body[r].object]
    /\ None \notin Requests
    /\ {MaxSpaces, MaxProviders, MaxObjects, LeaseLife, TransferLife, PutLife,
        HelperLife, BusyLife, ReceiptGrace, Batch, MaxPosition, MaxRestarts, MaxTime} \subseteq Nat
    /\ Detached \in BOOLEAN
    /\ PutLife =< BusyLife

VARIABLES
    now,
    journal,    \* the witness: its position, the head of every Space
    retired,    \* history variable: when a configuration was superseded
    floor,      \* witness_floor: the highest position seen, on disk
    cache,      \* leases in memory, by Space
    heads,      \* the heads table: the newest configuration admitted, or 0
    settings,   \* the settings table, by Space
    providers,  \* the providers table: generations, by Space
    objects,    \* the objects table: a function on the ids that have a row
    tokens,     \* the tokens table: a function on the requests that made one
    receipts,   \* the receipts table: requests
    jobs,       \* what each worker is doing
    sweep,      \* the maintenance task: what it listed and what it erased
    puts,       \* until when the provider may still store an upload
    blobs,      \* the provider: what it has stored for an object
    restarts,
    applied,    \* history variable: how often a command took effect
    uses        \* history variable: how often a token was consumed

rows == <<heads, settings, providers, objects, tokens, receipts>>
history == <<retired, applied, uses>>
vars == <<now, journal, floor, cache, rows, jobs, sweep, puts, blobs, restarts,
          history>>

-----------------------------------------------------------------------------
(* Leases on the head of a Space.                                           *)

Put(f, k, v) == [x \in DOMAIN f \cup {k} |-> IF x = k THEN v ELSE f[x]]

Without(f, S) == [x \in DOMAIN f \ S |-> f[x]]

Empty == [x \in {} |-> x]

Never == MaxTime + 1

Idle == [kind |-> "idle"]

\* `VerifiedFreshness::is_valid`: the age counts from the request.
IsValid(lease) == now < lease.at + LeaseLife

\* Fault: a lease is good until a newer position was seen.
CheckFloorOnly(lease) == lease.position >= floor

\* `Engine::check_witness`.
CheckWitness(lease) == IsValid(lease) /\ lease.position >= floor

\* Membership as `require_member` and `verify_command` ask for it.
MayRead(d, h) == "read" \in Roles[d][h]
MayPost(d, h) == {"read", "post"} \subseteq Roles[d][h]
CanManage(d, h) == "manage" \in Roles[d][h]

Configures(c) == c.op = "configure"
Manages(c) == c.op \in {"configure", "policy", "disable"}

VerifyCommand(c) ==
    /\ c.expires > now
    /\ MayRead(c.device, c.head)
    /\ c.op \notin {"status", "download"} => MayPost(c.device, c.head)
    /\ Manages(c) => CanManage(c.device, c.head)

\* `Engine::authorize`.
Authorize(c) ==
    /\ c.expires > now
    /\ heads[c.space] = 0 =>
         \/ c.op = "status"
         \/ /\ c.op = "configure" /\ c.expected = 0
            /\ Cardinality({s \in Spaces : heads[s] # 0}) < MaxSpaces
    /\ c.head >= heads[c.space]

\* `Engine::replay`: a receipt for the same nonce of the same device.
Receipt(r) == {q \in receipts : /\ Body[q].device = Body[r].device
                                /\ Body[q].nonce = Body[r].nonce}

\* `Engine::preflight` lets the command through to its operation.
Preflight(r) ==
    /\ Authorize(Body[r])
    /\ Receipt(r) = {}
    /\ Manages(Body[r]) => settings[Body[r].space].revision = Body[r].expected

\* `Engine::token_target`: the token stands, under the newest configuration.
TokenTarget(r, action) ==
    /\ r \in DOMAIN tokens
    /\ tokens[r].action = action
    /\ tokens[r].expires > now
    /\ tokens[r].head = heads[SpaceOf[tokens[r].object]]

-----------------------------------------------------------------------------
(* The gate, `WitnessGate::require`, and the jobs that pass it.             *)

Goto(w, phase) == [jobs EXCEPT ![w].phase = phase]

At(w, phase) == jobs[w].kind # "idle" /\ jobs[w].phase = phase

\* A lease in memory for that head, still good.
Cached(space, head) == /\ cache[space] # None
                       /\ cache[space].head = head
                       /\ CheckWitness(cache[space])

\* What the witness signs at this moment.
Freshness(space) == [head |-> journal.head[space], position |-> journal.position,
                     at |-> now]

\* A job enters the gate: it has its lease from the cache, or the witness is
\* asked and its answer is under way.
Enter(kind, r, space, head) ==
    [kind |-> kind, req |-> r, space |-> space, head |-> head,
     phase |-> IF Cached(space, head) THEN "leased" ELSE "asked",
     lease |-> IF Cached(space, head) THEN cache[space] ELSE Freshness(space)]

\* A command arrives; it may be one that was already sent.  The handler passes
\* the gate twice, before and after it checks the command and probes the
\* provider of a new configuration.  All that the first pass does is to observe
\* the witness, which is what a job does that is abandoned after its gate.
Receive(w, r) ==
    /\ jobs[w] = Idle
    /\ VerifyCommand(Body[r])
    /\ jobs' = [jobs EXCEPT ![w] = Enter("command", r, Body[r].space, Body[r].head)]
    /\ UNCHANGED <<now, journal, floor, cache, rows, sweep, puts, blobs, restarts,
                   history>>

\* A transfer arrives with a token (`Service::claim`, its first look).
Present(w, r, action) ==
    /\ jobs[w] = Idle
    /\ TokenTarget(r, action)
    /\ jobs' = [jobs EXCEPT ![w] =
                  Enter(action, r, SpaceOf[tokens[r].object], tokens[r].head)]
    /\ UNCHANGED <<now, journal, floor, cache, rows, sweep, puts, blobs, restarts,
                   history>>

\* `Engine::observe_witness`: the floor may have risen since it was read for
\* `verify_freshness`, whose own check this one includes.
Observe(lease) == CheckWitness(lease)

GateObserve(w) ==
    LET lease == jobs[w].lease IN
    /\ At(w, "asked")
    /\ Observe(lease)
    /\ floor' = lease.position
    /\ cache' = [s \in Spaces |->
                   IF s = jobs[w].space THEN lease
                   ELSE IF cache[s] # None /\ IsValid(cache[s]) THEN cache[s]
                   ELSE None]
    /\ jobs' = IF lease.head = jobs[w].head
               THEN Goto(w, "leased")
               ELSE [jobs EXCEPT ![w] = Idle]
    /\ UNCHANGED <<now, journal, rows, sweep, puts, blobs, restarts, history>>

\* A refusal, a timeout or a client that went away, before anything was
\* changed.
Abandon(w) ==
    /\ jobs[w].kind # "idle"
    /\ jobs[w].phase \in {"asked", "leased"}
    /\ jobs' = [jobs EXCEPT ![w] = Idle]
    /\ UNCHANGED <<now, journal, floor, cache, rows, sweep, puts, blobs, restarts,
                   history>>

-----------------------------------------------------------------------------
(* Commands.                                                                *)

Stored(s) == {o \in DOMAIN objects : SpaceOf[o] = s}

Row(c) == objects[c.object]

HasRow(c) == c.object \in DOMAIN objects

Expired(o) == objects[o].expires =< now

Least(a, b) == IF a =< b THEN a ELSE b

Token(c, action, expires) ==
    [object |-> c.object, head |-> c.head, action |-> action,
     expires |-> Least(now + TransferLife, expires)]

Status(r) == UNCHANGED <<settings, providers, objects, tokens>>

Configure(r) ==
    LET c == Body[r] IN
    /\ Cardinality(providers[c.space]) < MaxProviders
    /\ providers' = [providers EXCEPT ![c.space] = @ \cup {c.expected + 1}]
    /\ settings' = [settings EXCEPT ![c.space] =
                      [revision |-> c.expected + 1, enabled |-> TRUE,
                       provider |-> c.expected + 1, hours |-> c.hours]]
    /\ UNCHANGED <<objects, tokens>>

Policy(r) ==
    LET c == Body[r] IN
    /\ c.expected # 0
    /\ settings' = [settings EXCEPT ![c.space].revision = @ + 1,
                                    ![c.space].hours = c.hours]
    /\ UNCHANGED <<providers, objects, tokens>>

Disable(r) ==
    LET c == Body[r] IN
    /\ c.expected # 0
    /\ settings' = [settings EXCEPT ![c.space].revision = @ + 1,
                                    ![c.space].enabled = FALSE]
    /\ tokens' = Without(tokens, {t \in DOMAIN tokens :
                                    /\ SpaceOf[tokens[t].object] = c.space
                                    /\ tokens[t].action = "upload"})
    /\ UNCHANGED <<providers, objects>>

Reserve(r) ==
    LET c == Body[r]
        s == settings[c.space]
        expires == now + s.hours IN
    /\ s.enabled
    /\ Cardinality(Stored(c.space)) < MaxObjects
    /\ ~HasRow(c)
    /\ objects' = Put(objects, c.object,
                      [revision |-> s.provider, creator |-> c.device,
                       expires |-> expires, state |-> "pending", busy |-> 0])
    /\ tokens' = Put(tokens, r, Token(c, "upload", expires))
    /\ UNCHANGED <<settings, providers>>

Complete(r) ==
    LET c == Body[r] IN
    /\ HasRow(c)
    /\ Row(c).creator = c.device /\ ~Expired(c.object)
    /\ Row(c).state \in {"uploaded", "complete"}
    /\ objects' = [objects EXCEPT ![c.object].state = "complete"]
    /\ UNCHANGED <<settings, providers, tokens>>

Download(r) ==
    LET c == Body[r] IN
    /\ HasRow(c)
    /\ Row(c).state = "complete" /\ ~Expired(c.object)
    /\ tokens' = Put(tokens, r, Token(c, "download", Row(c).expires))
    /\ UNCHANGED <<settings, providers, objects>>

Cancel(r) ==
    LET c == Body[r] IN
    /\ HasRow(c)
    /\ Row(c).creator = c.device \/ CanManage(c.device, c.head)
    /\ Row(c).state \notin {"uploading", "complete"}
    /\ objects' = [objects EXCEPT ![c.object].state = "deleting"]
    /\ tokens' = Without(tokens, {t \in DOMAIN tokens : tokens[t].object = c.object})
    /\ UNCHANGED <<settings, providers>>

Operate(r) ==
    CASE Body[r].op = "status"    -> Status(r)
      [] Body[r].op = "configure" -> Configure(r)
      [] Body[r].op = "policy"    -> Policy(r)
      [] Body[r].op = "disable"   -> Disable(r)
      [] Body[r].op = "reserve"   -> Reserve(r)
      [] Body[r].op = "complete"  -> Complete(r)
      [] Body[r].op = "download"  -> Download(r)
      [] Body[r].op = "cancel"    -> Cancel(r)

\* `apply_with_managed`: the operation, the fence and the receipt commit as one.
Apply(w) ==
    LET r == jobs[w].req
        c == Body[r] IN
    /\ At(w, "leased") /\ jobs[w].kind = "command"
    /\ CheckWitness(jobs[w].lease)
    /\ Preflight(r)
    /\ Operate(r)
    /\ heads' = IF heads[c.space] # 0 \/ Configures(c)
                THEN [heads EXCEPT ![c.space] = c.head] ELSE heads
    /\ receipts' = receipts \cup {r}
    /\ applied' = [applied EXCEPT ![r] = @ + 1]
    /\ jobs' = [jobs EXCEPT ![w] = Idle]
    /\ UNCHANGED <<now, journal, floor, cache, sweep, puts, blobs, restarts,
                   retired, uses>>

-----------------------------------------------------------------------------
(* Transfers.                                                               *)

\* Fault: the token is still there after its use.
ConsumeNothing(r) == tokens

\* The token is gone with its first use.
Consumed(r) == Without(tokens, {r})

\* `Service::claim`, its second look, and `Engine::claim`: the upload starts.
ClaimUpload(w) ==
    LET r == jobs[w].req
        o == tokens[r].object IN
    /\ At(w, "leased") /\ jobs[w].kind = "upload"
    /\ CheckWitness(jobs[w].lease)
    /\ TokenTarget(r, "upload")
    /\ o \in DOMAIN objects /\ ~Expired(o) /\ objects[o].state = "pending"
    /\ objects' = [objects EXCEPT ![o].state = "uploading", ![o].busy = now + BusyLife]
    /\ tokens' = Consumed(r)
    /\ uses' = [uses EXCEPT ![r] = @ + 1]
    /\ jobs' = [jobs EXCEPT ![w] = [kind |-> "put", object |-> o, phase |-> "opening",
                                    at |-> now]]
    /\ UNCHANGED <<now, journal, floor, cache, heads, settings, providers, receipts,
                   sweep, puts, blobs, restarts, retired, applied>>

\* The same for a download, which only reads from here on.
ClaimDownload(w) ==
    LET r == jobs[w].req
        o == tokens[r].object IN
    /\ At(w, "leased") /\ jobs[w].kind = "download"
    /\ CheckWitness(jobs[w].lease)
    /\ TokenTarget(r, "download")
    /\ o \in DOMAIN objects /\ ~Expired(o) /\ objects[o].state = "complete"
    /\ tokens' = Consumed(r)
    /\ uses' = [uses EXCEPT ![r] = @ + 1]
    /\ jobs' = [jobs EXCEPT ![w] = Idle]
    /\ UNCHANGED <<now, journal, floor, cache, heads, settings, providers, objects,
                   receipts, sweep, puts, blobs, restarts, retired, applied>>

\* A request to an S3 provider ends with the upload that makes it; the helper
\* of MEGA is a task of its own (`MegaFolder::run`).
PutDeadline(claimed) == IF Detached THEN now + HelperLife ELSE claimed + PutLife

\* The provider is opened and the client's ciphertext goes to it.
StartPut(w, o) ==
    /\ At(w, "opening") /\ jobs[w].object = o
    /\ now < jobs[w].at + PutLife
    /\ o \in DOMAIN objects /\ objects[o].revision \in providers[SpaceOf[o]]
    /\ puts' = [puts EXCEPT ![o] = PutDeadline(jobs[w].at)]
    /\ jobs' = Goto(w, "putting")
    /\ UNCHANGED <<now, journal, floor, cache, rows, sweep, blobs, restarts, history>>

\* The provider has stored what the client sent: the announced ciphertext or
\* not.  It may do so after the broker has given up.
PutLands(o, content) ==
    /\ now < puts[o]
    /\ blobs' = [blobs EXCEPT ![o] = content]
    /\ puts' = [puts EXCEPT ![o] = 0]
    /\ UNCHANGED <<now, journal, floor, cache, rows, jobs, sweep, restarts, history>>

Uploader(w, o) == jobs[w].kind = "put" /\ jobs[w].object = o

\* Fault: a failed upload does not wait for the provider either.
UploadedIdle(o, success) ==
    IF o \in DOMAIN objects /\ objects[o].state = "uploading"
    THEN [objects EXCEPT
            ![o].state = IF success THEN "uploaded" ELSE "deleting",
            ![o].busy = 0]
    ELSE objects

\* `Engine::uploaded`: only an upload that is still under way has an outcome.
Uploaded(o, success) ==
    IF o \in DOMAIN objects /\ objects[o].state = "uploading"
    THEN [objects EXCEPT
            ![o].state = IF success THEN "uploaded" ELSE "deleting",
            ![o].busy = IF success THEN 0 ELSE @]
    ELSE objects

\* The provider has confirmed, and size and digest are as announced.
UploadDone(w, o) ==
    /\ Uploader(w, o) /\ At(w, "putting")
    /\ puts[o] = 0 /\ blobs[o] = "right"
    /\ objects' = Uploaded(o, TRUE)
    /\ jobs' = [jobs EXCEPT ![w] = Idle]
    /\ UNCHANGED <<now, journal, floor, cache, heads, settings, providers, tokens,
                   receipts, sweep, puts, blobs, restarts, history>>

\* `UploadGuard::drop`: any other end of an upload, with or without an answer
\* of the provider.
UploadFailed(w, o) ==
    /\ Uploader(w, o)
    /\ objects' = Uploaded(o, FALSE)
    /\ jobs' = [jobs EXCEPT ![w] = Idle]
    /\ UNCHANGED <<now, journal, floor, cache, heads, settings, providers, tokens,
                   receipts, sweep, puts, blobs, restarts, history>>

-----------------------------------------------------------------------------
(* Maintenance.                                                             *)

\* Fault: a reservation that nothing was uploaded for is garbage.
GarbageReserved == {o \in DOMAIN objects :
                      /\ objects[o].state # "uploading"
                      /\ objects[o].busy =< now
                      /\ objects[o].state \in {"pending", "deleting"} \/ Expired(o)}

\* `Engine::garbage`.
Garbage == {o \in DOMAIN objects :
              /\ objects[o].state # "uploading"
              /\ objects[o].busy =< now
              /\ objects[o].state = "deleting" \/ Expired(o)}

Resting == [active |-> FALSE, listed |-> {}, erased |-> {}]

SweepBegin ==
    /\ ~sweep.active
    /\ \E S \in SUBSET Garbage :
         /\ Cardinality(S) = Least(Cardinality(Garbage), Batch)
         /\ sweep' = [active |-> TRUE, listed |-> S, erased |-> {}]
    /\ UNCHANGED <<now, journal, floor, cache, rows, jobs, puts, blobs, restarts,
                   history>>

\* The provider's credentials come from the generation the object was
\* reserved under.
SweepErase(o) ==
    /\ o \in sweep.listed
    /\ o \in DOMAIN objects /\ objects[o].revision \in providers[SpaceOf[o]]
    /\ blobs' = [blobs EXCEPT ![o] = "none"]
    /\ sweep' = [sweep EXCEPT !.listed = @ \ {o}, !.erased = @ \cup {o}]
    /\ UNCHANGED <<now, journal, floor, cache, rows, jobs, puts, restarts, history>>

\* The provider does not answer, or there is no slot: another sweep will do it.
SweepSkip(o) ==
    /\ o \in sweep.listed
    /\ sweep' = [sweep EXCEPT !.listed = @ \ {o}]
    /\ UNCHANGED <<now, journal, floor, cache, rows, jobs, puts, blobs, restarts,
                   history>>

\* `Engine::deleted`.
SweepForget(o) ==
    /\ o \in sweep.erased
    /\ sweep' = [sweep EXCEPT !.erased = @ \ {o}]
    /\ tokens' = Without(tokens, {t \in DOMAIN tokens : tokens[t].object = o})
    /\ objects' = Without(objects, {p \in DOMAIN objects :
                                      p = o /\ objects[p].state # "uploading"})
    /\ UNCHANGED <<now, journal, floor, cache, heads, settings, providers, receipts,
                   jobs, puts, blobs, restarts, history>>

\* A generation is kept for its objects, and for the objects to come.
Kept(s) == {p \in providers[s] :
              \/ \E o \in Stored(s) : objects[o].revision = p
              \/ settings[s].enabled /\ settings[s].provider = p}

Pruned == {r \in receipts : Body[r].expires >= now - ReceiptGrace}

\* `Engine::prune`, at the end of every sweep.
SweepEnd ==
    /\ sweep.active /\ sweep.listed = {} /\ sweep.erased = {}
    /\ sweep' = Resting
    /\ receipts' = Pruned
    /\ tokens' = Without(tokens, {t \in DOMAIN tokens : tokens[t].expires =< now})
    /\ providers' = [s \in Spaces |-> Kept(s)]
    /\ UNCHANGED <<now, journal, floor, cache, heads, settings, objects, jobs, puts,
                   blobs, restarts, history>>

-----------------------------------------------------------------------------
(* The process, the witness and the clock.                                  *)

\* A crash and `Engine::open`: what was in memory is gone, an upload that was
\* under way is to be deleted, and the provider may still go on with it.
Restart ==
    /\ restarts < MaxRestarts
    /\ restarts' = restarts + 1
    /\ cache' = [s \in Spaces |-> None]
    /\ jobs' = [w \in Workers |-> Idle]
    /\ sweep' = Resting
    /\ objects' = [o \in DOMAIN objects |->
                     [objects[o] EXCEPT !.state =
                        IF @ = "uploading" THEN "deleting" ELSE @]]
    /\ UNCHANGED <<now, journal, floor, heads, settings, providers, tokens, receipts,
                   puts, blobs, history>>

\* The witness appends a configuration of a Space.
WitnessUpdate(s) ==
    /\ journal.position < MaxPosition
    /\ journal.head[s] + 1 \in Heads
    /\ journal' = [position |-> journal.position + 1,
                   head |-> [journal.head EXCEPT ![s] = @ + 1]]
    /\ retired' = [retired EXCEPT ![s][journal.head[s]] = now]
    /\ UNCHANGED <<now, floor, cache, rows, jobs, sweep, puts, blobs, restarts,
                   applied, uses>>

\* The witness appends another event.
WitnessOther ==
    /\ journal.position < MaxPosition
    /\ journal' = [journal EXCEPT !.position = @ + 1]
    /\ UNCHANGED <<now, floor, cache, rows, jobs, sweep, puts, blobs, restarts,
                   history>>

Tick ==
    /\ now < MaxTime
    /\ now' = now + 1
    /\ UNCHANGED <<journal, floor, cache, rows, jobs, sweep, puts, blobs, restarts,
                   history>>

Init ==
    /\ now = 0
    /\ journal = [position |-> 1, head |-> [s \in Spaces |-> 1]]
    /\ retired = [s \in Spaces |-> [h \in Heads |-> Never]]
    /\ floor = 0
    /\ cache = [s \in Spaces |-> None]
    /\ heads = [s \in Spaces |-> 0]
    /\ settings = [s \in Spaces |-> [revision |-> 0, enabled |-> FALSE,
                                     provider |-> 0, hours |-> 0]]
    /\ providers = [s \in Spaces |-> {}]
    /\ objects = Empty
    /\ tokens = Empty
    /\ receipts = {}
    /\ jobs = [w \in Workers |-> Idle]
    /\ sweep = Resting
    /\ puts = [o \in Objects |-> 0]
    /\ blobs = [o \in Objects |-> "none"]
    /\ restarts = 0
    /\ applied = [r \in Requests |-> 0]
    /\ uses = [r \in Requests |-> 0]

Job(w) ==
    \/ \E r \in Requests : Receive(w, r)
    \/ \E r \in Requests, action \in Actions : Present(w, r, action)
    \/ GateObserve(w)
    \/ Abandon(w)
    \/ Apply(w)
    \/ ClaimUpload(w)
    \/ ClaimDownload(w)
    \/ \E o \in Objects : StartPut(w, o) \/ UploadDone(w, o) \/ UploadFailed(w, o)

Sweep ==
    \/ SweepBegin
    \/ \E o \in Objects : SweepErase(o) \/ SweepSkip(o) \/ SweepForget(o)
    \/ SweepEnd

Next ==
    \/ \E w \in Workers : Job(w)
    \/ \E o \in Objects, content \in {"right", "wrong"} : PutLands(o, content)
    \/ Sweep
    \/ Restart
    \/ \E s \in Spaces : WitnessUpdate(s)
    \/ WitnessOther
    \/ Tick

Spec == Init /\ [][Next]_vars

-----------------------------------------------------------------------------
(* Properties.                                                              *)

States == {"pending", "uploading", "uploaded", "complete", "deleting"}

ObjectRow == [revision : Nat, creator : Devices, expires : Nat, state : States,
              busy : Nat]

TokenRow == [object : Objects, head : Heads, action : Actions, expires : Nat]

Lease == [head : Heads, position : Nat, at : Nat]

JobType ==
    {Idle}
    \cup [kind : {"put"}, object : Objects, phase : {"opening", "putting"}, at : Nat]
    \cup [kind : Actions \cup {"command"}, req : Requests, space : Spaces,
          head : Heads, phase : {"asked", "leased"}, lease : Lease]

\* The tables, the process and the provider have their types.
TypeOK ==
    /\ {now, floor, restarts} \subseteq Nat
    /\ journal \in [position : Nat, head : [Spaces -> Heads]]
    /\ retired \in [Spaces -> [Heads -> Nat]]
    /\ cache \in [Spaces -> Lease \cup {None}]
    /\ heads \in [Spaces -> Heads \cup {0}]
    /\ settings \in [Spaces -> [revision : Nat, enabled : BOOLEAN,
                                provider : Nat, hours : Nat]]
    /\ providers \in [Spaces -> SUBSET Nat]
    /\ DOMAIN objects \subseteq Objects
    /\ \A o \in DOMAIN objects : objects[o] \in ObjectRow
    /\ DOMAIN tokens \subseteq Requests
    /\ \A r \in DOMAIN tokens : tokens[r] \in TokenRow
    /\ receipts \subseteq Requests
    /\ jobs \in [Workers -> JobType]
    /\ sweep \in [active : BOOLEAN, listed : SUBSET Objects, erased : SUBSET Objects]
    /\ puts \in [Objects -> Nat]
    /\ blobs \in [Objects -> {"none", "right", "wrong"}]
    /\ applied \in [Requests -> Nat]
    /\ uses \in [Requests -> Nat]

\* elo-storage/README.md:11, "completed objects remain immutable until expiry":
\* until then the provider has the announced ciphertext of a complete object,
\* whatever uploads, cancellations, sweeps and crashes do.
CompleteIsStored ==
    \A o \in DOMAIN objects :
        objects[o].state = "complete" /\ ~Expired(o) => blobs[o] = "right"

\* elo-storage/README.md:133, "a persisted 100-second upload lease prevents
\* cleanup racing an interrupted provider write": whatever the provider holds,
\* or may still come to hold, has a row, so that a later sweep removes it and
\* the quota counts it.
NoOrphans ==
    \A o \in Objects : blobs[o] # "none" \/ now < puts[o] => o \in DOMAIN objects

\* Credentials are pruned only when no row needs them: every object can be read
\* and deleted under the generation it was reserved with.
CredentialsKept ==
    \A o \in DOMAIN objects : objects[o].revision \in providers[SpaceOf[o]]

\* A signed command takes effect once, although clients repeat it, answers are
\* lost and receipts are pruned.
AppliedOnce == \A r \in Requests : applied[r] =< 1

\* A transfer token is good for one transfer, although two connections may
\* present it at once and the broker may crash in between.
TokensUsedOnce == \A r \in Requests : uses[r] =< 1

\* The persisted floor never goes back, however answers overtake each other.
KeepsFloor == floor' >= floor

Superseded(s, h) == retired[s][h] + LeaseLife =< now

\* elo-storage/README.md:26, "revocation becomes effective within this bounded
\* lease": nothing is applied and no transfer starts under a configuration that
\* the witness superseded LeaseLife ago.
HonoursRevocation ==
    \A r \in Requests :
      /\ applied'[r] > applied[r] => ~Superseded(Body[r].space, Body[r].head)
      /\ uses'[r] > uses[r] => ~Superseded(SpaceOf[tokens[r].object], tokens[r].head)

\* elo-storage/README.md:131, "Disable stops future uploads": no upload starts
\* while the storage is disabled, although starting one does not look.
HonoursDisable ==
    \A o \in DOMAIN objects \cap DOMAIN objects' :
      objects'[o].state = "uploading" /\ objects[o].state # "uploading"
        => settings[SpaceOf[o]].enabled

\* Authority that was withdrawn stays withdrawn, within the lease: the floor, a revoked
\* configuration and a disabled storage are honoured by answers and uploads in flight.
WithdrawalHonoured == [][KeepsFloor /\ HonoursRevocation /\ HonoursDisable]_vars

\* A row can be trusted: complete means stored, the credentials it needs are kept, and no
\* command or token counted twice on the way.
RowsSound ==
    /\ TypeOK
    /\ CompleteIsStored
    /\ CredentialsKept
    /\ AppliedOnce
    /\ TokensUsedOnce

\* What a row says of the life of its object.
LifeOf(o) == IF o \notin DOMAIN objects THEN "absent"
             ELSE IF objects[o].state = "deleting" \/ Expired(o) THEN "closing"
             ELSE IF objects[o].state = "complete" THEN "readable"
             ELSE "open"

Lives == [o \in Objects |-> LifeOf(o)]

\* Whether the provider may still store something for an object.
Writes == [o \in Objects |-> now < puts[o]]

Life == INSTANCE AttachmentLife WITH life <- Lives, content <- blobs, writing <- Writes

\* The broker does what AttachmentLife promises.
ImplementsLife == Life!LifeSpec
=============================================================================
