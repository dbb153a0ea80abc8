----------------------------- MODULE CallEngine -----------------------------
(***************************************************************************)
(* The admission of commands in a call service:                            *)
(* crates/elo-call-service/src/engine.rs (preparation, verify, execute,    *)
(* authorized_head, maintain), around the calls of CallRegistry.           *)
(*                                                                         *)
(* A command is prepared under the engine lock, verified and put to the    *)
(* hosting service without it, and executed under the lock again: what was *)
(* true when it was prepared may have changed.  The engine keeps a fence   *)
(* per conversation, the newest configuration it has admitted, on disk and *)
(* in a bounded memory; and a receipt per command it has applied.          *)
(*                                                                         *)
(* An authority proof is the configuration it proves, with its ancestors   *)
(* and its controller recoveries.  Of a call only the configuration it was *)
(* opened under is kept.  All proofs have size one.  The clock is taken to *)
(* be monotone, a database write to happen as a whole or not at all.       *)
(***************************************************************************)
EXTENDS Integers, FiniteSets

CONSTANTS
    Scopes,       \* conversations
    Configs,      \* configuration ids
    Ancestors,    \* [Configs -> SUBSET Configs], itself included
    Recoveries,   \* [Configs -> SUBSET of recovery certificates it proves]
    Recovery,     \* [Configs -> the latest of them, or None]
    Commands,     \* record ids of signed commands
    CommandBody,  \* [Commands -> [scope, config, key, expires]]
    None,         \* no recovery
    MaxScopes,    \* 4096 fences in memory
    MaxProofs,    \* 64 MiB of proofs in memory
    IdleTime,     \* 120 s
    MaxJobs,      \* model bound on commands in flight
    MaxRestarts,  \* model bound on restarts
    MaxTime       \* model bound on the clock

ASSUME EngineAssumption ==
    /\ Ancestors \in [Configs -> SUBSET Configs]
    /\ \A c \in Configs :
         /\ c \in Ancestors[c]
         /\ IsFiniteSet(Ancestors[c])
         /\ \A d \in Ancestors[c] : Ancestors[d] \subseteq Ancestors[c]
    /\ DOMAIN Recoveries = Configs /\ DOMAIN Recovery = Configs
    /\ \A c \in Configs : Recovery[c] \in Recoveries[c] \cup {None}
    /\ DOMAIN CommandBody = Commands
    /\ \A c \in Commands :
         /\ CommandBody[c].scope \in Scopes
         /\ CommandBody[c].config \in Configs
         /\ CommandBody[c].expires \in Nat
    /\ {MaxScopes, MaxProofs, IdleTime, MaxJobs, MaxRestarts, MaxTime} \subseteq Nat

VARIABLES
    now,       \* the service's clock
    disk,      \* the fences table
    receipts,  \* the receipts table
    memory,    \* the fences of the running process
    rooms,     \* the open calls, by scope: the configuration of each
    jobs,      \* commands prepared and not yet executed
    restarts,
    applied    \* history variable: how often each command took effect

vars == <<now, disk, receipts, memory, rooms, jobs, restarts, applied>>

-----------------------------------------------------------------------------
(* Fences.                                                                  *)

Put(f, k, v) == [x \in DOMAIN f \cup {k} |-> IF x = k THEN v ELSE f[x]]

Drop(f, k) == [x \in DOMAIN f \ {k} |-> f[x]]

Empty == [x \in {} |-> x]

\* A configuration's sequence number is its place in its own history.
Sequence(c) == Cardinality(Ancestors[c])

\* `stored_fence`: a fence comes back from disk without its authority.
Stored(s) == [head |-> disk[s].head, recovery |-> disk[s].recovery,
              blocked |-> disk[s].blocked, cached |-> FALSE, paid |-> FALSE,
              used |-> 0]

\* Fault: an open call does not keep its fence in memory.
IsIdleAnyway(s) == now - memory[s].used >= IdleTime

IsIdle(s) == /\ s \notin DOMAIN rooms
             /\ now - memory[s].used >= IdleTime

IdleFences == {s \in DOMAIN memory : IsIdle(s)}

\* The fences that have been idle longest.
Evictable == {s \in IdleFences :
                 \A t \in IdleFences : memory[s].used =< memory[t].used}

\* The memory with room for one more fence, if there can be any.
Spare == IF Cardinality(DOMAIN memory) < MaxScopes
         THEN {memory}
         ELSE {Drop(memory, t) : t \in Evictable}

\* The memory once the fence of the scope has been looked for.
Loads(s) == IF s \in DOMAIN memory THEN {memory}
            ELSE IF s \in DOMAIN disk
            THEN {Put(m, s, Stored(s)) : m \in Spare}
            ELSE Spare

\* What the proof for configuration c means to the fence f.
ProvesRecovery(f, c) == f.recovery \in Recoveries[c] \cup {None}

SameHead(f, c) == ~f.blocked /\ ProvesRecovery(f, c) /\ f.head = c

\* Fault: recoveries are not compared.
NewerHeadUnrecovered(f, c) == /\ ~f.blocked
                              /\ f.head # c
                              /\ f.head \in Ancestors[c]

NewerHead(f, c) == /\ ~f.blocked
                   /\ ProvesRecovery(f, c)
                   /\ f.head # c
                   /\ f.head \in Ancestors[c]

\* Neither older nor a descendant: the controller signed two histories.
ForkedHead(f, c) == /\ ~f.blocked
                    /\ ProvesRecovery(f, c)
                    /\ f.head # c
                    /\ f.head \notin Ancestors[c]
                    /\ Sequence(c) >= Sequence(f.head)

-----------------------------------------------------------------------------
(* Preparing a command.                                                     *)

ScopeOf(j)  == CommandBody[j.command].scope
ConfigOf(j) == CommandBody[j.command].config
KeyOf(c)    == CommandBody[c].key

NotBlocked(f, s) == s \in DOMAIN f => ~f[s].blocked

\* `verify`: without a proof of its own, a command relies on the cached
\* authority, whose head must be the configuration it names.
Verifies(c, proof) ==
    LET s == CommandBody[c].scope IN
    /\ CommandBody[c].expires > now
    /\ proof \/ /\ s \in DOMAIN memory
                /\ memory[s].cached
                /\ memory[s].head = CommandBody[c].config

Prepare(c, proof) ==
    LET s == CommandBody[c].scope IN
    /\ NotBlocked(memory, s) /\ NotBlocked(disk, s)
    /\ Verifies(c, proof)
    /\ Cardinality(jobs) < MaxJobs
    /\ jobs' = jobs \cup {[command |-> c, proof |-> proof]}
    /\ UNCHANGED <<now, disk, receipts, memory, rooms, restarts, applied>>

-----------------------------------------------------------------------------
(* Executing it.                                                            *)

Taken(j) == /\ j \in jobs
            /\ jobs' = jobs \ {j}
            /\ UNCHANGED <<now, restarts>>

Live(j) == CommandBody[j.command].expires > now

\* Whether the proof behind the fence is counted against the memory.
Paid(j, m) == j.proof \/ (ScopeOf(j) \in DOMAIN m /\ m[ScopeOf(j)].paid)

Fits(j, m) ==
    Cardinality({t \in DOMAIN m \ {ScopeOf(j)} : m[t].paid})
      + (IF Paid(j, m) THEN 1 ELSE 0) =< MaxProofs

Received(j) == {r \in receipts : KeyOf(r) = KeyOf(j.command)}

\* The fence with the authority of the command.
Cached(j, m, f) == [f EXCEPT !.cached = TRUE, !.paid = Paid(j, m), !.used = now]

\* Expired, no room for the fence, a proof too many, a refusal by the fence, a
\* database error: at most the fence has been loaded, or another evicted for it.
Refuse(j) ==
    LET s == ScopeOf(j) IN
    /\ Taken(j)
    /\ \/ UNCHANGED memory
       \/ Live(j) /\ memory' \in Loads(s)
       \/ Live(j) /\ s \notin DOMAIN memory /\ memory' \in Spare
    /\ UNCHANGED <<disk, receipts, rooms, applied>>

\* The head is known; the command is a duplicate, reuses a nonce, or is refused
\* by the registry or by the database afterwards.
Refresh(j) ==
    LET s == ScopeOf(j) IN
    /\ Taken(j) /\ Live(j)
    /\ \E m \in Loads(s) :
         /\ s \in DOMAIN m /\ Fits(j, m) /\ SameHead(m[s], ConfigOf(j))
         /\ memory' = Put(m, s, Cached(j, m, m[s]))
    /\ UNCHANGED <<disk, receipts, rooms, applied>>

\* `configuration_changed`.
EndStale(r, s, c) == IF s \in DOMAIN r /\ r[s] # c THEN Drop(r, s) ELSE r

\* Two histories: the conversation is blocked for good.
Block(j) ==
    LET s == ScopeOf(j) IN
    /\ Taken(j) /\ Live(j)
    /\ \E m \in Loads(s) :
         /\ s \in DOMAIN m /\ Fits(j, m) /\ ForkedHead(m[s], ConfigOf(j))
         /\ memory' = [m EXCEPT ![s].blocked = TRUE]
    /\ disk' = [disk EXCEPT ![s].blocked = TRUE]
    /\ rooms' = EndStale(rooms, s, ConfigOf(j))
    /\ UNCHANGED <<receipts, applied>>

\* Fault: the row keeps no recovery.
NewFenceUnrecovered(c) == [head |-> c, recovery |-> None, blocked |-> FALSE]

NewFence(c) == [head |-> c, recovery |-> Recovery[c], blocked |-> FALSE]

\* The fence moves to the configuration of the command, on disk first.
Advances(j, m) ==
    LET s == ScopeOf(j)
        c == ConfigOf(j)
    IN /\ Fits(j, m)
       /\ s \in DOMAIN m => NewerHead(m[s], c)
       /\ Received(j) = {}
       /\ j.proof
       /\ disk' = Put(disk, s, NewFence(c))
       /\ memory' = Put(m, s, [head |-> c, recovery |-> Recovery[c],
                               blocked |-> FALSE, cached |-> TRUE,
                               paid |-> TRUE, used |-> now])

\* The fence is kept although the registry or the database refuses the rest.
Admit(j) ==
    /\ Taken(j) /\ Live(j)
    /\ \E m \in Loads(ScopeOf(j)) : Advances(j, m)
    /\ rooms' = EndStale(rooms, ScopeOf(j), ConfigOf(j))
    /\ UNCHANGED <<receipts, applied>>

\* What a command may do to the call of its conversation.
Outcomes(r, s, c) == {r, IF s \in DOMAIN r THEN Drop(r, s) ELSE Put(r, s, c)}

\* Fault: a receipt is pruned before its command has expired.
UnexpiredEarly == {r \in receipts : CommandBody[r].expires > now + 1}

Unexpired == {r \in receipts : CommandBody[r].expires > now}

Apply(j) ==
    LET s == ScopeOf(j)
        c == ConfigOf(j)
    IN /\ Taken(j) /\ Live(j)
       /\ Received(j) = {}
       /\ \E m \in Loads(s) :
            \/ Advances(j, m)
            \/ /\ s \in DOMAIN m /\ Fits(j, m) /\ SameHead(m[s], c)
               /\ memory' = Put(m, s, Cached(j, m, m[s]))
               /\ UNCHANGED disk
       /\ rooms' \in Outcomes(EndStale(rooms, s, c), s, c)
       /\ receipts' = Unexpired \cup {j.command}
       /\ applied' = [applied EXCEPT ![j.command] = @ + 1]

-----------------------------------------------------------------------------
(* The rest of the service.                                                 *)

\* `authorized_head`, for a subscription that only listens.
Touch(s) ==
    /\ s \in DOMAIN memory /\ ~memory[s].blocked /\ memory[s].cached
    /\ memory' = [memory EXCEPT ![s].used = now]
    /\ UNCHANGED <<now, disk, receipts, rooms, jobs, restarts, applied>>

\* `maintain`: receipts are pruned, the registry ends the calls that are due,
\* and fences that nobody uses lose their authority.
Maintain ==
    \E kept \in SUBSET DOMAIN rooms :
      /\ receipts' = Unexpired
      /\ rooms' = [s \in kept |-> rooms[s]]
      /\ memory' = [s \in DOMAIN memory |->
                      IF now - memory[s].used >= IdleTime /\ s \notin kept
                      THEN [memory[s] EXCEPT !.cached = FALSE, !.paid = FALSE]
                      ELSE memory[s]]
      /\ UNCHANGED <<now, disk, jobs, restarts, applied>>

\* The hosting service or the media server ends a call, or the maintenance
\* could not write and ends them all.
EndRooms ==
    /\ \E kept \in SUBSET DOMAIN rooms : rooms' = [s \in kept |-> rooms[s]]
    /\ UNCHANGED <<now, disk, receipts, memory, jobs, restarts, applied>>

\* Calls end with the process, the tables do not.
Restart ==
    /\ restarts < MaxRestarts
    /\ restarts' = restarts + 1
    /\ memory' = Empty /\ rooms' = Empty /\ jobs' = {}
    /\ UNCHANGED <<now, disk, receipts, applied>>

Clock ==
    /\ now < MaxTime
    /\ now' = now + 1
    /\ UNCHANGED <<disk, receipts, memory, rooms, jobs, restarts, applied>>

Init ==
    /\ now = 0
    /\ disk = Empty
    /\ receipts = {}
    /\ memory = Empty
    /\ rooms = Empty
    /\ jobs = {}
    /\ restarts = 0
    /\ applied = [c \in Commands |-> 0]

Next ==
    \/ \E c \in Commands, proof \in BOOLEAN : Prepare(c, proof)
    \/ \E j \in jobs : Refuse(j) \/ Refresh(j) \/ Block(j) \/ Admit(j) \/ Apply(j)
    \/ \E s \in Scopes : Touch(s)
    \/ Maintain
    \/ EndRooms
    \/ Restart
    \/ Clock

Spec == Init /\ [][Next]_vars

-----------------------------------------------------------------------------
(* Properties.                                                              *)

Certificates == (UNION {Recoveries[c] : c \in Configs}) \cup {None}

DiskFence == [head : Configs, recovery : Certificates, blocked : BOOLEAN]

Fence == [head : Configs, recovery : Certificates, blocked : BOOLEAN,
          cached : BOOLEAN, paid : BOOLEAN, used : Nat]

\* Every variable has its type (Fence, the tables of open_with_witness).
TypeOK ==
    /\ now \in Nat
    /\ DOMAIN disk \subseteq Scopes
    /\ \A s \in DOMAIN disk : disk[s] \in DiskFence
    /\ receipts \subseteq Commands
    /\ DOMAIN memory \subseteq Scopes
    /\ \A s \in DOMAIN memory : memory[s] \in Fence
    /\ DOMAIN rooms \subseteq Scopes
    /\ \A s \in DOMAIN rooms : rooms[s] \in Configs
    /\ jobs \subseteq [command : Commands, proof : BOOLEAN]
    /\ restarts \in Nat
    /\ applied \in [Commands -> Nat]

\* The fence in memory is the fence on disk, through eviction, reload, block
\* and advance: a command that was admitted while its conversation was out of
\* memory meets the same floor (`stored_fence`).
MemoryMatchesDisk ==
    \A s \in DOMAIN memory :
      /\ s \in DOMAIN disk
      /\ memory[s].head = disk[s].head
      /\ memory[s].recovery = disk[s].recovery
      /\ memory[s].blocked = disk[s].blocked

\* An open call always stands under the fence: in memory, with its authority,
\* not blocked, and at the configuration the call was opened under.  This is
\* what CallRegistry takes for granted of every command it sees.
RoomsFenced ==
    \A s \in DOMAIN rooms :
      /\ s \in DOMAIN memory
      /\ memory[s].cached
      /\ ~memory[s].blocked
      /\ memory[s].head = rooms[s]

\* Whatever arrives in whatever order, and whenever the process restarts, an
\* admitted configuration only gives way to its descendants, an admitted
\* recovery is never undone, and a block is never lifted.
FencesAdvance ==
    [][\A s \in DOMAIN disk :
         /\ s \in DOMAIN disk'
         /\ disk[s].head \in Ancestors[disk'[s].head]
         /\ disk'[s] # disk[s] =>
              /\ disk[s].recovery \in Recoveries[disk'[s].head] \cup {None}
              /\ ~disk[s].blocked]_vars

Comparable(c, d) == c \in Ancestors[d] \/ d \in Ancestors[c]

\* A conversation is only blocked when two histories of it have been presented:
\* commands that arrive late or out of order never block it.
BlockedOnlyByForks ==
    \A s \in DOMAIN disk : disk[s].blocked =>
      \E c \in Commands : /\ CommandBody[c].scope = s
                          /\ ~Comparable(CommandBody[c].config, disk[s].head)

\* A command takes effect at most once, whatever is repeated in flight, across
\* restarts and the pruning of its receipt.
AppliedOnce == \A c \in Commands : applied[c] =< 1

\* The proofs in memory stay within their bound ("the bounded live proof
\* cache").
ProofCacheBounded ==
    Cardinality({s \in DOMAIN memory : memory[s].cached}) =< MaxProofs

\* The fences in memory and on disk are one, and only a fork has blocked one.
FencesSound ==
    /\ TypeOK
    /\ MemoryMatchesDisk
    /\ BlockedOnlyByForks
=============================================================================
