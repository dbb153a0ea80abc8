-------------------------- MODULE CallEngineProofs --------------------------
(***************************************************************************)
(* Theorems about CallEngine, for any histories, commands and limits.      *)
(*                                                                         *)
(* The invariant relates three things that are changed at different times: *)
(* the fences on disk, the fences in memory, and the open calls.  Every    *)
(* step of `execute` first loads a fence, so the facts about the memory    *)
(* are stated for any memory m and shown for each one that can be loaded.  *)
(***************************************************************************)
EXTENDS CallEngine, FiniteSetTheorems, TLAPS

-----------------------------------------------------------------------------
(* The inductive invariant.                                                 *)

\* Two histories of the conversation exist.
Forked(s, c) == \E d \in Commands : /\ CommandBody[d].scope = s
                                    /\ ~Comparable(CommandBody[d].config, c)

DiskOK(dk) ==
    /\ DOMAIN dk \subseteq Scopes
    /\ \A t \in DOMAIN dk : /\ dk[t] \in DiskFence
                            /\ dk[t].recovery = Recovery[dk[t].head]
                            /\ dk[t].blocked => Forked(t, dk[t].head)

MemoryOK(m, dk) ==
    /\ DOMAIN m \subseteq DOMAIN dk
    /\ \A t \in DOMAIN m : /\ m[t] \in Fence
                           /\ m[t].head = dk[t].head
                           /\ m[t].recovery = dk[t].recovery
                           /\ m[t].blocked = dk[t].blocked

RoomsOK(r, m) ==
    \A t \in DOMAIN r : /\ t \in DOMAIN m
                        /\ m[t].cached
                        /\ ~m[t].blocked
                        /\ m[t].head = r[t]

\* The receipt of a command outlives every chance to execute it again.
LedgerOK ==
    /\ receipts \subseteq Commands
    /\ applied \in [Commands -> Nat]
    /\ \A c \in Commands :
         /\ applied[c] =< 1
         /\ applied[c] # 0 => c \in receipts \/ CommandBody[c].expires =< now

Rest ==
    /\ now \in Nat
    /\ restarts \in Nat
    /\ jobs \subseteq [command : Commands, proof : BOOLEAN]

EngineInv ==
    /\ Rest
    /\ DiskOK(disk)
    /\ MemoryOK(memory, disk)
    /\ RoomsOK(rooms, memory)
    /\ LedgerOK

-----------------------------------------------------------------------------
(* Fences.                                                                  *)

LEMMA JobFacts ==
    ASSUME Rest, NEW j \in jobs
    PROVE  /\ j.command \in Commands /\ j.proof \in BOOLEAN
           /\ ScopeOf(j) \in Scopes /\ ConfigOf(j) \in Configs
BY EngineAssumption DEF Rest, ScopeOf, ConfigOf

LEMMA StoredFence ==
    ASSUME DiskOK(disk), NEW s \in DOMAIN disk
    PROVE  /\ Stored(s) \in Fence
           /\ Stored(s).head = disk[s].head
           /\ Stored(s).recovery = disk[s].recovery
           /\ Stored(s).blocked = disk[s].blocked
BY DEF DiskOK, Stored, Fence, DiskFence

LEMMA SpareMemory ==
    ASSUME MemoryOK(memory, disk), RoomsOK(rooms, memory), NEW m \in Spare
    PROVE  MemoryOK(m, disk) /\ RoomsOK(rooms, m)
<1>1. CASE m = memory
  BY <1>1
<1>2. CASE \E t \in Evictable : m = Drop(memory, t)
  <2>1. PICK t \in Evictable : m = Drop(memory, t)
    BY <1>2
  <2>2. t \notin DOMAIN rooms
    BY DEF Evictable, IdleFences, IsIdle
  <2> QED
    BY <2>1, <2>2 DEF MemoryOK, RoomsOK, Drop
<1> QED
  BY <1>1, <1>2 DEF Spare

\* A fence that is looked for is the one on disk, and no open call loses its own.
LEMMA LoadedMemory ==
    ASSUME DiskOK(disk), MemoryOK(memory, disk), RoomsOK(rooms, memory),
           NEW s, NEW m \in Loads(s)
    PROVE  /\ MemoryOK(m, disk)
           /\ RoomsOK(rooms, m)
           /\ s \in DOMAIN disk => s \in DOMAIN m
<1>1. CASE s \in DOMAIN memory
  BY <1>1 DEF Loads
<1>2. CASE s \notin DOMAIN memory /\ s \in DOMAIN disk
  <2>1. PICK n \in Spare : m = Put(n, s, Stored(s))
    BY <1>2 DEF Loads
  <2>2. MemoryOK(n, disk) /\ RoomsOK(rooms, n)
    BY SpareMemory
  <2>3. s \notin DOMAIN rooms
    BY <1>2 DEF RoomsOK
  <2> QED
    BY <1>2, <2>1, <2>2, <2>3, StoredFence DEF MemoryOK, RoomsOK, Put
<1>3. CASE s \notin DOMAIN memory /\ s \notin DOMAIN disk
  BY <1>3, SpareMemory DEF Loads
<1> QED
  BY <1>1, <1>2, <1>3

\* A fork is a fork: a head that is not in the history of c, at a sequence
\* number that is not larger, is not a descendant of c either.
LEMMA ForkIncomparable ==
    ASSUME NEW c \in Configs, NEW h \in Configs,
           h \notin Ancestors[c], Sequence(c) >= Sequence(h)
    PROVE  ~Comparable(c, h)
<1>1. SUFFICES ASSUME c \in Ancestors[h] PROVE FALSE
  BY DEF Comparable
<1>2. Ancestors[c] \in SUBSET Ancestors[h] /\ IsFiniteSet(Ancestors[h])
  BY <1>1, EngineAssumption
<1>3. /\ Cardinality(Ancestors[c]) =< Cardinality(Ancestors[h])
      /\ Cardinality(Ancestors[h]) = Cardinality(Ancestors[c]) => Ancestors[h] = Ancestors[c]
  BY <1>2, FS_Subset
<1>4. Cardinality(Ancestors[c]) \in Nat /\ Cardinality(Ancestors[h]) \in Nat
  BY EngineAssumption, FS_CardinalityType
<1>5. Ancestors[h] = Ancestors[c]
  BY <1>3, <1>4 DEF Sequence
<1> QED
  BY <1>5, EngineAssumption

LEMMA CachedFence ==
    ASSUME Rest, NEW j \in jobs, NEW m, NEW f \in Fence,
           MemoryOK(m, disk)
    PROVE  /\ Cached(j, m, f) \in Fence
           /\ Cached(j, m, f).cached
           /\ Cached(j, m, f).head = f.head
           /\ Cached(j, m, f).recovery = f.recovery
           /\ Cached(j, m, f).blocked = f.blocked
<1>1. Paid(j, m) \in BOOLEAN
  BY JobFacts DEF Paid, MemoryOK, Fence
<1> QED
  BY <1>1 DEF Cached, Fence, Rest

-----------------------------------------------------------------------------
(* Every step preserves the invariant.                                      *)

LEMMA RefusePreserves ==
    ASSUME EngineInv, NEW j \in jobs, Refuse(j)
    PROVE  EngineInv'
<1>1. Rest'
  BY DEF EngineInv, Rest, Refuse, Taken
<1>2. DiskOK(disk')
  BY DEF EngineInv, Refuse
<1>3. MemoryOK(memory', disk') /\ RoomsOK(rooms', memory')
  BY LoadedMemory, SpareMemory DEF EngineInv, Refuse
<1>4. LedgerOK'
  BY DEF EngineInv, LedgerOK, Refuse, Taken
<1> QED
  BY <1>1, <1>2, <1>3, <1>4 DEF EngineInv

\* The fence of a known head after its command.
LEMMA SameHeadStep ==
    ASSUME EngineInv, NEW j \in jobs, NEW s, NEW m \in Loads(s),
           s \in DOMAIN m
    PROVE  LET n == Put(m, s, Cached(j, m, m[s])) IN
           /\ MemoryOK(n, disk)
           /\ RoomsOK(rooms, n)
           /\ n[s].cached /\ n[s].head = m[s].head /\ n[s].blocked = m[s].blocked
           /\ DOMAIN n = DOMAIN m
<1>1. MemoryOK(m, disk) /\ RoomsOK(rooms, m) /\ Rest
  BY LoadedMemory DEF EngineInv
<1> DEFINE f == Cached(j, m, m[s])
           n == Put(m, s, f)
<1>2. m[s] \in Fence
  BY <1>1 DEF MemoryOK
<1>3. /\ f \in Fence /\ f.cached /\ f.head = m[s].head
      /\ f.recovery = m[s].recovery /\ f.blocked = m[s].blocked
  BY <1>1, <1>2, CachedFence
<1> HIDE DEF f
<1>4. DOMAIN n = DOMAIN m /\ n[s] = f /\ \A t \in DOMAIN m \ {s} : n[t] = m[t]
  BY DEF Put
<1> HIDE DEF n
<1>5. MemoryOK(n, disk)
  BY <1>1, <1>3, <1>4 DEF MemoryOK
<1>6. RoomsOK(rooms, n)
  BY <1>1, <1>3, <1>4 DEF RoomsOK
<1> QED
  BY <1>3, <1>4, <1>5, <1>6 DEF n, f

LEMMA RefreshPreserves ==
    ASSUME EngineInv, NEW j \in jobs, Refresh(j)
    PROVE  EngineInv'
<1>1. Rest'
  BY DEF EngineInv, Rest, Refresh, Taken
<1>2. DiskOK(disk')
  BY DEF EngineInv, Refresh
<1>3. MemoryOK(memory', disk') /\ RoomsOK(rooms', memory')
  BY SameHeadStep DEF Refresh
<1>4. LedgerOK'
  BY DEF EngineInv, LedgerOK, Refresh, Taken
<1> QED
  BY <1>1, <1>2, <1>3, <1>4 DEF EngineInv

LEMMA BlockPreserves ==
    ASSUME EngineInv, NEW j \in jobs, Block(j)
    PROVE  EngineInv'
<1> DEFINE s == ScopeOf(j)
           c == ConfigOf(j)
<1>1. PICK m \in Loads(s) : /\ s \in DOMAIN m
                            /\ ForkedHead(m[s], c)
                            /\ memory' = [m EXCEPT ![s].blocked = TRUE]
  BY DEF Block
<1>2. MemoryOK(m, disk) /\ RoomsOK(rooms, m) /\ DiskOK(disk) /\ Rest
  BY LoadedMemory DEF EngineInv
<1>3. /\ disk' = [disk EXCEPT ![s].blocked = TRUE]
      /\ rooms' = EndStale(rooms, s, c)
  BY DEF Block
<1>4. /\ s \in DOMAIN disk /\ m[s].head = disk[s].head
      /\ m[s] \in Fence /\ disk[s] \in DiskFence
  BY <1>1, <1>2 DEF MemoryOK, DiskOK
<1>5. Forked(s, disk[s].head)
  <2>1. ~Comparable(c, disk[s].head)
    BY <1>1, <1>2, <1>4, JobFacts, ForkIncomparable DEF ForkedHead, DiskFence
  <2> QED
    BY <2>1, <1>2, JobFacts DEF Forked, ScopeOf, ConfigOf
<1>6. DiskOK(disk')
  BY <1>2, <1>3, <1>4, <1>5 DEF DiskOK, DiskFence
<1>7. MemoryOK(memory', disk')
  <2>1. DOMAIN memory' = DOMAIN m /\ DOMAIN disk' = DOMAIN disk
    BY <1>1, <1>3
  <2>2. \A t \in DOMAIN m \ {s} : memory'[t] = m[t] /\ disk'[t] = disk[t]
    BY <1>1, <1>2, <1>3 DEF MemoryOK
  <2>3. memory'[s] = [m[s] EXCEPT !.blocked = TRUE] /\ disk'[s] = [disk[s] EXCEPT !.blocked = TRUE]
    BY <1>1, <1>3, <1>4
  <2>4. /\ memory'[s] \in Fence /\ memory'[s].head = disk'[s].head
        /\ memory'[s].recovery = disk'[s].recovery
        /\ memory'[s].blocked = disk'[s].blocked
    BY <1>1, <1>2, <1>4, <2>3 DEF MemoryOK, Fence, DiskFence
  <2> QED
    BY <1>2, <2>1, <2>2, <2>4 DEF MemoryOK
<1>8. RoomsOK(rooms', memory')
  <2>1. s \notin DOMAIN rooms'
    BY <1>1, <1>2, <1>3 DEF EndStale, Drop, RoomsOK, ForkedHead
  <2>2. \A t \in DOMAIN rooms' : t \in DOMAIN rooms /\ rooms'[t] = rooms[t]
    BY <1>3 DEF EndStale, Drop
  <2> QED
    BY <1>1, <1>2, <2>1, <2>2 DEF RoomsOK
<1>9. Rest' /\ LedgerOK'
  BY DEF EngineInv, Rest, LedgerOK, Block, Taken
<1> QED
  BY <1>6, <1>7, <1>8, <1>9 DEF EngineInv

\* The fence moves, and takes with it the call of the older configuration.
LEMMA AdvanceStep ==
    ASSUME EngineInv, NEW j \in jobs, NEW m \in Loads(ScopeOf(j)), Advances(j, m)
    PROVE  /\ DiskOK(disk')
           /\ MemoryOK(memory', disk')
           /\ RoomsOK(EndStale(rooms, ScopeOf(j), ConfigOf(j)), memory')
           /\ ScopeOf(j) \in DOMAIN memory'
           /\ memory'[ScopeOf(j)].cached
           /\ ~memory'[ScopeOf(j)].blocked
           /\ memory'[ScopeOf(j)].head = ConfigOf(j)
<1> DEFINE s == ScopeOf(j)
           c == ConfigOf(j)
           f == [head |-> c, recovery |-> Recovery[c], blocked |-> FALSE,
                 cached |-> TRUE, paid |-> TRUE, used |-> now]
<1>1. disk' = Put(disk, s, NewFence(c)) /\ memory' = Put(m, s, f)
  BY DEF Advances
<1>2. MemoryOK(m, disk) /\ RoomsOK(rooms, m) /\ DiskOK(disk) /\ Rest
  BY LoadedMemory DEF EngineInv
<1>3. s \in Scopes /\ c \in Configs
  BY <1>2, JobFacts
<1>4. Recovery[c] \in Certificates
  BY <1>3, EngineAssumption DEF Certificates
<1>5. NewFence(c) \in DiskFence /\ f \in Fence
  BY <1>2, <1>3, <1>4 DEF NewFence, DiskFence, Fence, Rest
<1>6. DiskOK(disk')
  BY <1>1, <1>2, <1>3, <1>5 DEF DiskOK, Put, NewFence
<1>7. MemoryOK(memory', disk')
  BY <1>1, <1>2, <1>5 DEF MemoryOK, Put, NewFence
<1>8. RoomsOK(EndStale(rooms, s, c), memory')
  BY <1>1, <1>2 DEF RoomsOK, EndStale, Drop, Put
<1>9. s \in DOMAIN memory' /\ memory'[s] = f
  BY <1>1 DEF Put
<1> QED
  BY <1>6, <1>7, <1>8, <1>9

LEMMA AdmitPreserves ==
    ASSUME EngineInv, NEW j \in jobs, Admit(j)
    PROVE  EngineInv'
<1>1. Rest' /\ LedgerOK'
  BY DEF EngineInv, Rest, LedgerOK, Admit, Taken
<1>2. PICK m \in Loads(ScopeOf(j)) : Advances(j, m)
  BY DEF Admit
<1>3. rooms' = EndStale(rooms, ScopeOf(j), ConfigOf(j))
  BY DEF Admit
<1> QED
  BY <1>1, <1>2, <1>3, AdvanceStep DEF EngineInv

LEMMA OutcomeRooms ==
    ASSUME NEW r, NEW n, NEW s, NEW c, NEW q \in Outcomes(r, s, c),
           RoomsOK(r, n), s \in DOMAIN n,
           n[s].cached, ~n[s].blocked, n[s].head = c
    PROVE  RoomsOK(q, n)
BY DEF Outcomes, RoomsOK, Drop, Put

LEMMA ApplyPreserves ==
    ASSUME EngineInv, NEW j \in jobs, Apply(j)
    PROVE  EngineInv'
<1> DEFINE s == ScopeOf(j)
           c == ConfigOf(j)
<1>1. Rest'
  BY DEF EngineInv, Rest, Apply, Taken
<1>2. rooms' \in Outcomes(EndStale(rooms, s, c), s, c)
  BY DEF Apply
<1>3. PICK m \in Loads(s) :
        \/ Advances(j, m)
        \/ /\ s \in DOMAIN m /\ SameHead(m[s], c)
           /\ memory' = Put(m, s, Cached(j, m, m[s]))
           /\ disk' = disk
  BY DEF Apply
<1>4. DiskOK(disk') /\ MemoryOK(memory', disk') /\ RoomsOK(rooms', memory')
  <2>1. CASE Advances(j, m)
    BY <1>2, <2>1, AdvanceStep, OutcomeRooms
  <2>2. CASE /\ s \in DOMAIN m /\ SameHead(m[s], c)
             /\ memory' = Put(m, s, Cached(j, m, m[s]))
             /\ disk' = disk
    <3>1. /\ MemoryOK(memory', disk) /\ RoomsOK(rooms, memory')
          /\ s \in DOMAIN memory' /\ memory'[s].cached
          /\ memory'[s].head = c /\ ~memory'[s].blocked
      BY <2>2, SameHeadStep DEF SameHead
    <3>2. EndStale(rooms, s, c) = rooms
      BY <3>1 DEF EndStale, RoomsOK
    <3> QED
      BY <1>2, <2>2, <3>1, <3>2, OutcomeRooms DEF EngineInv
  <2> QED
    BY <1>3, <2>1, <2>2
<1>5. LedgerOK'
  <2>1. j.command \in Commands /\ CommandBody[j.command].expires \in Nat /\ now \in Nat
    BY JobFacts, EngineAssumption DEF EngineInv, Rest
  <2>2. j.command \notin receipts /\ CommandBody[j.command].expires > now
    BY DEF Apply, Received, Live, KeyOf
  <2>3. applied[j.command] = 0
    BY <2>1, <2>2 DEF EngineInv, LedgerOK
  <2>4. /\ receipts' = Unexpired \cup {j.command}
        /\ applied' = [applied EXCEPT ![j.command] = 1]
        /\ now' = now
    BY <2>3 DEF Apply, Taken
  <2>5. /\ receipts' \subseteq Commands /\ applied' \in [Commands -> Nat]
    BY <2>1, <2>4 DEF EngineInv, LedgerOK, Unexpired
  <2>6. ASSUME NEW d \in Commands
        PROVE  /\ applied'[d] =< 1
               /\ applied'[d] # 0 => d \in receipts' \/ CommandBody[d].expires =< now'
    <3>1. CommandBody[d].expires \in Nat
      BY EngineAssumption
    <3> QED
      BY <2>1, <2>4, <3>1 DEF EngineInv, LedgerOK, Unexpired
  <2> QED
    BY <2>5, <2>6 DEF LedgerOK
<1> QED
  BY <1>1, <1>4, <1>5 DEF EngineInv

LEMMA TouchPreserves ==
    ASSUME EngineInv, NEW s \in Scopes, Touch(s)
    PROVE  EngineInv'
<1>1. Rest' /\ LedgerOK' /\ DiskOK(disk')
  BY DEF EngineInv, Rest, LedgerOK, Touch
<1>2. MemoryOK(memory', disk') /\ RoomsOK(rooms', memory')
  BY DEF EngineInv, Touch, MemoryOK, RoomsOK, Fence, Rest
<1> QED
  BY <1>1, <1>2 DEF EngineInv

LEMMA MaintainPreserves ==
    ASSUME EngineInv, Maintain
    PROVE  EngineInv'
<1>1. PICK kept \in SUBSET DOMAIN rooms :
        /\ receipts' = Unexpired
        /\ rooms' = [s \in kept |-> rooms[s]]
        /\ memory' = [s \in DOMAIN memory |->
                        IF now - memory[s].used >= IdleTime /\ s \notin kept
                        THEN [memory[s] EXCEPT !.cached = FALSE, !.paid = FALSE]
                        ELSE memory[s]]
  BY DEF Maintain
<1>2. UNCHANGED <<now, disk, jobs, restarts, applied>>
  BY DEF Maintain
<1>3. Rest' /\ DiskOK(disk')
  BY <1>2 DEF EngineInv, Rest
<1>4. MemoryOK(memory', disk') /\ RoomsOK(rooms', memory')
  <2>1. ASSUME NEW t \in DOMAIN memory
        PROVE  /\ memory'[t] \in Fence
               /\ memory'[t].head = memory[t].head
               /\ memory'[t].recovery = memory[t].recovery
               /\ memory'[t].blocked = memory[t].blocked
               /\ t \in kept => memory'[t] = memory[t]
    <3>1. memory[t] \in Fence
      BY DEF EngineInv, MemoryOK
    <3>2. \/ memory'[t] = memory[t]
          \/ /\ t \notin kept
             /\ memory'[t] = [memory[t] EXCEPT !.cached = FALSE, !.paid = FALSE]
      BY <1>1
    <3> QED
      BY <3>1, <3>2 DEF Fence
  <2>2. DOMAIN memory' = DOMAIN memory /\ DOMAIN rooms' = kept
    BY <1>1
  <2>3. MemoryOK(memory', disk')
    BY <1>2, <2>1, <2>2 DEF EngineInv, MemoryOK
  <2>4. RoomsOK(rooms', memory')
    BY <1>1, <2>1, <2>2 DEF EngineInv, RoomsOK
  <2> QED
    BY <2>3, <2>4
<1>5. LedgerOK'
  <2>1. receipts' \subseteq Commands /\ applied' \in [Commands -> Nat]
    BY <1>1, <1>2 DEF EngineInv, LedgerOK, Unexpired
  <2>2. ASSUME NEW c \in Commands, applied[c] # 0
        PROVE  c \in receipts' \/ CommandBody[c].expires =< now
    <3>1. CommandBody[c].expires \in Nat /\ now \in Nat
      BY EngineAssumption DEF EngineInv, Rest
    <3>2. c \in receipts \/ CommandBody[c].expires =< now
      BY <2>2 DEF EngineInv, LedgerOK
    <3>3. receipts' = {r \in receipts : CommandBody[r].expires > now}
      BY <1>1 DEF Unexpired
    <3>4. CommandBody[c].expires > now \/ CommandBody[c].expires =< now
      BY <3>1
    <3> QED
      BY <3>2, <3>3, <3>4
  <2> QED
    BY <1>2, <2>1, <2>2 DEF EngineInv, LedgerOK
<1> QED
  BY <1>3, <1>4, <1>5 DEF EngineInv

LEMMA OthersPreserve ==
    ASSUME EngineInv,
           \/ \E c \in Commands, proof \in BOOLEAN : Prepare(c, proof)
           \/ EndRooms \/ Restart \/ Clock \/ UNCHANGED vars
    PROVE  EngineInv'
<1>1. CASE \E c \in Commands, proof \in BOOLEAN : Prepare(c, proof)
  <2>1. Rest'
    BY <1>1 DEF EngineInv, Rest, Prepare
  <2> QED
    BY <1>1, <2>1 DEF EngineInv, LedgerOK, Prepare
<1>2. CASE EndRooms
  <2>1. RoomsOK(rooms', memory')
    BY <1>2 DEF EngineInv, EndRooms, RoomsOK
  <2> QED
    BY <1>2, <2>1 DEF EngineInv, Rest, LedgerOK, EndRooms
<1>3. CASE Restart
  <2>1. Rest' /\ DiskOK(disk') /\ LedgerOK'
    BY <1>3 DEF EngineInv, Rest, LedgerOK, Restart
  <2>2. MemoryOK(memory', disk') /\ RoomsOK(rooms', memory')
    BY <1>3 DEF Restart, MemoryOK, RoomsOK, Empty
  <2> QED
    BY <2>1, <2>2 DEF EngineInv
<1>4. CASE Clock
  <2>1. \A c \in Commands : CommandBody[c].expires \in Nat
    BY EngineAssumption
  <2>2. Rest' /\ LedgerOK'
    BY <1>4, <2>1 DEF EngineInv, Rest, LedgerOK, Clock
  <2> QED
    BY <1>4, <2>2 DEF EngineInv, Clock
<1>5. CASE UNCHANGED vars
  BY <1>5 DEF EngineInv, Rest, LedgerOK, vars
<1> QED
  BY <1>1, <1>2, <1>3, <1>4, <1>5

\* The fences on disk and in memory, the open calls and the receipts agree in
\* every state that `execute`, `maintain` and restarts can reach.
THEOREM EngineInvariant == Spec => []EngineInv
<1>1. Init => EngineInv
  BY DEF Init, EngineInv, Rest, DiskOK, MemoryOK, RoomsOK, LedgerOK, Empty
<1>2. EngineInv /\ [Next]_vars => EngineInv'
  BY RefusePreserves, RefreshPreserves, BlockPreserves, AdmitPreserves,
     ApplyPreserves, TouchPreserves, MaintainPreserves, OthersPreserve DEF Next
<1> QED
  BY <1>1, <1>2, PTL DEF Spec

-----------------------------------------------------------------------------
(* What it gives.                                                           *)

\* The state of the engine is always well typed.
THEOREM EngineTyped == Spec => []TypeOK
<1>1. EngineInv => TypeOK
  <2> SUFFICES ASSUME EngineInv PROVE TypeOK
    OBVIOUS
  <2>1. \A s \in DOMAIN rooms : s \in Scopes /\ rooms[s] \in Configs
    BY DEF EngineInv, RoomsOK, MemoryOK, DiskOK, Fence
  <2> QED
    BY <2>1 DEF EngineInv, Rest, DiskOK, MemoryOK, LedgerOK, TypeOK
<1> QED
  BY <1>1, EngineInvariant, PTL

\* The fence in memory is the fence on disk, through eviction and reload.
THEOREM FenceCoherence == Spec => []MemoryMatchesDisk
<1>1. EngineInv => MemoryMatchesDisk
  BY DEF EngineInv, MemoryOK, MemoryMatchesDisk
<1> QED
  BY <1>1, EngineInvariant, PTL

\* Every open call stands under an unblocked fence at its own configuration.
THEOREM CallsFenced == Spec => []RoomsFenced
<1>1. EngineInv => RoomsFenced
  BY DEF EngineInv, RoomsOK, RoomsFenced
<1> QED
  BY <1>1, EngineInvariant, PTL

\* Late and reordered commands never block a conversation.
THEOREM BlocksAreForks == Spec => []BlockedOnlyByForks
<1>1. EngineInv => BlockedOnlyByForks
  BY DEF EngineInv, DiskOK, Forked, BlockedOnlyByForks
<1> QED
  BY <1>1, EngineInvariant, PTL

\* No command takes effect twice.
THEOREM AtMostOnce == Spec => []AppliedOnce
<1>1. EngineInv => AppliedOnce
  BY DEF EngineInv, LedgerOK, AppliedOnce
<1> QED
  BY <1>1, EngineInvariant, PTL

\* The admitted configuration only gives way to its descendants, recoveries
\* are never undone and blocks never lifted.
THEOREM FencesOnlyAdvance == Spec => FencesAdvance
<1> DEFINE Step(s) == /\ s \in DOMAIN disk'
                      /\ disk[s].head \in Ancestors[disk'[s].head]
                      /\ disk'[s] # disk[s] =>
                           /\ disk[s].recovery \in Recoveries[disk'[s].head] \cup {None}
                           /\ ~disk[s].blocked
<1>1. ASSUME EngineInv, [Next]_vars
      PROVE  [\A s \in DOMAIN disk : Step(s)]_vars
  <2> SUFFICES ASSUME NEW s \in DOMAIN disk PROVE Step(s)
    OBVIOUS
  <2>1. /\ disk[s] \in DiskFence /\ disk[s].head \in Configs
        /\ disk[s].recovery = Recovery[disk[s].head]
        /\ DiskOK(disk) /\ MemoryOK(memory, disk) /\ RoomsOK(rooms, memory) /\ Rest
    BY <1>1 DEF EngineInv, DiskOK, DiskFence
  <2>2. disk[s].head \in Ancestors[disk[s].head]
    BY <2>1, EngineAssumption
  <2>3. CASE disk' = disk
    BY <2>2, <2>3
  <2>4. CASE \E j \in jobs : Block(j)
    <3>1. PICK j \in jobs : Block(j)
      BY <2>4
    <3>2. CASE s # ScopeOf(j)
      BY <2>2, <3>1, <3>2 DEF Block
    <3>3. CASE s = ScopeOf(j)
      <4>1. PICK m \in Loads(s) : s \in DOMAIN m /\ ForkedHead(m[s], ConfigOf(j))
        BY <3>1, <3>3 DEF Block
      <4>2. ~disk[s].blocked
        BY <2>1, <4>1, LoadedMemory DEF MemoryOK, ForkedHead
      <4>3. disk'[s].head = disk[s].head /\ s \in DOMAIN disk'
        BY <2>1, <3>1, <3>3 DEF Block, DiskFence
      <4>4. Recovery[disk[s].head] \in Recoveries[disk[s].head] \cup {None}
        BY <2>1, EngineAssumption
      <4> QED
        BY <2>1, <2>2, <4>2, <4>3, <4>4
    <3> QED
      BY <3>2, <3>3
  <2>5. CASE \E j \in jobs : \E m \in Loads(ScopeOf(j)) : Advances(j, m)
    <3>1. PICK j \in jobs : \E m \in Loads(ScopeOf(j)) : Advances(j, m)
      BY <2>5
    <3>2. PICK m \in Loads(ScopeOf(j)) : Advances(j, m)
      BY <3>1
    <3>3. disk' = Put(disk, ScopeOf(j), NewFence(ConfigOf(j)))
      BY <3>2 DEF Advances
    <3>4. CASE s # ScopeOf(j)
      BY <2>2, <3>3, <3>4 DEF Put
    <3>5. CASE s = ScopeOf(j)
      <4>1. s \in DOMAIN m /\ MemoryOK(m, disk)
        BY <2>1, <3>2, <3>5, LoadedMemory
      <4>2. NewerHead(m[s], ConfigOf(j))
        BY <3>2, <3>5, <4>1 DEF Advances
      <4>3. s \in DOMAIN disk' /\ disk'[s].head = ConfigOf(j)
        BY <3>3, <3>5 DEF Put, NewFence
      <4> QED
        BY <4>1, <4>2, <4>3 DEF MemoryOK, NewerHead, ProvesRecovery
    <3> QED
      BY <3>4, <3>5
  <2> QED
    BY <1>1, <2>3, <2>4, <2>5 DEF Next, vars, Prepare, Refuse, Refresh, Admit,
       Apply, Touch, Maintain, EndRooms, Restart, Clock
<1> QED
  BY <1>1, EngineInvariant, PTL DEF Spec, FencesAdvance

\* The fences in memory are those on disk, and only a fork blocks one.
THEOREM FencesCoherent == Spec => []FencesSound
BY EngineTyped, FenceCoherence, BlocksAreForks, PTL DEF FencesSound
=============================================================================
