------------------------- MODULE StorageBrokerProofs -------------------------
(***************************************************************************)
(* Theorems about StorageBroker, for any Spaces, objects, requests,        *)
(* workers, roles and limits.                                              *)
(*                                                                         *)
(* The invariant has layers, each proved with the ones before it: types;   *)
(* what a command or a token may do once; what settings, generations and   *)
(* rows owe each other; what a lease knows; and, for a provider whose      *)
(* requests end with the upload that makes them, who may still write to    *)
(* or erase an object.                                                     *)
(***************************************************************************)
EXTENDS StorageBroker, TLAPS

-----------------------------------------------------------------------------
(* Types.                                                                   *)

RowsTyped(f) == DOMAIN f \subseteq Objects /\ \A o \in DOMAIN f : f[o] \in ObjectRow

TokensTyped(f) == DOMAIN f \subseteq Requests /\ \A r \in DOMAIN f : f[r] \in TokenRow

SettingsRow == [revision : Nat, enabled : BOOLEAN, provider : Nat, hours : Nat]

\* A command is one of the eight.
LEMMA Operated ==
    ASSUME NEW r \in Requests, Operate(r)
    PROVE  \/ Body[r].op = "status" /\ Status(r)
           \/ Body[r].op = "configure" /\ Configure(r)
           \/ Body[r].op = "policy" /\ Policy(r)
           \/ Body[r].op = "disable" /\ Disable(r)
           \/ Body[r].op = "reserve" /\ Reserve(r)
           \/ Body[r].op = "complete" /\ Complete(r)
           \/ Body[r].op = "download" /\ Download(r)
           \/ Body[r].op = "cancel" /\ Cancel(r)
<1>1. Body[r].op \in Operations
  BY BrokerAssumption DEF Bodies
<1> QED
  BY <1>1 DEF Operations, Operate

LEMMA BodyFacts ==
    ASSUME NEW r \in Requests
    PROVE  /\ Body[r].space \in Spaces /\ Body[r].object \in Objects
           /\ Body[r].device \in Devices /\ Body[r].head \in Heads
           /\ Body[r].expires \in Nat /\ Body[r].expected \in Nat /\ Body[r].nonce \in Nat
           /\ Body[r].hours \in Nat \ {0}
           /\ Body[r].space = SpaceOf[Body[r].object]
BY BrokerAssumption DEF Bodies

LEMMA JobFacts ==
    ASSUME TypeOK, NEW w \in Workers
    PROVE  /\ jobs[w].kind # "idle" /\ jobs[w].phase \in {"asked", "leased"} =>
                /\ jobs[w].kind \in Actions \cup {"command"}
                /\ jobs[w].req \in Requests /\ jobs[w].space \in Spaces
                /\ jobs[w].head \in Heads
                /\ jobs[w].lease \in Lease
           /\ jobs[w].kind = "put" => /\ jobs[w].object \in Objects /\ jobs[w].at \in Nat
                                      /\ jobs[w].phase \in {"opening", "putting"}
           /\ jobs[w].kind # "idle" /\ jobs[w].phase \in {"opening", "putting"} =>
                jobs[w].kind = "put"
<1>1. jobs[w] \in JobType
  BY DEF TypeOK
<1> QED
  BY <1>1 DEF JobType, Idle, Actions

LEMMA EnterTyped ==
    ASSUME TypeOK, NEW kind \in Actions \cup {"command"}, NEW r \in Requests,
           NEW space \in Spaces, NEW head \in Heads
    PROVE  Enter(kind, r, space, head) \in JobType
<1>1. Freshness(space) \in Lease
  BY DEF TypeOK, Freshness, Lease
<1>2. Cached(space, head) => cache[space] \in Lease
  BY DEF TypeOK, Cached
<1> QED
  BY <1>1, <1>2 DEF Enter, JobType

LEMMA GotoTyped ==
    ASSUME TypeOK, NEW w \in Workers
    PROVE  /\ At(w, "asked") => Goto(w, "leased") \in [Workers -> JobType]
           /\ At(w, "opening") => Goto(w, "putting") \in [Workers -> JobType]
<1>1. jobs[w] \in JobType /\ jobs \in [Workers -> JobType]
  BY DEF TypeOK
<1>2. At(w, "asked") => [jobs[w] EXCEPT !.phase = "leased"] \in JobType
  BY <1>1 DEF At, JobType, Idle, Actions
<1>3. At(w, "opening") => [jobs[w] EXCEPT !.phase = "putting"] \in JobType
  BY <1>1 DEF At, JobType, Idle, Actions
<1> QED
  BY <1>1, <1>2, <1>3 DEF Goto

LEMMA IdleTyped ==
    ASSUME TypeOK, NEW w
    PROVE  [jobs EXCEPT ![w] = Idle] \in [Workers -> JobType]
BY DEF TypeOK, JobType

\* A row that is changed is still a row.
LEMMA RowChanged ==
    ASSUME NEW f, RowsTyped(f), NEW o, NEW state \in States, NEW busy \in Nat
    PROVE  /\ RowsTyped([f EXCEPT ![o].state = state])
           /\ RowsTyped([f EXCEPT ![o].state = state, ![o].busy = busy])
BY DEF RowsTyped, ObjectRow

LEMMA TokenTyped ==
    ASSUME TypeOK, NEW r \in Requests, NEW action \in Actions, NEW expires \in Nat
    PROVE  TokensTyped(Put(tokens, r, Token(Body[r], action, expires)))
<1>1. now + TransferLife \in Nat
  BY BrokerAssumption DEF TypeOK
<1>2. Token(Body[r], action, expires) \in TokenRow
  BY <1>1, BodyFacts DEF Token, Least, TokenRow
<1>3. TokensTyped(tokens)
  BY DEF TypeOK, TokensTyped
<1> QED
  BY <1>2, <1>3 DEF TokensTyped, Put

LEMMA WithoutTyped ==
    ASSUME TypeOK, NEW S
    PROVE  TokensTyped(Without(tokens, S)) /\ RowsTyped(Without(objects, S))
BY DEF TypeOK, TokensTyped, RowsTyped, Without

LEMMA TypeRows ==
    ASSUME TypeOK
    PROVE  /\ RowsTyped(objects) /\ TokensTyped(tokens)
           /\ settings \in [Spaces -> SettingsRow] /\ now \in Nat
BY DEF TypeOK, RowsTyped, TokensTyped, SettingsRow

LEMMA OperateTyped ==
    ASSUME TypeOK, NEW r \in Requests, Operate(r)
    PROVE  /\ settings' \in [Spaces -> SettingsRow]
           /\ providers' \in [Spaces -> SUBSET Nat]
           /\ RowsTyped(objects') /\ TokensTyped(tokens')
<1> DEFINE c == Body[r]
<1>1. RowsTyped(objects) /\ TokensTyped(tokens) /\ settings \in [Spaces -> SettingsRow]
      /\ now \in Nat
  BY TypeRows
<1>2. providers \in [Spaces -> SUBSET Nat]
  BY DEF TypeOK
<1>3. /\ c.space \in Spaces /\ c.object \in Objects /\ c.device \in Devices
      /\ c.expected \in Nat /\ c.hours \in Nat
  BY BodyFacts
<1>4. CASE Status(r)
  BY <1>1, <1>2, <1>4 DEF Status
<1>5. CASE Configure(r)
  BY <1>1, <1>2, <1>3, <1>5 DEF Configure, SettingsRow
<1>6. CASE Policy(r)
  BY <1>1, <1>2, <1>3, <1>6 DEF Policy, SettingsRow
<1>7. CASE Disable(r)
  <2>1. settings' \in [Spaces -> SettingsRow]
    BY <1>1, <1>3, <1>7 DEF Disable, SettingsRow
  <2> QED
    BY <1>1, <1>2, <1>7, <2>1, WithoutTyped DEF Disable
<1>8. CASE Reserve(r)
  <2> DEFINE row == [revision |-> settings[c.space].provider, creator |-> c.device,
                     expires |-> now + settings[c.space].hours, state |-> "pending",
                     busy |-> 0]
  <2>1. now + settings[c.space].hours \in Nat /\ settings[c.space].provider \in Nat
    BY <1>1, <1>3 DEF SettingsRow
  <2>2. row \in ObjectRow
    BY <1>3, <2>1 DEF ObjectRow, States
  <2>3. objects' = Put(objects, c.object, row)
        /\ tokens' = Put(tokens, r, Token(c, "upload", now + settings[c.space].hours))
        /\ UNCHANGED <<settings, providers>>
    BY <1>8 DEF Reserve
  <2>4. RowsTyped(objects')
    <3> HIDE DEF row
    <3> QED
      BY <1>1, <1>3, <2>2, <2>3 DEF RowsTyped, Put
  <2>5. TokensTyped(tokens')
    BY <2>1, <2>3, TokenTyped DEF Actions
  <2> QED
    BY <1>1, <1>2, <2>3, <2>4, <2>5
<1>9. CASE Complete(r)
  <2>1. RowsTyped(objects')
    BY <1>1, <1>9, RowChanged DEF Complete, States
  <2> QED
    BY <1>1, <1>2, <1>9, <2>1 DEF Complete
<1>10. CASE Download(r)
  <2>1. objects[c.object].expires \in Nat
    BY <1>1, <1>10 DEF Download, HasRow, RowsTyped, ObjectRow
  <2>2. tokens' = Put(tokens, r, Token(c, "download", objects[c.object].expires))
    BY <1>10 DEF Download, Row
  <2>3. TokensTyped(tokens')
    BY <2>1, <2>2, TokenTyped DEF Actions
  <2> QED
    BY <1>1, <1>2, <1>10, <2>3 DEF Download
<1>11. CASE Cancel(r)
  <2>1. RowsTyped(objects')
    BY <1>1, <1>11, RowChanged DEF Cancel, States
  <2> QED
    BY <1>1, <1>2, <1>11, <2>1, WithoutTyped DEF Cancel
<1> QED
  BY <1>4, <1>5, <1>6, <1>7, <1>8, <1>9, <1>10, <1>11, Operated

LEMMA UploadedTyped ==
    ASSUME TypeOK, NEW o, NEW success \in BOOLEAN
    PROVE  RowsTyped(Uploaded(o, success))
<1>1. RowsTyped(objects)
  BY TypeRows
<1>2. CASE o \in DOMAIN objects /\ objects[o].state = "uploading"
  <2> DEFINE state == IF success THEN "uploaded" ELSE "deleting"
             busy  == IF success THEN 0 ELSE objects[o].busy
  <2>1. state \in States /\ busy \in Nat
    BY <1>1, <1>2 DEF States, RowsTyped, ObjectRow
  <2>2. Uploaded(o, success) = [objects EXCEPT ![o].state = state, ![o].busy = busy]
    BY <1>1, <1>2 DEF Uploaded, RowsTyped, ObjectRow
  <2> HIDE DEF state, busy
  <2> QED
    BY <1>1, <2>1, <2>2 DEF RowsTyped, ObjectRow
<1>3. CASE ~(o \in DOMAIN objects /\ objects[o].state = "uploading")
  BY <1>1, <1>3 DEF Uploaded
<1> QED
  BY <1>2, <1>3

\* What a step may do to the process: jobs, leases, the sweep.
LEMMA ProcessTyped ==
    ASSUME TypeOK, Next
    PROVE  /\ jobs' \in [Workers -> JobType]
           /\ cache' \in [Spaces -> Lease \cup {None}]
           /\ floor' \in Nat /\ restarts' \in Nat /\ now' \in Nat
           /\ sweep' \in [active : BOOLEAN, listed : SUBSET Objects, erased : SUBSET Objects]
           /\ puts' \in [Objects -> Nat]
           /\ blobs' \in [Objects -> {"none", "right", "wrong"}]
<1> DEFINE P == /\ jobs' \in [Workers -> JobType]
                /\ cache' \in [Spaces -> Lease \cup {None}]
                /\ floor' \in Nat /\ restarts' \in Nat /\ now' \in Nat
                /\ sweep' \in [active : BOOLEAN, listed : SUBSET Objects,
                               erased : SUBSET Objects]
                /\ puts' \in [Objects -> Nat]
                /\ blobs' \in [Objects -> {"none", "right", "wrong"}]
<1> USE DEF TypeOK
<1>1. ASSUME NEW w \in Workers, Job(w)
      PROVE  P
  <2>1. ASSUME NEW r \in Requests, Receive(w, r)
        PROVE  P
    <3>1. Enter("command", r, Body[r].space, Body[r].head) \in JobType
      BY BodyFacts, EnterTyped
    <3> QED
      BY <2>1, <3>1 DEF Receive
  <2>2. ASSUME NEW r \in Requests, NEW action \in Actions, Present(w, r, action)
        PROVE  P
    <3>1. tokens[r].object \in Objects /\ tokens[r].head \in Heads
      BY <2>2 DEF Present, TokenTarget, TokenRow
    <3>2. SpaceOf[tokens[r].object] \in Spaces
      BY <3>1, BrokerAssumption
    <3>3. Enter(action, r, SpaceOf[tokens[r].object], tokens[r].head) \in JobType
      BY <3>1, <3>2, EnterTyped
    <3> QED
      BY <2>2, <3>3 DEF Present
  <2>3. CASE GateObserve(w)
    <3>1. jobs[w].lease \in Lease
      BY <2>3, JobFacts DEF GateObserve, At
    <3>2. jobs' \in [Workers -> JobType]
      BY <2>3, GotoTyped, IdleTyped DEF GateObserve
    <3>3. cache' \in [Spaces -> Lease \cup {None}]
      BY <2>3, <3>1 DEF GateObserve
    <3>4. floor' \in Nat
      BY <2>3, <3>1 DEF GateObserve, Lease
    <3> QED
      BY <2>3, <3>2, <3>3, <3>4 DEF GateObserve
  <2>4. CASE Abandon(w)
    BY <2>4, IdleTyped DEF Abandon
  <2>5. CASE Apply(w)
    BY <2>5, IdleTyped DEF Apply
  <2>6. CASE ClaimUpload(w)
    <3> DEFINE o == tokens[jobs[w].req].object
               j == [kind |-> "put", object |-> o, phase |-> "opening", at |-> now]
    <3>1. o \in Objects
      BY <2>6 DEF ClaimUpload, TokenTarget, TokenRow
    <3>2. j \in JobType
      BY <3>1 DEF JobType
    <3> QED
      BY <2>6, <3>2 DEF ClaimUpload
  <2>7. CASE ClaimDownload(w)
    BY <2>7, IdleTyped DEF ClaimDownload
  <2>8. ASSUME NEW o \in Objects, StartPut(w, o)
        PROVE  P
    <3>1. jobs[w].at \in Nat
      BY <2>8, JobFacts DEF StartPut, At
    <3>2. PutDeadline(jobs[w].at) \in Nat
      BY <3>1, BrokerAssumption DEF PutDeadline
    <3>3. jobs' \in [Workers -> JobType]
      BY <2>8, GotoTyped DEF StartPut
    <3> QED
      BY <2>8, <3>2, <3>3 DEF StartPut
  <2>9. ASSUME NEW o \in Objects, UploadDone(w, o) \/ UploadFailed(w, o)
        PROVE  P
    <3>1. /\ jobs' = [jobs EXCEPT ![w] = Idle]
          /\ UNCHANGED <<now, floor, cache, sweep, puts, blobs, restarts>>
      BY <2>9 DEF UploadDone, UploadFailed
    <3> QED
      BY <3>1, IdleTyped
  <2> QED
    BY <1>1, <2>1, <2>2, <2>3, <2>4, <2>5, <2>6, <2>7, <2>8, <2>9 DEF Job
<1>2. ASSUME NEW o \in Objects, NEW content \in {"right", "wrong"}, PutLands(o, content)
      PROVE  P
  BY <1>2 DEF PutLands
<1>3. CASE Sweep
  <2>1. CASE SweepBegin
    BY <2>1 DEF SweepBegin, Garbage
  <2>2. ASSUME NEW o \in Objects, SweepErase(o)
        PROVE  P
    BY <2>2 DEF SweepErase
  <2>3. ASSUME NEW o \in Objects, SweepSkip(o)
        PROVE  P
    BY <2>3 DEF SweepSkip
  <2>4. ASSUME NEW o \in Objects, SweepForget(o)
        PROVE  P
    BY <2>4 DEF SweepForget
  <2>5. CASE SweepEnd
    BY <2>5 DEF SweepEnd, Resting
  <2> QED
    BY <1>3, <2>1, <2>2, <2>3, <2>4, <2>5 DEF Sweep
<1>4. CASE Restart
  BY <1>4 DEF Restart, Resting, JobType
<1>5. ASSUME NEW s \in Spaces, WitnessUpdate(s)
      PROVE  P
  BY <1>5 DEF WitnessUpdate
<1>6. CASE WitnessOther
  BY <1>6 DEF WitnessOther
<1>7. CASE Tick
  BY <1>7 DEF Tick
<1> QED
  BY <1>1, <1>2, <1>3, <1>4, <1>5, <1>6, <1>7 DEF Next

\* What a step may do to the tables, the witness and the history.
LEMMA TablesTyped ==
    ASSUME TypeOK, Next
    PROVE  /\ journal' \in [position : Nat, head : [Spaces -> Heads]]
           /\ retired' \in [Spaces -> [Heads -> Nat]]
           /\ heads' \in [Spaces -> Heads \cup {0}]
           /\ settings' \in [Spaces -> SettingsRow]
           /\ providers' \in [Spaces -> SUBSET Nat]
           /\ RowsTyped(objects') /\ TokensTyped(tokens')
           /\ receipts' \subseteq Requests
           /\ applied' \in [Requests -> Nat] /\ uses' \in [Requests -> Nat]
<1> DEFINE P == /\ journal' \in [position : Nat, head : [Spaces -> Heads]]
                /\ retired' \in [Spaces -> [Heads -> Nat]]
                /\ heads' \in [Spaces -> Heads \cup {0}]
                /\ settings' \in [Spaces -> SettingsRow]
                /\ providers' \in [Spaces -> SUBSET Nat]
                /\ RowsTyped(objects') /\ TokensTyped(tokens')
                /\ receipts' \subseteq Requests
                /\ applied' \in [Requests -> Nat] /\ uses' \in [Requests -> Nat]
<1>1. /\ RowsTyped(objects) /\ TokensTyped(tokens)
      /\ settings \in [Spaces -> SettingsRow] /\ now \in Nat
  BY TypeRows
<1>2. /\ journal \in [position : Nat, head : [Spaces -> Heads]]
      /\ retired \in [Spaces -> [Heads -> Nat]]
      /\ heads \in [Spaces -> Heads \cup {0}]
      /\ providers \in [Spaces -> SUBSET Nat]
      /\ receipts \subseteq Requests
      /\ applied \in [Requests -> Nat] /\ uses \in [Requests -> Nat]
  BY DEF TypeOK
<1>3. ASSUME UNCHANGED <<journal, rows, history>>
      PROVE  P
  BY <1>1, <1>2, <1>3 DEF rows, history
<1>4. ASSUME NEW w \in Workers, Job(w)
      PROVE  P
  <2>1. ASSUME NEW r \in Requests, Receive(w, r)
        PROVE  P
    BY <1>3, <2>1 DEF Receive
  <2>2. ASSUME NEW r \in Requests, NEW action \in Actions, Present(w, r, action)
        PROVE  P
    BY <1>3, <2>2 DEF Present
  <2>3. CASE GateObserve(w) \/ Abandon(w)
    BY <1>3, <2>3 DEF GateObserve, Abandon
  <2>4. CASE Apply(w)
    <3> DEFINE r == jobs[w].req
    <3>1. r \in Requests
      BY <2>4, JobFacts DEF Apply, At
    <3>2. Operate(r)
      BY <2>4 DEF Apply
    <3>3. /\ settings' \in [Spaces -> SettingsRow] /\ providers' \in [Spaces -> SUBSET Nat]
          /\ RowsTyped(objects') /\ TokensTyped(tokens')
      <4> HIDE DEF r
      <4> QED
        BY <3>1, <3>2, OperateTyped
    <3>4. heads' \in [Spaces -> Heads \cup {0}]
      BY <1>2, <2>4, <3>1, BodyFacts DEF Apply
    <3>5. receipts' \subseteq Requests /\ applied' \in [Requests -> Nat]
      BY <1>2, <2>4, <3>1 DEF Apply
    <3> QED
      BY <1>2, <2>4, <3>3, <3>4, <3>5 DEF Apply
  <2>5. CASE ClaimUpload(w)
    <3> DEFINE o == tokens[jobs[w].req].object
    <3>1. /\ objects' = [objects EXCEPT ![o].state = "uploading", ![o].busy = now + BusyLife]
          /\ tokens' = Without(tokens, {jobs[w].req})
          /\ uses' = [uses EXCEPT ![jobs[w].req] = @ + 1]
          /\ UNCHANGED <<journal, heads, settings, providers, receipts, retired, applied>>
      BY <2>5 DEF ClaimUpload, Consumed
    <3>2. now + BusyLife \in Nat
      BY <1>1, BrokerAssumption
    <3>3. RowsTyped(objects')
      BY <1>1, <3>1, <3>2, RowChanged DEF States
    <3>4. TokensTyped(tokens')
      BY <3>1, WithoutTyped
    <3>5. uses' \in [Requests -> Nat]
      <4>1. jobs[w].req \in Requests
        BY <2>5, JobFacts DEF ClaimUpload, At
      <4> QED
        BY <1>2, <3>1, <4>1
    <3> QED
      BY <1>1, <1>2, <3>1, <3>3, <3>4, <3>5
  <2>6. CASE ClaimDownload(w)
    <3>1. TokensTyped(tokens')
      BY <2>6, WithoutTyped DEF ClaimDownload, Consumed
    <3>2. uses' \in [Requests -> Nat]
      <4>1. jobs[w].req \in Requests
        BY <2>6, JobFacts DEF ClaimDownload, At
      <4> QED
        BY <1>2, <2>6, <4>1 DEF ClaimDownload
    <3> QED
      BY <1>1, <1>2, <2>6, <3>1, <3>2 DEF ClaimDownload
  <2>7. ASSUME NEW o \in Objects, StartPut(w, o)
        PROVE  P
    BY <1>3, <2>7 DEF StartPut
  <2>8. ASSUME NEW o \in Objects, UploadDone(w, o) \/ UploadFailed(w, o)
        PROVE  P
    <3>1. RowsTyped(objects')
      BY <2>8, UploadedTyped DEF UploadDone, UploadFailed
    <3> QED
      <4>1. UNCHANGED <<journal, heads, settings, providers, tokens, receipts, history>>
        BY <2>8 DEF UploadDone, UploadFailed
      <4> QED
        BY <1>1, <1>2, <3>1, <4>1 DEF history
  <2> QED
    BY <1>4, <2>1, <2>2, <2>3, <2>4, <2>5, <2>6, <2>7, <2>8 DEF Job
<1>5. ASSUME NEW o \in Objects, NEW content \in {"right", "wrong"}, PutLands(o, content)
      PROVE  P
  BY <1>3, <1>5 DEF PutLands
<1>6. CASE Sweep
  <2>1. CASE SweepBegin
    BY <1>3, <2>1 DEF SweepBegin
  <2>2. ASSUME NEW o \in Objects, SweepErase(o) \/ SweepSkip(o)
        PROVE  P
    <3>1. UNCHANGED <<journal, rows, history>>
      BY <2>2 DEF SweepErase, SweepSkip
    <3> QED
      BY <1>3, <3>1
  <2>3. ASSUME NEW o \in Objects, SweepForget(o)
        PROVE  P
    <3>1. RowsTyped(objects') /\ TokensTyped(tokens')
      BY <2>3, WithoutTyped DEF SweepForget
    <3> QED
      BY <1>1, <1>2, <2>3, <3>1 DEF SweepForget, history
  <2>4. CASE SweepEnd
    <3>1. TokensTyped(tokens')
      BY <2>4, WithoutTyped DEF SweepEnd
    <3>2. providers' \in [Spaces -> SUBSET Nat]
      BY <1>2, <2>4 DEF SweepEnd, Kept
    <3>3. receipts' \subseteq Requests
      BY <1>2, <2>4 DEF SweepEnd, Pruned
    <3> QED
      BY <1>1, <1>2, <2>4, <3>1, <3>2, <3>3 DEF SweepEnd, history
  <2> QED
    BY <1>6, <2>1, <2>2, <2>3, <2>4 DEF Sweep
<1>7. CASE Restart
  <2>1. RowsTyped(objects')
    BY <1>1, <1>7 DEF Restart, RowsTyped, ObjectRow, States
  <2> QED
    BY <1>1, <1>2, <1>7, <2>1 DEF Restart, history
<1>8. ASSUME NEW s \in Spaces, WitnessUpdate(s)
      PROVE  P
  <2>1. /\ journal' \in [position : Nat, head : [Spaces -> Heads]]
        /\ retired' \in [Spaces -> [Heads -> Nat]]
    BY <1>1, <1>2, <1>8 DEF WitnessUpdate
  <2> QED
    BY <1>1, <1>2, <1>8, <2>1 DEF WitnessUpdate, rows
<1>9. CASE WitnessOther
  BY <1>1, <1>2, <1>9 DEF WitnessOther, rows, history
<1>10. CASE Tick
  BY <1>3, <1>10 DEF Tick
<1> QED
  BY <1>4, <1>5, <1>6, <1>7, <1>8, <1>9, <1>10 DEF Next

LEMMA TypeStep ==
    ASSUME TypeOK, [Next]_vars
    PROVE  TypeOK'
<1>1. CASE Next
  <2>1. {now, floor, restarts}' \subseteq Nat
    BY <1>1, ProcessTyped
  <2>2. /\ jobs' \in [Workers -> JobType]
        /\ cache' \in [Spaces -> Lease \cup {None}]
        /\ sweep' \in [active : BOOLEAN, listed : SUBSET Objects, erased : SUBSET Objects]
        /\ puts' \in [Objects -> Nat]
        /\ blobs' \in [Objects -> {"none", "right", "wrong"}]
    BY <1>1, ProcessTyped
  <2> QED
    BY <1>1, <2>1, <2>2, TablesTyped DEF TypeOK, RowsTyped, TokensTyped, SettingsRow
<1>2. CASE UNCHANGED vars
  BY <1>2 DEF TypeOK, vars, rows, history
<1> QED
  BY <1>1, <1>2

LEMMA TypeInit ==
    ASSUME Init
    PROVE  TypeOK
BY BrokerAssumption DEF Init, TypeOK, Never, Empty, Resting, JobType

\* The tables of engine.rs, the process and the provider keep their types.
THEOREM StorageTypes == Spec => []TypeOK
BY TypeInit, TypeStep, PTL DEF Spec

-----------------------------------------------------------------------------
(* Commands and tokens count once; rows, settings and generations agree.    *)

\* A command that was applied has its receipt or is out of date, and its token, if it
\* made one, is there until it is used.
OnceInv ==
    \A r \in Requests :
      /\ applied[r] =< 1 /\ uses[r] =< 1
      /\ applied[r] # 0 => r \in receipts \/ Body[r].expires =< now
      /\ applied[r] = 0 => r \notin DOMAIN tokens /\ uses[r] = 0
      /\ r \in DOMAIN tokens => uses[r] = 0

\* A token says what its command said, and an upload token stands for enabled storage.
TokensInv ==
    \A r \in DOMAIN tokens :
      /\ tokens[r].head = Body[r].head /\ tokens[r].object = Body[r].object
      /\ tokens[r].action = "upload" => settings[Body[r].space].enabled

\* Enabled storage has the credentials of its generation, and so has every row.
SettingsInv ==
    /\ \A s \in Spaces :
         settings[s].enabled => settings[s].provider \in providers[s] /\ settings[s].hours # 0
    /\ CredentialsKept

TablesInv == OnceInv /\ TokensInv /\ SettingsInv

LEMMA OnceKept ==
    ASSUME TypeOK, TypeOK', OnceInv, now =< now', applied' = applied, uses' = uses,
           DOMAIN tokens' \subseteq DOMAIN tokens,
           \A r \in receipts \ receipts' : Body[r].expires =< now'
    PROVE  OnceInv'
<1> SUFFICES ASSUME NEW r \in Requests
             PROVE  /\ applied[r] =< 1 /\ uses[r] =< 1
                    /\ applied[r] # 0 => r \in receipts' \/ Body[r].expires =< now'
                    /\ applied[r] = 0 => r \notin DOMAIN tokens' /\ uses[r] = 0
                    /\ r \in DOMAIN tokens' => uses[r] = 0
  BY DEF OnceInv
<1>1. now \in Nat /\ now' \in Nat /\ Body[r].expires \in Nat
  BY BodyFacts DEF TypeOK
<1> QED
  BY <1>1 DEF OnceInv

LEMMA TokensKept ==
    ASSUME TokensInv, DOMAIN tokens' \subseteq DOMAIN tokens,
           \A r \in DOMAIN tokens' : tokens'[r] = tokens[r],
           settings' = settings
    PROVE  TokensInv'
BY DEF TokensInv

LEMMA SettingsKept ==
    ASSUME SettingsInv, settings' = settings, providers' = providers,
           DOMAIN objects' \subseteq DOMAIN objects,
           \A o \in DOMAIN objects' : objects'[o].revision = objects[o].revision
    PROVE  SettingsInv'
BY DEF SettingsInv, CredentialsKept

LEMMA ApplyFacts ==
    ASSUME TypeOK, OnceInv, NEW w \in Workers, Apply(w)
    PROVE  LET r == jobs[w].req
           IN /\ r \in Requests /\ Operate(r) /\ r \notin receipts
              /\ applied[r] = 0 /\ uses[r] = 0 /\ r \notin DOMAIN tokens
              /\ receipts' = receipts \cup {r} /\ applied' = [applied EXCEPT ![r] = 1]
              /\ now' = now /\ uses' = uses
              /\ jobs' = [jobs EXCEPT ![w] = Idle]
              /\ UNCHANGED <<journal, floor, cache, sweep, puts, blobs, restarts, retired>>
<1> DEFINE r == jobs[w].req
<1>1. r \in Requests
  BY JobFacts DEF Apply, At
<1>2. r \notin receipts /\ Body[r].expires > now
  BY DEF Apply, Preflight, Receipt, Authorize
<1>3. now \in Nat /\ Body[r].expires \in Nat /\ applied[r] \in Nat
  BY <1>1, BodyFacts DEF TypeOK
<1>4. applied[r] = 0
  BY <1>1, <1>2, <1>3 DEF OnceInv
<1>5. uses[r] = 0 /\ r \notin DOMAIN tokens
  BY <1>1, <1>4 DEF OnceInv
<1>6. applied' = [applied EXCEPT ![r] = 1]
  BY <1>1, <1>4 DEF Apply, TypeOK
<1> QED
  BY <1>1, <1>2, <1>4, <1>5, <1>6 DEF Apply

\* What a command does to tokens, settings, generations and rows.
LEMMA OperateTables ==
    ASSUME TypeOK, TokensInv, SettingsInv, NEW r \in Requests, Operate(r),
           r \notin DOMAIN tokens
    PROVE  /\ DOMAIN tokens' \subseteq DOMAIN tokens \cup {r}
           /\ TokensInv' /\ SettingsInv'
<1> DEFINE c == Body[r]
           s == c.space
<1>1. /\ s \in Spaces /\ c.object \in Objects /\ c.expected \in Nat
      /\ c.hours \in Nat \ {0} /\ s = SpaceOf[c.object]
      /\ \A t \in Requests : Body[t].space = SpaceOf[Body[t].object]
  BY BodyFacts
<1>2. /\ settings \in [Spaces -> SettingsRow] /\ providers \in [Spaces -> SUBSET Nat]
      /\ DOMAIN tokens \subseteq Requests /\ DOMAIN objects \subseteq Objects
  BY TypeRows DEF TypeOK
<1>3. \A o \in DOMAIN objects : SpaceOf[o] \in Spaces
  BY <1>2, BrokerAssumption
<1>4. CASE Status(r)
  BY <1>4, TokensKept, SettingsKept DEF Status
<1>5. CASE Configure(r)
  <2>1. /\ providers' = [providers EXCEPT ![s] = @ \cup {c.expected + 1}]
        /\ settings' = [settings EXCEPT ![s] =
                          [revision |-> c.expected + 1, enabled |-> TRUE,
                           provider |-> c.expected + 1, hours |-> c.hours]]
        /\ objects' = objects /\ tokens' = tokens
    BY <1>5 DEF Configure
  <2>2. TokensInv'
    BY <1>1, <1>2, <2>1 DEF TokensInv, SettingsRow
  <2>3. \A u \in Spaces : providers[u] \subseteq providers'[u]
    BY <1>1, <1>2, <2>1
  <2>4. CredentialsKept'
    BY <1>3, <2>1, <2>3 DEF SettingsInv, CredentialsKept
  <2>5. \A u \in Spaces : settings'[u].enabled =>
          settings'[u].provider \in providers'[u] /\ settings'[u].hours # 0
    BY <1>1, <1>2, <2>1 DEF SettingsInv
  <2> QED
    BY <2>1, <2>2, <2>4, <2>5 DEF SettingsInv
<1>6. CASE Policy(r)
  <2>1. \A u \in Spaces : /\ settings'[u].enabled = settings[u].enabled
                          /\ settings'[u].provider = settings[u].provider
                          /\ settings'[u].hours = settings[u].hours
                               \/ settings'[u].hours = c.hours
    <3>1. settings' = [settings EXCEPT ![s].revision = @ + 1, ![s].hours = c.hours]
      BY <1>6 DEF Policy
    <3> HIDE DEF c, s
    <3> QED
      BY <1>1, <1>2, <3>1 DEF SettingsRow
  <2>2. providers' = providers /\ objects' = objects /\ tokens' = tokens
    BY <1>6 DEF Policy
  <2>3. TokensInv'
    <3>1. \A t \in DOMAIN tokens : Body[t].space \in Spaces
      BY <1>2, BodyFacts
    <3> QED
      BY <2>1, <2>2, <3>1 DEF TokensInv
  <2>4. SettingsInv'
    BY <1>1, <2>1, <2>2 DEF SettingsInv, CredentialsKept
  <2> QED
    BY <2>2, <2>3, <2>4
<1>7. CASE Disable(r)
  <2> DEFINE gone == {t \in DOMAIN tokens : /\ SpaceOf[tokens[t].object] = s
                                            /\ tokens[t].action = "upload"}
  <2>1. \A u \in Spaces : /\ settings'[u].enabled = (settings[u].enabled /\ u # s)
                          /\ settings'[u].provider = settings[u].provider
                          /\ settings'[u].hours = settings[u].hours
    BY <1>1, <1>2, <1>7 DEF Disable, SettingsRow
  <2>2. providers' = providers /\ objects' = objects /\ tokens' = Without(tokens, gone)
    BY <1>7 DEF Disable
  <2>3. /\ DOMAIN tokens' = DOMAIN tokens \ gone
        /\ \A t \in DOMAIN tokens' : tokens'[t] = tokens[t]
    BY <2>2 DEF Without
  <2>4. TokensInv'
    <3> SUFFICES ASSUME NEW t \in DOMAIN tokens'
                 PROVE  /\ tokens'[t].head = Body[t].head
                        /\ tokens'[t].object = Body[t].object
                        /\ tokens'[t].action = "upload" => settings'[Body[t].space].enabled
      BY DEF TokensInv
    <3>1. /\ t \in DOMAIN tokens /\ t \in Requests /\ tokens'[t] = tokens[t]
          /\ tokens[t].head = Body[t].head /\ tokens[t].object = Body[t].object
          /\ tokens[t].action = "upload" => settings[Body[t].space].enabled
      BY <1>2, <2>3 DEF TokensInv
    <3>2. Body[t].space \in Spaces /\ Body[t].space = SpaceOf[tokens[t].object]
      BY <3>1, BodyFacts
    <3>3. tokens[t].action = "upload" => Body[t].space # s
      BY <2>3, <3>1, <3>2
    <3> QED
      BY <2>1, <3>1, <3>2, <3>3
  <2>5. SettingsInv'
    BY <2>1, <2>2 DEF SettingsInv, CredentialsKept
  <2> QED
    BY <2>3, <2>4, <2>5
<1>8. CASE Reserve(r)
  <2>1. /\ settings[s].enabled
        /\ DOMAIN objects' = DOMAIN objects \cup {c.object}
        /\ objects'[c.object].revision = settings[s].provider
        /\ \A o \in DOMAIN objects \ {c.object} : objects'[o] = objects[o]
        /\ settings' = settings /\ providers' = providers
    BY <1>8 DEF Reserve, Put
  <2>2. /\ DOMAIN tokens' = DOMAIN tokens \cup {r}
        /\ tokens'[r].head = c.head /\ tokens'[r].object = c.object
        /\ \A t \in DOMAIN tokens : tokens'[t] = tokens[t]
    BY <1>8 DEF Reserve, Put, Token
  <2>3. TokensInv'
    BY <2>1, <2>2 DEF TokensInv
  <2>4. SettingsInv'
    BY <1>1, <2>1 DEF SettingsInv, CredentialsKept
  <2> QED
    BY <2>2, <2>3, <2>4
<1>9. CASE Complete(r)
  <2>1. /\ tokens' = tokens /\ settings' = settings /\ providers' = providers
        /\ DOMAIN objects' = DOMAIN objects
        /\ \A o \in DOMAIN objects' : objects'[o].revision = objects[o].revision
    BY <1>9 DEF Complete, TypeOK, ObjectRow
  <2> QED
    BY <2>1, TokensKept, SettingsKept
<1>10. CASE Download(r)
  <2>1. /\ DOMAIN tokens' = DOMAIN tokens \cup {r}
        /\ tokens'[r].head = c.head /\ tokens'[r].object = c.object
        /\ tokens'[r].action = "download"
        /\ \A t \in DOMAIN tokens : tokens'[t] = tokens[t]
        /\ settings' = settings /\ providers' = providers /\ objects' = objects
    BY <1>10 DEF Download, Put, Token
  <2>2. TokensInv'
    BY <2>1 DEF TokensInv
  <2> QED
    BY <2>1, <2>2, SettingsKept
<1>11. CASE Cancel(r)
  <2>1. /\ settings' = settings /\ providers' = providers
        /\ DOMAIN objects' = DOMAIN objects
        /\ \A o \in DOMAIN objects' : objects'[o].revision = objects[o].revision
    BY <1>11 DEF Cancel, TypeOK, ObjectRow
  <2>2. /\ DOMAIN tokens' \subseteq DOMAIN tokens
        /\ \A t \in DOMAIN tokens' : tokens'[t] = tokens[t]
    BY <1>11 DEF Cancel, Without
  <2> QED
    BY <2>1, <2>2, TokensKept, SettingsKept
<1> QED
  BY <1>4, <1>5, <1>6, <1>7, <1>8, <1>9, <1>10, <1>11, Operated

LEMMA UploadedRows ==
    ASSUME TypeOK, NEW o, NEW success \in BOOLEAN
    PROVE  /\ DOMAIN Uploaded(o, success) = DOMAIN objects
           /\ \A p \in DOMAIN objects :
                /\ Uploaded(o, success)[p].revision = objects[p].revision
                /\ Uploaded(o, success)[p].creator = objects[p].creator
                /\ Uploaded(o, success)[p].expires = objects[p].expires
                /\ p # o => Uploaded(o, success)[p] = objects[p]
                /\ objects[p].state # "uploading" => Uploaded(o, success)[p] = objects[p]
BY DEF Uploaded, TypeOK, ObjectRow

LEMMA TablesStep ==
    ASSUME TypeOK, TypeOK', TablesInv, [Next]_vars
    PROVE  TablesInv'
<1>1. OnceInv /\ TokensInv /\ SettingsInv /\ now \in Nat /\ now' \in Nat
  BY DEF TablesInv, TypeOK
<1>2. ASSUME UNCHANGED <<rows, history>>, now =< now'
      PROVE  TablesInv'
  <2>1. OnceInv'
    BY <1>1, <1>2, OnceKept DEF rows, history
  <2>2. TokensInv'
    BY <1>1, <1>2, TokensKept DEF rows
  <2>3. SettingsInv'
    BY <1>1, <1>2, SettingsKept DEF rows
  <2> QED
    BY <2>1, <2>2, <2>3 DEF TablesInv
<1>3. ASSUME UNCHANGED <<rows, history, now>>
      PROVE  TablesInv'
  BY <1>1, <1>2, <1>3
\* A step that changes rows but no command, token or setting.
<1>4. ASSUME UNCHANGED <<settings, providers, receipts, history, now>>,
             DOMAIN tokens' \subseteq DOMAIN tokens,
             \A r \in DOMAIN tokens' : tokens'[r] = tokens[r],
             DOMAIN objects' \subseteq DOMAIN objects,
             \A o \in DOMAIN objects' : objects'[o].revision = objects[o].revision
      PROVE  TablesInv'
  <2>1. OnceInv'
    BY <1>1, <1>4, OnceKept DEF history
  <2>2. TokensInv'
    BY <1>1, <1>4, TokensKept
  <2>3. SettingsInv'
    BY <1>1, <1>4, SettingsKept
  <2> QED
    BY <2>1, <2>2, <2>3 DEF TablesInv
<1>5. ASSUME NEW w \in Workers, Job(w)
      PROVE  TablesInv'
  <2>1. ASSUME NEW r \in Requests, Receive(w, r)
        PROVE  TablesInv'
    BY <1>3, <2>1 DEF Receive
  <2>2. ASSUME NEW r \in Requests, NEW action \in Actions, Present(w, r, action)
        PROVE  TablesInv'
    BY <1>3, <2>2 DEF Present
  <2>3. CASE GateObserve(w) \/ Abandon(w)
    BY <1>3, <2>3 DEF GateObserve, Abandon
  <2>4. CASE Apply(w)
    <3> DEFINE r == jobs[w].req
    <3>1. /\ r \in Requests /\ Operate(r) /\ r \notin receipts
          /\ applied[r] = 0 /\ uses[r] = 0 /\ r \notin DOMAIN tokens
          /\ receipts' = receipts \cup {r} /\ applied' = [applied EXCEPT ![r] = 1]
          /\ now' = now /\ uses' = uses
      BY <1>1, <2>4, ApplyFacts
    <3> HIDE DEF r
    <3>2. DOMAIN tokens' \subseteq DOMAIN tokens \cup {r} /\ TokensInv' /\ SettingsInv'
      BY <1>1, <3>1, OperateTables
    <3>3. OnceInv'
      <4> SUFFICES ASSUME NEW q \in Requests
                   PROVE  /\ applied'[q] =< 1 /\ uses'[q] =< 1
                          /\ applied'[q] # 0 => q \in receipts' \/ Body[q].expires =< now'
                          /\ applied'[q] = 0 => q \notin DOMAIN tokens' /\ uses'[q] = 0
                          /\ q \in DOMAIN tokens' => uses'[q] = 0
        BY DEF OnceInv
      <4>1. applied'[q] = IF q = r THEN 1 ELSE applied[q]
        BY <3>1 DEF TypeOK
      <4> QED
        BY <1>1, <3>1, <3>2, <4>1 DEF OnceInv
    <3> QED
      BY <3>2, <3>3 DEF TablesInv
  <2>5. CASE ClaimUpload(w) \/ ClaimDownload(w)
    <3> DEFINE r == jobs[w].req
    <3>1. /\ r \in DOMAIN tokens /\ r \in Requests
          /\ tokens' = Without(tokens, {r}) /\ uses' = [uses EXCEPT ![r] = @ + 1]
          /\ UNCHANGED <<now, settings, providers, receipts, applied>>
      BY <2>5 DEF ClaimUpload, ClaimDownload, TokenTarget, Consumed, TypeOK
    <3>2. /\ DOMAIN tokens' = DOMAIN tokens \ {r}
          /\ \A t \in DOMAIN tokens' : tokens'[t] = tokens[t]
      BY <3>1 DEF Without
    <3>3. /\ DOMAIN objects' = DOMAIN objects
          /\ \A o \in DOMAIN objects' : objects'[o].revision = objects[o].revision
      <4>1. CASE ClaimUpload(w)
        BY <4>1 DEF ClaimUpload, TypeOK, ObjectRow
      <4>2. CASE ClaimDownload(w)
        BY <4>2 DEF ClaimDownload
      <4> QED
        BY <2>5, <4>1, <4>2
    <3> HIDE DEF r
    <3>4. TokensInv' /\ SettingsInv'
      BY <1>1, <3>1, <3>2, <3>3, TokensKept, SettingsKept
    <3>5. OnceInv'
      <4> SUFFICES ASSUME NEW q \in Requests
                   PROVE  /\ applied'[q] =< 1 /\ uses'[q] =< 1
                          /\ applied'[q] # 0 => q \in receipts' \/ Body[q].expires =< now'
                          /\ applied'[q] = 0 => q \notin DOMAIN tokens' /\ uses'[q] = 0
                          /\ q \in DOMAIN tokens' => uses'[q] = 0
        BY DEF OnceInv
      <4>1. uses[r] = 0 /\ applied[r] # 0
        BY <1>1, <3>1 DEF OnceInv
      <4>2. uses'[q] = IF q = r THEN 1 ELSE uses[q]
        BY <3>1, <4>1 DEF TypeOK
      <4> QED
        BY <1>1, <3>1, <3>2, <4>1, <4>2 DEF OnceInv
    <3> QED
      BY <3>4, <3>5 DEF TablesInv
  <2>6. ASSUME NEW o \in Objects, StartPut(w, o)
        PROVE  TablesInv'
    BY <1>3, <2>6 DEF StartPut
  <2>7. ASSUME NEW o \in Objects, UploadDone(w, o) \/ UploadFailed(w, o)
        PROVE  TablesInv'
    <3>1. PICK success \in BOOLEAN :
            /\ objects' = Uploaded(o, success)
            /\ UNCHANGED <<settings, providers, receipts, history, now, tokens>>
      BY <2>7 DEF UploadDone, UploadFailed
    <3>2. /\ DOMAIN objects' = DOMAIN objects
          /\ \A p \in DOMAIN objects' : objects'[p].revision = objects[p].revision
      BY <3>1, UploadedRows
    <3> QED
      BY <1>4, <3>1, <3>2
  <2> QED
    BY <1>5, <2>1, <2>2, <2>3, <2>4, <2>5, <2>6, <2>7 DEF Job
<1>6. ASSUME NEW o \in Objects, NEW content \in {"right", "wrong"}, PutLands(o, content)
      PROVE  TablesInv'
  BY <1>3, <1>6 DEF PutLands
<1>7. CASE Sweep
  <2>1. CASE SweepBegin
    BY <1>3, <2>1 DEF SweepBegin
  <2>2. ASSUME NEW o \in Objects, SweepErase(o) \/ SweepSkip(o)
        PROVE  TablesInv'
    <3>1. UNCHANGED <<rows, history, now>>
      BY <2>2 DEF SweepErase, SweepSkip
    <3> QED
      BY <1>3, <3>1
  <2>3. ASSUME NEW o \in Objects, SweepForget(o)
        PROVE  TablesInv'
    <3>1. /\ UNCHANGED <<settings, providers, receipts, history, now>>
          /\ DOMAIN tokens' \subseteq DOMAIN tokens
          /\ \A r \in DOMAIN tokens' : tokens'[r] = tokens[r]
          /\ DOMAIN objects' \subseteq DOMAIN objects
          /\ \A p \in DOMAIN objects' : objects'[p] = objects[p]
      BY <2>3 DEF SweepForget, Without
    <3> QED
      BY <1>4, <3>1
  <2>4. CASE SweepEnd
    <3>1. /\ settings' = settings /\ objects' = objects /\ now' = now
          /\ applied' = applied /\ uses' = uses
          /\ DOMAIN tokens' \subseteq DOMAIN tokens
          /\ \A r \in DOMAIN tokens' : tokens'[r] = tokens[r]
      BY <2>4 DEF SweepEnd, Without, history
    <3>2. \A r \in receipts \ receipts' : Body[r].expires =< now'
      <4> SUFFICES ASSUME NEW r \in receipts \ receipts'
                   PROVE  Body[r].expires =< now'
        OBVIOUS
      <4>1. r \in Requests /\ ~(Body[r].expires >= now - ReceiptGrace)
        BY <2>4 DEF SweepEnd, Pruned, TypeOK
      <4> QED
        BY <1>1, <3>1, <4>1, BodyFacts, BrokerAssumption
    <3>3. OnceInv'
      BY <1>1, <3>1, <3>2, OnceKept
    <3>4. TokensInv'
      BY <1>1, <3>1, TokensKept
    <3>5. SettingsInv'
      <4>1. \A s \in Spaces : providers'[s] = Kept(s)
        BY <2>4 DEF SweepEnd
      <4>2. \A s \in Spaces : settings'[s].enabled =>
              settings'[s].provider \in providers'[s] /\ settings'[s].hours # 0
        BY <1>1, <3>1, <4>1 DEF SettingsInv, Kept
      <4>3. ASSUME NEW o \in DOMAIN objects'
            PROVE  objects'[o].revision \in providers'[SpaceOf[o]]
        <5>1. o \in DOMAIN objects /\ SpaceOf[o] \in Spaces
          BY <3>1, BrokerAssumption DEF TypeOK
        <5>2. objects[o].revision \in providers[SpaceOf[o]] /\ o \in Stored(SpaceOf[o])
          BY <1>1, <5>1 DEF SettingsInv, CredentialsKept, Stored
        <5> QED
          BY <3>1, <4>1, <5>1, <5>2 DEF Kept
      <4> QED
        BY <4>2, <4>3 DEF SettingsInv, CredentialsKept
    <3> QED
      BY <3>3, <3>4, <3>5 DEF TablesInv
  <2> QED
    BY <1>7, <2>1, <2>2, <2>3, <2>4 DEF Sweep
<1>8. CASE Restart
  <2>1. /\ UNCHANGED <<settings, providers, receipts, history, now, tokens>>
        /\ DOMAIN objects' = DOMAIN objects
        /\ \A o \in DOMAIN objects' : objects'[o].revision = objects[o].revision
    BY <1>8 DEF Restart, TypeOK, ObjectRow
  <2> QED
    BY <1>4, <2>1
<1>9. ASSUME NEW s \in Spaces, WitnessUpdate(s)
      PROVE  TablesInv'
  <2>1. UNCHANGED <<rows, now, applied, uses>>
    BY <1>9 DEF WitnessUpdate
  <2>2. OnceInv'
    BY <1>1, <2>1, OnceKept DEF rows
  <2>3. TokensInv' /\ SettingsInv'
    BY <1>1, <2>1, TokensKept, SettingsKept DEF rows
  <2> QED
    BY <2>2, <2>3 DEF TablesInv
<1>10. CASE WitnessOther
  BY <1>3, <1>10 DEF WitnessOther
<1>11. CASE Tick
  <2>1. UNCHANGED <<rows, history>> /\ now' = now + 1
    BY <1>11 DEF Tick
  <2> QED
    BY <1>1, <1>2, <2>1
<1>12. CASE UNCHANGED vars
  BY <1>3, <1>12 DEF vars
<1> QED
  BY <1>5, <1>6, <1>7, <1>8, <1>9, <1>10, <1>11, <1>12 DEF Next

-----------------------------------------------------------------------------
(* Leases.                                                                  *)

\* A lease was asked for while its configuration was the newest.
Knows(s, lease) == lease.at =< now /\ lease.at =< retired[s][lease.head]

Waits(w) == jobs[w].kind # "idle" /\ jobs[w].phase \in {"asked", "leased"}

JobLease(w) ==
    Waits(w) =>
      /\ jobs[w].head = Body[jobs[w].req].head
      /\ jobs[w].space = Body[jobs[w].req].space
      /\ Knows(jobs[w].space, jobs[w].lease)
      /\ jobs[w].phase = "leased" => jobs[w].lease.head = jobs[w].head

CacheLease(s) == cache[s] # None => Knows(s, cache[s])

LeaseInv ==
    /\ now =< MaxTime
    /\ \A s \in Spaces : \A h \in Heads : h >= journal.head[s] => retired[s][h] = Never
    /\ \A s \in Spaces : CacheLease(s)
    /\ \A w \in Workers : JobLease(w)

LEMMA IdleLease ==
    ASSUME NEW w \in Workers, LeaseInv, TypeOK,
           jobs' = [jobs EXCEPT ![w] = Idle],
           UNCHANGED <<now, journal, retired, cache>>
    PROVE  LeaseInv'
<1>1. ASSUME NEW v \in Workers
      PROVE  JobLease(v)'
  <2>1. CASE v = w
    BY <2>1 DEF JobLease, Waits, Idle, TypeOK
  <2>2. CASE v # w
    BY <2>2 DEF JobLease, Waits, Knows, LeaseInv
  <2> QED
    BY <2>1, <2>2
<1> QED
  BY <1>1 DEF LeaseInv, CacheLease, Knows

LEMMA EnterLease ==
    ASSUME NEW w \in Workers, LeaseInv, TypeOK,
           NEW kind \in Actions \cup {"command"}, NEW r \in Requests,
           jobs' = [jobs EXCEPT ![w] = Enter(kind, r, Body[r].space, Body[r].head)],
           UNCHANGED <<now, journal, retired, cache>>
    PROVE  LeaseInv'
<1> DEFINE s == Body[r].space
           j == Enter(kind, r, s, Body[r].head)
<1>1. s \in Spaces /\ Body[r].head \in Heads
  BY BodyFacts
<1>2. /\ journal.head[s] \in Heads /\ journal.head[s] \in Nat /\ now \in Nat /\ MaxTime \in Nat
      /\ now =< MaxTime /\ retired[s][journal.head[s]] = Never
  <2>1. journal.head[s] \in Heads /\ now \in Nat
    BY <1>1 DEF TypeOK
  <2>2. journal.head[s] \in Nat /\ MaxTime \in Nat /\ journal.head[s] >= journal.head[s]
    BY <2>1, BrokerAssumption
  <2> QED
    BY <1>1, <2>1, <2>2 DEF LeaseInv
<1>3. Knows(s, Freshness(s))
  BY <1>2 DEF Knows, Freshness, Never
<1>4. Cached(s, Body[r].head) =>
        Knows(s, cache[s]) /\ cache[s].head = Body[r].head
  BY <1>1 DEF Cached, LeaseInv, CacheLease
<1>5. /\ j.req = r /\ j.head = Body[r].head /\ j.space = s
      /\ Knows(s, j.lease)
      /\ j.phase = "leased" => j.lease.head = j.head
  BY <1>3, <1>4 DEF Enter
<1> HIDE DEF j
<1>6. ASSUME NEW v \in Workers
      PROVE  JobLease(v)'
  <2>1. CASE v = w
    <3>1. jobs'[v] = j
      BY <2>1 DEF TypeOK, j
    <3> QED
      BY <1>5, <3>1 DEF JobLease, Waits, Knows
  <2>2. CASE v # w
    BY <2>2 DEF JobLease, Waits, Knows, LeaseInv
  <2> QED
    BY <2>1, <2>2
<1> QED
  BY <1>6 DEF LeaseInv, CacheLease, Knows

LEMMA LeaseStep ==
    ASSUME TypeOK, TypeOK', TablesInv, LeaseInv, [Next]_vars
    PROVE  LeaseInv'
<1>1. ASSUME UNCHANGED <<now, journal, retired, cache, jobs>>
      PROVE  LeaseInv'
  BY <1>1 DEF LeaseInv, CacheLease, JobLease, Waits, Knows
<1>2. ASSUME NEW w \in Workers, Job(w)
      PROVE  LeaseInv'
  <2>1. ASSUME NEW r \in Requests, Receive(w, r)
        PROVE  LeaseInv'
    BY <2>1, EnterLease DEF Receive, history
  <2>2. ASSUME NEW r \in Requests, NEW action \in Actions, Present(w, r, action)
        PROVE  LeaseInv'
    <3>1. /\ tokens[r].head = Body[r].head /\ tokens[r].object = Body[r].object
      BY <2>2 DEF Present, TokenTarget, TablesInv, TokensInv
    <3>2. SpaceOf[tokens[r].object] = Body[r].space
      BY <3>1, BodyFacts
    <3> QED
      BY <2>2, <3>1, <3>2, EnterLease DEF Present, history
  <2>3. CASE GateObserve(w)
    <3> DEFINE lease == jobs[w].lease
    <3>1. /\ Waits(w) /\ jobs[w].phase = "asked" /\ jobs[w].space \in Spaces
          /\ UNCHANGED <<now, journal, retired>>
          /\ cache' = [s \in Spaces |->
                         IF s = jobs[w].space THEN lease
                         ELSE IF cache[s] # None /\ IsValid(cache[s]) THEN cache[s]
                         ELSE None]
          /\ jobs' = IF lease.head = jobs[w].head
                     THEN Goto(w, "leased") ELSE [jobs EXCEPT ![w] = Idle]
      BY <2>3, JobFacts DEF GateObserve, At, Waits, history
    <3>2. /\ jobs[w].head = Body[jobs[w].req].head
          /\ jobs[w].space = Body[jobs[w].req].space
          /\ Knows(jobs[w].space, lease)
      BY <3>1 DEF LeaseInv, JobLease
    <3>3. \A s \in Spaces : CacheLease(s)'
      BY <3>1, <3>2 DEF LeaseInv, CacheLease, Knows
    <3>4. ASSUME NEW v \in Workers
          PROVE  JobLease(v)'
      <4>1. CASE v # w
        <5>1. jobs'[v] = jobs[v]
          BY <3>1, <4>1 DEF Goto, TypeOK
        <5> QED
          BY <3>1, <5>1 DEF LeaseInv, CacheLease, JobLease, Waits, Knows
      <4>2. CASE v = w /\ lease.head = jobs[w].head
        <5>1. jobs'[w] = [jobs[w] EXCEPT !.phase = "leased"]
          BY <3>1, <4>2 DEF Goto, TypeOK
        <5>2. /\ jobs'[w].req = jobs[w].req /\ jobs'[w].head = jobs[w].head
              /\ jobs'[w].space = jobs[w].space /\ jobs'[w].lease = lease
          BY <5>1
        <5> QED
          BY <3>1, <3>2, <4>2, <5>2 DEF JobLease, Knows
      <4>3. CASE v = w /\ lease.head # jobs[w].head
        BY <3>1, <4>3 DEF JobLease, Waits, Idle, TypeOK
      <4> QED
        BY <4>1, <4>2, <4>3
    <3> HIDE DEF lease
    <3> QED
      BY <3>1, <3>3, <3>4 DEF LeaseInv, CacheLease, Knows
  <2>4. CASE Abandon(w) \/ Apply(w) \/ ClaimDownload(w)
    <3>1. jobs' = [jobs EXCEPT ![w] = Idle] /\ UNCHANGED <<now, journal, retired, cache>>
      BY <2>4 DEF Abandon, Apply, ClaimDownload, history
    <3> QED
      BY <3>1, IdleLease
  <2>5. CASE ClaimUpload(w)
    <3>1. /\ UNCHANGED <<now, journal, retired, cache>>
          /\ jobs'[w].phase = "opening" /\ \A v \in Workers \ {w} : jobs'[v] = jobs[v]
      BY <2>5 DEF ClaimUpload, TypeOK
    <3>2. \A v \in Workers : JobLease(v)'
      BY <3>1 DEF LeaseInv, CacheLease, JobLease, Waits, Knows
    <3> QED
      BY <3>1, <3>2 DEF LeaseInv, CacheLease, Knows
  <2>6. ASSUME NEW o \in Objects, StartPut(w, o)
        PROVE  LeaseInv'
    <3>1. /\ UNCHANGED <<now, journal, retired, cache>>
          /\ jobs' = Goto(w, "putting") /\ jobs[w].kind = "put" /\ jobs[w] \in JobType
      BY <2>6, JobFacts DEF StartPut, At, history, TypeOK
    <3>2. jobs'[w].phase = "putting" /\ \A v \in Workers \ {w} : jobs'[v] = jobs[v]
      BY <3>1 DEF Goto, TypeOK, JobType, Idle, Actions
    <3>3. \A v \in Workers : JobLease(v)'
      BY <3>1, <3>2 DEF LeaseInv, CacheLease, JobLease, Waits, Knows
    <3> QED
      BY <3>1, <3>3 DEF LeaseInv, CacheLease, Knows
  <2>7. ASSUME NEW o \in Objects, UploadDone(w, o) \/ UploadFailed(w, o)
        PROVE  LeaseInv'
    <3>1. jobs' = [jobs EXCEPT ![w] = Idle] /\ UNCHANGED <<now, journal, retired, cache>>
      BY <2>7 DEF UploadDone, UploadFailed, history
    <3> QED
      BY <3>1, IdleLease
  <2> QED
    BY <1>2, <2>1, <2>2, <2>3, <2>4, <2>5, <2>6, <2>7 DEF Job
<1>3. ASSUME NEW o \in Objects, NEW content \in {"right", "wrong"}, PutLands(o, content)
      PROVE  LeaseInv'
  BY <1>1, <1>3 DEF PutLands, history
<1>4. CASE Sweep
  <2>1. UNCHANGED <<now, journal, retired, cache, jobs>>
    BY <1>4 DEF Sweep, SweepBegin, SweepErase, SweepSkip, SweepForget, SweepEnd, history
  <2> QED
    BY <1>1, <2>1
<1>5. CASE Restart
  <2>1. /\ UNCHANGED <<now, journal, retired>> /\ \A s \in Spaces : cache'[s] = None
        /\ \A v \in Workers : jobs'[v] = Idle
    BY <1>5 DEF Restart, history
  <2>2. \A v \in Workers : JobLease(v)'
    BY <2>1 DEF JobLease, Waits, Idle
  <2> QED
    BY <2>1, <2>2 DEF LeaseInv, CacheLease
<1>6. ASSUME NEW s \in Spaces, WitnessUpdate(s)
      PROVE  LeaseInv'
  <2>1. /\ UNCHANGED <<now, cache, jobs>>
        /\ journal'.head = [journal.head EXCEPT ![s] = @ + 1]
        /\ retired' = [retired EXCEPT ![s][journal.head[s]] = now]
    BY <1>6 DEF WitnessUpdate
  <2>2. /\ journal.head \in [Spaces -> Heads] /\ retired \in [Spaces -> [Heads -> Nat]]
        /\ now \in Nat /\ Heads \subseteq Nat
    BY BrokerAssumption DEF TypeOK
  <2>3. ASSUME NEW u \in Spaces, NEW lease \in Lease, Knows(u, lease)
        PROVE  Knows(u, lease)'
    <3>1. retired'[u][lease.head] = retired[u][lease.head] \/ retired'[u][lease.head] = now
      BY <2>1, <2>2 DEF Lease
    <3> QED
      BY <2>1, <2>3, <3>1 DEF Knows
  <2>4. \A u \in Spaces : \A h \in Heads :
          h >= journal'.head[u] => retired'[u][h] = Never
    <3> TAKE u \in Spaces
    <3> TAKE h \in Heads
    <3>1. CASE u = s
      <4>1. journal'.head[u] = journal.head[s] + 1 /\ h \in Nat /\ journal.head[s] \in Nat
        BY <2>1, <2>2, <3>1
      <4>2. h >= journal'.head[u] => h # journal.head[s] /\ h >= journal.head[s]
        BY <4>1
      <4>3. h # journal.head[s] => retired'[u][h] = retired[u][h]
        BY <2>1, <2>2, <3>1
      <4> QED
        BY <3>1, <4>2, <4>3 DEF LeaseInv
    <3>2. CASE u # s
      BY <2>1, <2>2, <3>2 DEF LeaseInv
    <3> QED
      BY <3>1, <3>2
  <2>5. \A u \in Spaces : CacheLease(u)'
    <3> TAKE u \in Spaces
    <3>1. cache[u] # None => cache[u] \in Lease /\ Knows(u, cache[u])
      BY DEF TypeOK, LeaseInv, CacheLease
    <3> QED
      BY <2>1, <2>3, <3>1 DEF CacheLease
  <2>6. ASSUME NEW v \in Workers
        PROVE  JobLease(v)'
    <3>1. Waits(v) => jobs[v].space \in Spaces /\ jobs[v].lease \in Lease /\ JobLease(v)
      BY JobFacts DEF Waits, LeaseInv
    <3>2. Waits(v) => Knows(jobs[v].space, jobs[v].lease)'
      BY <2>1, <2>3, <3>1 DEF JobLease
    <3> QED
      BY <2>1, <3>1, <3>2 DEF JobLease, Waits
  <2> QED
    BY <2>1, <2>4, <2>5, <2>6 DEF LeaseInv
<1>7. CASE WitnessOther
  <2>1. UNCHANGED <<now, retired, cache, jobs>> /\ journal'.head = journal.head
    BY <1>7 DEF WitnessOther, history, TypeOK
  <2> QED
    BY <2>1 DEF LeaseInv, CacheLease, JobLease, Waits, Knows
<1>8. CASE Tick
  <2>1. UNCHANGED <<journal, retired, cache, jobs>> /\ now' = now + 1 /\ now < MaxTime
        /\ now \in Nat /\ MaxTime \in Nat
    BY <1>8, BrokerAssumption DEF Tick, history, TypeOK
  <2>2. ASSUME NEW u, NEW lease \in Lease, Knows(u, lease)
        PROVE  Knows(u, lease)'
    BY <2>1, <2>2 DEF Knows, Lease
  <2>3. \A u \in Spaces : CacheLease(u)'
    <3> TAKE u \in Spaces
    <3>1. cache[u] # None => cache[u] \in Lease /\ Knows(u, cache[u])
      BY DEF TypeOK, LeaseInv, CacheLease
    <3> QED
      BY <2>1, <2>2, <3>1 DEF CacheLease
  <2>4. ASSUME NEW v \in Workers
        PROVE  JobLease(v)'
    <3>1. Waits(v) => jobs[v].lease \in Lease /\ JobLease(v)
      BY JobFacts DEF Waits, LeaseInv
    <3>2. Waits(v) => Knows(jobs[v].space, jobs[v].lease)'
      BY <2>1, <2>2, <3>1 DEF JobLease
    <3> QED
      BY <2>1, <3>1, <3>2 DEF JobLease, Waits
  <2> QED
    BY <2>1, <2>3, <2>4 DEF LeaseInv
<1>9. CASE UNCHANGED vars
  BY <1>1, <1>9 DEF vars, history
<1> QED
  BY <1>2, <1>3, <1>4, <1>5, <1>6, <1>7, <1>8, <1>9 DEF Next

-----------------------------------------------------------------------------
(* Uploads, sweeps and what the provider holds, when a request to the       *)
(* provider ends with the upload that makes it.                             *)

\* An upload has its row to itself, for as long as it may take.
UploadInv ==
    /\ \A w \in Workers : jobs[w].kind = "put" =>
         /\ jobs[w].object \in DOMAIN objects
         /\ objects[jobs[w].object].state = "uploading"
         /\ objects[jobs[w].object].busy = jobs[w].at + BusyLife
    /\ \A v, w \in Workers :
         jobs[v].kind = "put" /\ jobs[w].kind = "put" /\ jobs[v].object = jobs[w].object
           => v = w

\* What the provider may still store has a row that is busy until then.
WriteInv ==
    \A o \in Objects : now < puts[o] =>
      /\ o \in DOMAIN objects
      /\ objects[o].state \in {"uploading", "deleting"}
      /\ puts[o] =< objects[o].busy

\* What a sweep has listed stays garbage until it is forgotten.
SweepInv ==
    /\ sweep.listed \cup sweep.erased \subseteq Garbage
    /\ sweep.listed \cap sweep.erased = {}
    /\ \A o \in sweep.erased : blobs[o] = "none"

BlobInv ==
    /\ \A o \in Objects : blobs[o] # "none" => o \in DOMAIN objects
    /\ \A o \in DOMAIN objects :
         objects[o].state \in {"uploaded", "complete"} /\ ~Expired(o) => blobs[o] = "right"

StoreInv == UploadInv /\ WriteInv /\ SweepInv /\ BlobInv

\* Nobody writes what a sweep may erase.
LEMMA GarbageIsQuiet ==
    ASSUME TypeOK, WriteInv, NEW o \in Garbage
    PROVE  ~(now < puts[o])
<1>1. o \in DOMAIN objects /\ objects[o].busy =< now /\ o \in Objects
  BY DEF Garbage, TypeOK
<1>2. now \in Nat /\ puts[o] \in Nat /\ objects[o].busy \in Nat
  BY <1>1 DEF TypeOK, ObjectRow
<1> QED
  BY <1>1, <1>2 DEF WriteInv

\* A row that no upload has in hand stays, is marked for deletion or is completed in time.
GoesOn(o) ==
    /\ o \in DOMAIN objects'
    /\ objects'[o].expires = objects[o].expires
    /\ objects'[o].busy = objects[o].busy
    /\ \/ objects'[o].state = objects[o].state
       \/ objects'[o].state = "deleting" /\ objects[o].state # "uploading"
       \/ /\ objects[o].state = "uploaded" /\ ~Expired(o)
          /\ objects'[o].state = "complete"

LEMMA RowsGoOn ==
    ASSUME TypeOK, StoreInv, UNCHANGED <<now, puts, blobs, sweep>>,
           \A w \in Workers : jobs'[w].kind = "put" =>
             /\ jobs[w].kind = "put"
             /\ jobs'[w].object = jobs[w].object /\ jobs'[w].at = jobs[w].at,
           \A o \in DOMAIN objects : GoesOn(o),
           \A o \in DOMAIN objects' \ DOMAIN objects : objects'[o].state = "pending"
    PROVE  StoreInv'
<1>1. UploadInv'
  BY DEF StoreInv, UploadInv, GoesOn
<1>2. WriteInv'
  BY DEF StoreInv, WriteInv, GoesOn
<1>3. SweepInv'
  <2>1. ASSUME NEW o \in Garbage
        PROVE  o \in Garbage'
    <3>1. o \in DOMAIN objects /\ GoesOn(o)
      BY DEF Garbage
    <3> QED
      BY <3>1 DEF Garbage, GoesOn, Expired
  <2> QED
    BY <2>1 DEF StoreInv, SweepInv
<1>4. BlobInv'
  BY DEF StoreInv, BlobInv, GoesOn, Expired
<1> QED
  BY <1>1, <1>2, <1>3, <1>4 DEF StoreInv

LEMMA OperateRows ==
    ASSUME TypeOK, NEW r \in Requests, Operate(r)
    PROVE  /\ now' = now => \A o \in DOMAIN objects : GoesOn(o)
           /\ \A o \in DOMAIN objects' \ DOMAIN objects : objects'[o].state = "pending"
<1>1. CASE Status(r) \/ Configure(r) \/ Policy(r) \/ Disable(r) \/ Download(r)
  <2>1. objects' = objects
    BY <1>1 DEF Status, Configure, Policy, Disable, Download
  <2> QED
    BY <2>1 DEF GoesOn
<1>2. CASE Reserve(r)
  <2>1. /\ Body[r].object \notin DOMAIN objects
        /\ DOMAIN objects' = DOMAIN objects \cup {Body[r].object}
        /\ objects'[Body[r].object].state = "pending"
        /\ \A o \in DOMAIN objects : objects'[o] = objects[o]
    BY <1>2 DEF Reserve, Put, HasRow
  <2> QED
    BY <2>1 DEF GoesOn
<1>3. CASE Complete(r)
  <2>1. /\ DOMAIN objects' = DOMAIN objects
        /\ \A o \in DOMAIN objects : o # Body[r].object => objects'[o] = objects[o]
    BY <1>3 DEF Complete
  <2>2. LET o == Body[r].object
        IN /\ o \in DOMAIN objects /\ ~Expired(o)
           /\ objects[o].state \in {"uploaded", "complete"}
           /\ objects'[o].state = "complete" /\ objects'[o].busy = objects[o].busy
           /\ objects'[o].expires = objects[o].expires
    BY <1>3 DEF Complete, Row, HasRow, TypeOK, ObjectRow
  <2> QED
    BY <2>1, <2>2 DEF GoesOn
<1>4. CASE Cancel(r)
  <2>1. /\ DOMAIN objects' = DOMAIN objects
        /\ \A o \in DOMAIN objects : o # Body[r].object => objects'[o] = objects[o]
    BY <1>4 DEF Cancel
  <2>2. LET o == Body[r].object
        IN /\ o \in DOMAIN objects /\ objects[o].state # "uploading"
           /\ objects'[o].state = "deleting" /\ objects'[o].busy = objects[o].busy
           /\ objects'[o].expires = objects[o].expires
    BY <1>4 DEF Cancel, Row, HasRow, TypeOK, ObjectRow
  <2> QED
    BY <2>1, <2>2 DEF GoesOn
<1> QED
  BY <1>1, <1>2, <1>3, <1>4, Operated

LEMMA ClaimUploadStore ==
    ASSUME TypeOK, StoreInv, NEW w \in Workers, ClaimUpload(w)
    PROVE  StoreInv'
<1> DEFINE o == tokens[jobs[w].req].object
<1>1. /\ o \in DOMAIN objects /\ ~Expired(o) /\ objects[o].state = "pending"
      /\ objects' = [objects EXCEPT ![o].state = "uploading", ![o].busy = now + BusyLife]
      /\ jobs' = [jobs EXCEPT ![w] = [kind |-> "put", object |-> o, phase |-> "opening",
                                      at |-> now]]
      /\ UNCHANGED <<now, puts, blobs, sweep>>
  BY DEF ClaimUpload
<1> HIDE DEF o
<1>2. /\ DOMAIN objects' = DOMAIN objects
      /\ objects'[o].state = "uploading" /\ objects'[o].busy = now + BusyLife
      /\ \A p \in DOMAIN objects \ {o} : objects'[p] = objects[p]
  BY <1>1 DEF TypeOK, ObjectRow
<1>3. /\ jobs'[w].kind = "put" /\ jobs'[w].object = o /\ jobs'[w].at = now
      /\ \A v \in Workers \ {w} : jobs'[v] = jobs[v]
  BY <1>1 DEF TypeOK
<1>4. \A v \in Workers : jobs[v].kind = "put" => jobs[v].object # o
  BY <1>1 DEF StoreInv, UploadInv
<1>5. UploadInv'
  BY <1>1, <1>2, <1>3, <1>4 DEF StoreInv, UploadInv
<1>6. WriteInv'
  BY <1>1, <1>2 DEF StoreInv, WriteInv
<1>7. SweepInv'
  <2>1. o \notin Garbage
    BY <1>1 DEF Garbage
  <2>2. \A p \in Garbage : p \in Garbage'
    BY <1>1, <1>2, <2>1 DEF Garbage, Expired
  <2> QED
    BY <1>1, <2>2 DEF StoreInv, SweepInv
<1>8. BlobInv'
  BY <1>1, <1>2 DEF StoreInv, BlobInv, Expired
<1> QED
  BY <1>5, <1>6, <1>7, <1>8 DEF StoreInv

LEMMA StartPutStore ==
    ASSUME ~Detached, TypeOK, StoreInv, NEW w \in Workers, NEW o \in Objects, StartPut(w, o)
    PROVE  StoreInv'
<1>1. /\ At(w, "opening") /\ jobs[w].object = o /\ jobs' = Goto(w, "putting")
      /\ puts' = [puts EXCEPT ![o] = jobs[w].at + PutLife]
      /\ objects' = objects
      /\ UNCHANGED <<now, blobs, sweep>>
  BY DEF StartPut, PutDeadline, rows
<1>2. jobs[w].kind = "put" /\ jobs[w].at \in Nat /\ jobs[w] \in JobType
  BY <1>1, JobFacts DEF At, TypeOK
<1>3. \A v \in Workers : jobs'[v].kind = jobs[v].kind
        /\ (jobs[v].kind = "put" => jobs'[v].object = jobs[v].object /\ jobs'[v].at = jobs[v].at)
  BY <1>1, <1>2 DEF Goto, TypeOK, JobType, Idle, Actions
<1>4. UploadInv'
  BY <1>1, <1>3 DEF StoreInv, UploadInv
<1>5. WriteInv'
  <2> SUFFICES ASSUME NEW p \in Objects, now < puts'[p]
               PROVE  /\ p \in DOMAIN objects
                      /\ objects[p].state \in {"uploading", "deleting"}
                      /\ puts'[p] =< objects[p].busy
    BY <1>1 DEF WriteInv
  <2>1. CASE p = o
    <3>1. /\ o \in DOMAIN objects /\ objects[o].state = "uploading"
          /\ objects[o].busy = jobs[w].at + BusyLife
      BY <1>1, <1>2 DEF StoreInv, UploadInv
    <3>2. puts'[p] = jobs[w].at + PutLife
      BY <1>1, <2>1 DEF TypeOK
    <3> QED
      BY <1>2, <2>1, <3>1, <3>2, BrokerAssumption
  <2>2. CASE p # o
    <3>1. puts'[p] = puts[p]
      BY <1>1, <2>2 DEF TypeOK
    <3> QED
      BY <3>1 DEF StoreInv, WriteInv
  <2> QED
    BY <2>1, <2>2
<1>6. SweepInv'
  BY <1>1 DEF StoreInv, SweepInv, Garbage, Expired
<1>7. BlobInv'
  BY <1>1 DEF StoreInv, BlobInv, Expired
<1> QED
  BY <1>4, <1>5, <1>6, <1>7 DEF StoreInv

LEMMA PutLandsStore ==
    ASSUME TypeOK, StoreInv, NEW o \in Objects, NEW content \in {"right", "wrong"},
           PutLands(o, content)
    PROVE  StoreInv'
<1>1. /\ now < puts[o]
      /\ blobs' = [blobs EXCEPT ![o] = content] /\ puts' = [puts EXCEPT ![o] = 0]
      /\ objects' = objects /\ UNCHANGED <<now, jobs, sweep>>
  BY DEF PutLands, rows
<1>2. /\ o \in DOMAIN objects /\ objects[o].state \in {"uploading", "deleting"}
  BY <1>1 DEF StoreInv, WriteInv
<1>3. o \notin Garbage
  BY <1>1, GarbageIsQuiet DEF StoreInv
<1>4. /\ \A p \in Objects : puts'[p] = puts[p] \/ puts'[p] = 0
      /\ \A p \in Objects \ {o} : blobs'[p] = blobs[p]
  BY <1>1 DEF TypeOK
<1>5. UploadInv'
  BY <1>1 DEF StoreInv, UploadInv
<1>6. WriteInv'
  <2>1. now \in Nat
    BY DEF TypeOK
  <2> QED
    BY <1>1, <1>4, <2>1 DEF StoreInv, WriteInv
<1>7. SweepInv'
  <2>1. Garbage' = Garbage
    BY <1>1 DEF Garbage, Expired
  <2>2. sweep.erased \subseteq Objects
    BY DEF TypeOK
  <2> QED
    BY <1>1, <1>3, <1>4, <2>1, <2>2 DEF StoreInv, SweepInv
<1>8. BlobInv'
  <2>1. DOMAIN objects \subseteq Objects
    BY DEF TypeOK
  <2> QED
    BY <1>1, <1>2, <1>4, <2>1 DEF StoreInv, BlobInv, Expired
<1> QED
  BY <1>5, <1>6, <1>7, <1>8 DEF StoreInv

LEMMA UploadEndsStore ==
    ASSUME TypeOK, StoreInv, NEW w \in Workers, NEW o \in Objects,
           UploadDone(w, o) \/ UploadFailed(w, o)
    PROVE  StoreInv'
<1>1. /\ jobs[w].kind = "put" /\ jobs[w].object = o
      /\ jobs' = [jobs EXCEPT ![w] = Idle]
      /\ UNCHANGED <<now, puts, blobs, sweep>>
      /\ \/ objects' = Uploaded(o, TRUE) /\ puts[o] = 0 /\ blobs[o] = "right"
         \/ objects' = Uploaded(o, FALSE)
  BY DEF UploadDone, UploadFailed, Uploader
<1>2. o \in DOMAIN objects /\ objects[o].state = "uploading"
  BY <1>1 DEF StoreInv, UploadInv
<1>3. /\ DOMAIN objects' = DOMAIN objects
      /\ \A p \in DOMAIN objects : objects'[p].expires = objects[p].expires
      /\ \A p \in DOMAIN objects \ {o} : objects'[p] = objects[p]
      /\ \/ objects'[o].state = "uploaded" /\ puts[o] = 0 /\ blobs[o] = "right"
         \/ objects'[o].state = "deleting" /\ objects'[o].busy = objects[o].busy
  <2>1. CASE objects' = Uploaded(o, TRUE) /\ puts[o] = 0 /\ blobs[o] = "right"
    BY <1>2, <2>1 DEF Uploaded, TypeOK, ObjectRow
  <2>2. CASE objects' = Uploaded(o, FALSE)
    BY <1>2, <2>2 DEF Uploaded, TypeOK, ObjectRow
  <2> QED
    BY <1>1, <2>1, <2>2
<1>4. /\ jobs'[w].kind = "idle" /\ \A v \in Workers \ {w} : jobs'[v] = jobs[v]
  BY <1>1 DEF TypeOK, Idle
<1>5. UploadInv'
  BY <1>1, <1>3, <1>4 DEF StoreInv, UploadInv
<1>6. WriteInv'
  <2>1. now \in Nat
    BY DEF TypeOK
  <2> QED
    BY <1>1, <1>3, <2>1 DEF StoreInv, WriteInv
<1>7. SweepInv'
  <2>1. o \notin Garbage
    BY <1>2 DEF Garbage
  <2>2. \A p \in Garbage : p \in Garbage'
    BY <1>1, <1>3, <2>1 DEF Garbage, Expired
  <2> QED
    BY <1>1, <2>2 DEF StoreInv, SweepInv
<1>8. BlobInv'
  BY <1>1, <1>3 DEF StoreInv, BlobInv, Expired
<1> QED
  BY <1>5, <1>6, <1>7, <1>8 DEF StoreInv

LEMMA SweepStore ==
    ASSUME TypeOK, StoreInv, Sweep
    PROVE  StoreInv'
<1>1. sweep.erased \subseteq Objects /\ sweep.listed \subseteq Objects
      /\ blobs \in [Objects -> {"none", "right", "wrong"}] /\ DOMAIN objects \subseteq Objects
  BY DEF TypeOK
<1>2. ASSUME UNCHANGED <<now, objects, jobs, puts, blobs>>, SweepInv'
      PROVE  StoreInv'
  BY <1>2 DEF StoreInv, UploadInv, WriteInv, BlobInv, Expired
<1>3. ASSUME UNCHANGED <<now, objects>>
      PROVE  Garbage' = Garbage
  BY <1>3 DEF Garbage, Expired
<1>4. CASE SweepBegin
  <2>1. UNCHANGED <<now, objects, jobs, puts, blobs>> /\ sweep'.erased = {}
        /\ sweep'.listed \subseteq Garbage
    BY <1>4 DEF SweepBegin, rows
  <2> QED
    BY <1>2, <1>3, <2>1 DEF SweepInv
<1>5. ASSUME NEW o \in Objects, SweepErase(o)
      PROVE  StoreInv'
  <2>1. /\ o \in sweep.listed /\ UNCHANGED <<now, objects, jobs, puts>>
        /\ blobs' = [blobs EXCEPT ![o] = "none"]
        /\ sweep'.listed = sweep.listed \ {o} /\ sweep'.erased = sweep.erased \cup {o}
    BY <1>5 DEF SweepErase, rows, TypeOK
  <2>2. o \in Garbage
    BY <2>1 DEF StoreInv, SweepInv
  <2>3. SweepInv'
    BY <1>1, <1>3, <2>1, <2>2 DEF StoreInv, SweepInv
  <2>4. BlobInv'
    BY <1>1, <2>1, <2>2 DEF StoreInv, BlobInv, Garbage, Expired
  <2> QED
    BY <2>1, <2>3, <2>4 DEF StoreInv, UploadInv, WriteInv
<1>6. ASSUME NEW o \in Objects, SweepSkip(o)
      PROVE  StoreInv'
  <2>1. /\ UNCHANGED <<now, objects, jobs, puts, blobs>>
        /\ sweep'.listed \subseteq sweep.listed /\ sweep'.erased = sweep.erased
    BY <1>6 DEF SweepSkip, rows, TypeOK
  <2> QED
    BY <1>2, <1>3, <2>1 DEF StoreInv, SweepInv
<1>7. ASSUME NEW o \in Objects, SweepForget(o)
      PROVE  StoreInv'
  <2>1. o \in sweep.erased /\ o \in Garbage /\ blobs[o] = "none" /\ o \notin sweep.listed
    BY <1>7 DEF SweepForget, StoreInv, SweepInv
  <2>2. ~(now < puts[o]) /\ objects[o].state # "uploading" /\ o \in DOMAIN objects
    BY <2>1, GarbageIsQuiet DEF StoreInv, Garbage
  <2>3. /\ UNCHANGED <<now, jobs, puts, blobs>>
        /\ DOMAIN objects' = DOMAIN objects \ {o}
        /\ \A p \in DOMAIN objects' : objects'[p] = objects[p]
        /\ sweep'.listed = sweep.listed /\ sweep'.erased = sweep.erased \ {o}
    BY <1>7, <2>2 DEF SweepForget, Without, TypeOK
  <2>4. UploadInv'
    BY <2>2, <2>3 DEF StoreInv, UploadInv
  <2>5. WriteInv'
    BY <2>2, <2>3 DEF StoreInv, WriteInv
  <2>6. SweepInv'
    <3>1. \A p \in Garbage \ {o} : p \in Garbage'
      BY <2>3 DEF Garbage, Expired
    <3> QED
      BY <2>1, <2>3, <3>1 DEF StoreInv, SweepInv
  <2>7. BlobInv'
    BY <2>1, <2>3 DEF StoreInv, BlobInv, Expired
  <2> QED
    BY <2>4, <2>5, <2>6, <2>7 DEF StoreInv
<1>8. CASE SweepEnd
  <2>1. /\ UNCHANGED <<now, objects, jobs, puts, blobs>>
        /\ sweep'.listed = {} /\ sweep'.erased = {}
    BY <1>8 DEF SweepEnd, Resting
  <2> QED
    BY <1>2, <2>1 DEF SweepInv
<1> QED
  BY <1>4, <1>5, <1>6, <1>7, <1>8 DEF Sweep

LEMMA RestartStore ==
    ASSUME TypeOK, StoreInv, Restart
    PROVE  StoreInv'
<1>1. /\ UNCHANGED <<now, puts, blobs>>
      /\ sweep'.listed = {} /\ sweep'.erased = {}
      /\ \A w \in Workers : jobs'[w].kind = "idle"
      /\ DOMAIN objects' = DOMAIN objects
      /\ \A o \in DOMAIN objects :
           /\ objects'[o].busy = objects[o].busy /\ objects'[o].expires = objects[o].expires
           /\ objects'[o].state =
                IF objects[o].state = "uploading" THEN "deleting" ELSE objects[o].state
  BY DEF Restart, Resting, Idle, TypeOK, ObjectRow
<1>2. UploadInv'
  BY <1>1 DEF UploadInv
<1>3. WriteInv'
  BY <1>1 DEF StoreInv, WriteInv
<1>4. SweepInv'
  BY <1>1 DEF SweepInv
<1>5. BlobInv'
  BY <1>1 DEF StoreInv, BlobInv, Expired
<1> QED
  BY <1>2, <1>3, <1>4, <1>5 DEF StoreInv

LEMMA TickStore ==
    ASSUME TypeOK, StoreInv, Tick
    PROVE  StoreInv'
<1>1. now' = now + 1 /\ now \in Nat /\ UNCHANGED <<objects, jobs, puts, blobs, sweep>>
  BY DEF Tick, rows, TypeOK
<1>2. \A o \in DOMAIN objects : objects[o].busy \in Nat /\ objects[o].expires \in Nat
  BY DEF TypeOK, ObjectRow
<1>3. \A o \in DOMAIN objects : Expired(o) => Expired(o)'
  BY <1>1, <1>2 DEF Expired
<1>4. UploadInv'
  BY <1>1 DEF StoreInv, UploadInv
<1>5. WriteInv'
  <2>1. \A o \in Objects : puts[o] \in Nat
    BY DEF TypeOK
  <2> QED
    BY <1>1, <2>1 DEF StoreInv, WriteInv
<1>6. SweepInv'
  <2>1. Garbage \subseteq Garbage'
    BY <1>1, <1>2, <1>3 DEF Garbage
  <2> QED
    BY <1>1, <2>1 DEF StoreInv, SweepInv
<1>7. BlobInv'
  BY <1>1, <1>3 DEF StoreInv, BlobInv
<1> QED
  BY <1>4, <1>5, <1>6, <1>7 DEF StoreInv

LEMMA StoreStep ==
    ASSUME ~Detached, TypeOK, TablesInv, StoreInv, [Next]_vars
    PROVE  StoreInv'
\* A step that leaves rows, provider and sweep, and starts no upload.
<1>1. ASSUME UNCHANGED <<now, puts, blobs, sweep, objects>>,
             \A w \in Workers : jobs'[w].kind = "put" => jobs'[w] = jobs[w]
      PROVE  StoreInv'
  <2>1. \A o \in DOMAIN objects : GoesOn(o)
    BY <1>1 DEF GoesOn
  <2> QED
    BY <1>1, <2>1, RowsGoOn
<1>2. ASSUME NEW w \in Workers, Job(w)
      PROVE  StoreInv'
  <2>1. ASSUME NEW r \in Requests, Receive(w, r)
        PROVE  StoreInv'
    <3>1. UNCHANGED <<now, puts, blobs, sweep, objects>>
          /\ jobs' = [jobs EXCEPT ![w] = Enter("command", r, Body[r].space, Body[r].head)]
      BY <2>1 DEF Receive, rows
    <3>2. \A v \in Workers : jobs'[v].kind = "put" => jobs'[v] = jobs[v]
      BY <3>1 DEF TypeOK, Enter
    <3> QED
      BY <1>1, <3>1, <3>2
  <2>2. ASSUME NEW r \in Requests, NEW action \in Actions, Present(w, r, action)
        PROVE  StoreInv'
    <3>1. UNCHANGED <<now, puts, blobs, sweep, objects>>
          /\ jobs' = [jobs EXCEPT ![w] =
                        Enter(action, r, SpaceOf[tokens[r].object], tokens[r].head)]
      BY <2>2 DEF Present, rows
    <3>2. \A v \in Workers : jobs'[v].kind = "put" => jobs'[v] = jobs[v]
      BY <3>1 DEF TypeOK, Enter, Actions
    <3> QED
      BY <1>1, <3>1, <3>2
  <2>3. CASE GateObserve(w)
    <3>1. /\ UNCHANGED <<now, puts, blobs, sweep, objects>>
          /\ jobs[w].kind # "idle" /\ jobs[w].phase = "asked" /\ jobs[w] \in JobType
          /\ jobs' = Goto(w, "leased") \/ jobs' = [jobs EXCEPT ![w] = Idle]
      BY <2>3 DEF GateObserve, At, rows, TypeOK
    <3>2. \A v \in Workers : jobs'[v].kind = "put" => jobs'[v] = jobs[v]
      <4>1. jobs[w].kind # "put"
        BY <3>1, JobFacts
      <4>2. [jobs[w] EXCEPT !.phase = "leased"].kind = jobs[w].kind
        BY <3>1 DEF JobType, Idle
      <4>3. Goto(w, "leased") =
              [jobs EXCEPT ![w] = [jobs[w] EXCEPT !.phase = "leased"]]
        BY DEF Goto
      <4>4. PICK j : jobs' = [jobs EXCEPT ![w] = j] /\ j.kind # "put"
        BY <3>1, <4>1, <4>2, <4>3 DEF Idle
      <4> QED
        BY <4>4 DEF TypeOK
    <3> QED
      BY <1>1, <3>1, <3>2
  <2>4. CASE Abandon(w) \/ ClaimDownload(w)
    <3>1. UNCHANGED <<now, puts, blobs, sweep, objects>>
          /\ jobs' = [jobs EXCEPT ![w] = Idle]
      BY <2>4 DEF Abandon, ClaimDownload, rows
    <3>2. \A v \in Workers : jobs'[v].kind = "put" => jobs'[v] = jobs[v]
      BY <3>1 DEF TypeOK, Idle
    <3> QED
      BY <1>1, <3>1, <3>2
  <2>5. CASE Apply(w)
    <3> DEFINE r == jobs[w].req
    <3>1. /\ r \in Requests /\ Operate(r) /\ UNCHANGED <<now, puts, blobs, sweep>>
          /\ jobs' = [jobs EXCEPT ![w] = Idle]
      BY <2>5, ApplyFacts DEF TablesInv
    <3> HIDE DEF r
    <3>2. /\ \A o \in DOMAIN objects : GoesOn(o)
          /\ \A o \in DOMAIN objects' \ DOMAIN objects : objects'[o].state = "pending"
      BY <3>1, OperateRows
    <3>3. \A v \in Workers : jobs'[v].kind = "put" => jobs'[v] = jobs[v]
      BY <3>1 DEF TypeOK, Idle
    <3> QED
      BY <3>1, <3>2, <3>3, RowsGoOn
  <2>6. CASE ClaimUpload(w)
    BY <2>6, ClaimUploadStore
  <2>7. ASSUME NEW o \in Objects, StartPut(w, o) \/ UploadDone(w, o) \/ UploadFailed(w, o)
        PROVE  StoreInv'
    BY <2>7, StartPutStore, UploadEndsStore
  <2> QED
    BY <1>2, <2>1, <2>2, <2>3, <2>4, <2>5, <2>6, <2>7 DEF Job
<1>3. ASSUME NEW o \in Objects, NEW content \in {"right", "wrong"}, PutLands(o, content)
      PROVE  StoreInv'
  BY <1>3, PutLandsStore
<1>4. CASE Sweep \/ Restart \/ Tick
  BY <1>4, SweepStore, RestartStore, TickStore
<1>5. ASSUME NEW s \in Spaces, WitnessUpdate(s)
      PROVE  StoreInv'
  BY <1>1, <1>5 DEF WitnessUpdate, rows
<1>6. CASE WitnessOther \/ UNCHANGED vars
  BY <1>1, <1>6 DEF WitnessOther, vars, rows
<1> QED
  BY <1>2, <1>3, <1>4, <1>5, <1>6 DEF Next

-----------------------------------------------------------------------------
(* Authority that was withdrawn.                                            *)

LEMMA FloorStep ==
    ASSUME TypeOK, [Next]_vars
    PROVE  KeepsFloor
<1>1. ASSUME NEW w \in Workers, GateObserve(w)
      PROVE  KeepsFloor
  BY <1>1 DEF GateObserve, Observe, CheckWitness, KeepsFloor
<1>2. floor \in Nat
  BY DEF TypeOK
<1>3. ASSUME NEW w \in Workers, Job(w), ~GateObserve(w)
      PROVE  floor' = floor
  <2>1. CASE \E r \in Requests : Receive(w, r)
    BY <2>1 DEF Receive
  <2>2. CASE \E r \in Requests, action \in Actions : Present(w, r, action)
    BY <2>2 DEF Present
  <2>3. CASE Abandon(w) \/ Apply(w) \/ ClaimUpload(w) \/ ClaimDownload(w)
    BY <2>3 DEF Abandon, Apply, ClaimUpload, ClaimDownload
  <2>4. CASE \E o \in Objects : StartPut(w, o) \/ UploadDone(w, o) \/ UploadFailed(w, o)
    BY <2>4 DEF StartPut, UploadDone, UploadFailed
  <2> QED
    BY <1>3, <2>1, <2>2, <2>3, <2>4 DEF Job
<1>4. ASSUME Sweep
      PROVE  floor' = floor
  BY <1>4 DEF Sweep, SweepBegin, SweepErase, SweepSkip, SweepForget, SweepEnd
<1>5. ASSUME \/ \E o \in Objects, content \in {"right", "wrong"} : PutLands(o, content)
             \/ Restart
             \/ \E s \in Spaces : WitnessUpdate(s)
             \/ WitnessOther \/ Tick \/ UNCHANGED vars
      PROVE  floor' = floor
  BY <1>5 DEF PutLands, Restart, WitnessUpdate, WitnessOther, Tick, vars
<1>6. floor' = floor => KeepsFloor
  BY <1>2 DEF KeepsFloor
<1> QED
  BY <1>1, <1>3, <1>4, <1>5, <1>6 DEF Next

\* A lease that is still good was asked for after its configuration was superseded at most
\* LeaseLife ago.
LEMMA LeaseBounds ==
    ASSUME TypeOK, LeaseInv, NEW w \in Workers, At(w, "leased"), CheckWitness(jobs[w].lease)
    PROVE  ~Superseded(Body[jobs[w].req].space, Body[jobs[w].req].head)
<1>1. /\ jobs[w].lease \in Lease /\ jobs[w].space \in Spaces /\ jobs[w].head \in Heads
      /\ jobs[w].req \in Requests
  BY JobFacts DEF At
<1>2. /\ jobs[w].head = Body[jobs[w].req].head /\ jobs[w].space = Body[jobs[w].req].space
      /\ Knows(jobs[w].space, jobs[w].lease) /\ jobs[w].lease.head = jobs[w].head
  BY DEF LeaseInv, JobLease, Waits, At
<1>3. now < jobs[w].lease.at + LeaseLife
  BY DEF CheckWitness, IsValid
<1>4. /\ now \in Nat /\ LeaseLife \in Nat /\ jobs[w].lease.at \in Nat
      /\ retired[jobs[w].space][jobs[w].head] \in Nat
  <2>1. now \in Nat /\ retired \in [Spaces -> [Heads -> Nat]]
    BY DEF TypeOK
  <2>2. LeaseLife \in Nat
    BY BrokerAssumption
  <2>3. jobs[w].lease.at \in Nat
    BY <1>1 DEF Lease
  <2> QED
    BY <1>1, <2>1, <2>2, <2>3
<1>5. jobs[w].lease.at =< retired[jobs[w].space][jobs[w].head]
  BY <1>2 DEF Knows
<1>6. ~(retired[jobs[w].space][jobs[w].head] + LeaseLife =< now)
  BY <1>3, <1>4, <1>5
<1> QED
  BY <1>2, <1>6 DEF Superseded

\* Only a command that is applied and a token that is claimed count.
LEMMA WhatCounts ==
    ASSUME TypeOK, [Next]_vars
    PROVE  \/ applied' = applied /\ uses' = uses
           \/ \E w \in Workers : Apply(w) \/ ClaimUpload(w) \/ ClaimDownload(w)
<1>1. ASSUME NEW w \in Workers, Job(w)
      PROVE  \/ applied' = applied /\ uses' = uses
             \/ Apply(w) \/ ClaimUpload(w) \/ ClaimDownload(w)
  <2>1. CASE \E r \in Requests : Receive(w, r)
    BY <2>1 DEF Receive, history
  <2>2. CASE \E r \in Requests, action \in Actions : Present(w, r, action)
    BY <2>2 DEF Present, history
  <2>3. CASE GateObserve(w) \/ Abandon(w)
    BY <2>3 DEF GateObserve, Abandon, history
  <2>4. CASE \E o \in Objects : StartPut(w, o) \/ UploadDone(w, o) \/ UploadFailed(w, o)
    BY <2>4 DEF StartPut, UploadDone, UploadFailed, history
  <2> QED
    BY <1>1, <2>1, <2>2, <2>3, <2>4 DEF Job
<1>2. CASE Sweep
  BY <1>2 DEF Sweep, SweepBegin, SweepErase, SweepSkip, SweepForget, SweepEnd, history
<1>3. CASE \/ \E o \in Objects, content \in {"right", "wrong"} : PutLands(o, content)
           \/ Restart
           \/ \E s \in Spaces : WitnessUpdate(s)
           \/ WitnessOther \/ Tick \/ UNCHANGED vars
  BY <1>3 DEF PutLands, Restart, WitnessUpdate, WitnessOther, Tick, vars, history
<1> QED
  BY <1>1, <1>2, <1>3 DEF Next

LEMMA RevocationStep ==
    ASSUME TypeOK, TablesInv, LeaseInv, [Next]_vars
    PROVE  HonoursRevocation
<1>1. applied \in [Requests -> Nat] /\ uses \in [Requests -> Nat]
  BY DEF TypeOK
<1>2. CASE applied' = applied /\ uses' = uses
  BY <1>1, <1>2 DEF HonoursRevocation
<1>3. ASSUME NEW w \in Workers, Apply(w)
      PROVE  HonoursRevocation
  <2> DEFINE r == jobs[w].req
  <2>1. applied' = [applied EXCEPT ![r] = 1] /\ uses' = uses
    BY <1>3, ApplyFacts DEF TablesInv
  <2>2. ~Superseded(Body[r].space, Body[r].head)
    BY <1>3, LeaseBounds DEF Apply
  <2>3. \A q \in Requests : q # r => applied'[q] = applied[q]
    BY <1>1, <2>1
  <2> QED
    BY <1>1, <2>1, <2>2, <2>3 DEF HonoursRevocation
<1>4. ASSUME NEW w \in Workers, ClaimUpload(w) \/ ClaimDownload(w)
      PROVE  HonoursRevocation
  <2> DEFINE r == jobs[w].req
  <2>1. /\ uses' = [uses EXCEPT ![r] = @ + 1] /\ applied' = applied
        /\ At(w, "leased") /\ CheckWitness(jobs[w].lease) /\ r \in DOMAIN tokens
    BY <1>4 DEF ClaimUpload, ClaimDownload, TokenTarget
  <2>2. ~Superseded(Body[r].space, Body[r].head)
    BY <2>1, LeaseBounds
  <2>3. tokens[r].head = Body[r].head /\ SpaceOf[tokens[r].object] = Body[r].space
    <3>1. r \in Requests
      BY <2>1 DEF TypeOK
    <3> QED
      BY <2>1, <3>1, BodyFacts DEF TablesInv, TokensInv
  <2>4. \A q \in Requests : q # r => uses'[q] = uses[q]
    BY <1>1, <2>1
  <2> HIDE DEF r
  <2> QED
    BY <1>1, <2>1, <2>2, <2>3, <2>4 DEF HonoursRevocation
<1> QED
  BY <1>2, <1>3, <1>4, WhatCounts

LEMMA DisableStep ==
    ASSUME TypeOK, TablesInv, [Next]_vars
    PROVE  HonoursDisable
<1>1. ASSUME objects' = objects
      PROVE  HonoursDisable
  BY <1>1 DEF HonoursDisable
<1>2. ASSUME NEW w \in Workers, Job(w)
      PROVE  HonoursDisable
  <2>1. CASE \E r \in Requests : Receive(w, r)
    BY <1>1, <2>1 DEF Receive, rows
  <2>2. CASE \E r \in Requests, action \in Actions : Present(w, r, action)
    BY <1>1, <2>2 DEF Present, rows
  <2>3. CASE GateObserve(w) \/ Abandon(w) \/ ClaimDownload(w)
    BY <1>1, <2>3 DEF GateObserve, Abandon, ClaimDownload, rows
  <2>4. CASE Apply(w)
    <3> DEFINE r == jobs[w].req
    <3>1. r \in Requests /\ Operate(r) /\ now' = now
      BY <2>4, ApplyFacts DEF TablesInv
    <3> HIDE DEF r
    <3>2. \A o \in DOMAIN objects : GoesOn(o)
      BY <3>1, OperateRows
    <3> QED
      BY <3>2 DEF HonoursDisable, GoesOn
  <2>5. CASE ClaimUpload(w)
    <3> DEFINE r == jobs[w].req
               o == tokens[r].object
    <3>1. /\ r \in DOMAIN tokens /\ tokens[r].action = "upload"
          /\ \A p \in DOMAIN objects : p # o => objects'[p] = objects[p]
      BY <2>5 DEF ClaimUpload, TokenTarget
    <3>2. r \in Requests /\ settings[Body[r].space].enabled /\ o = Body[r].object
      BY <3>1 DEF TypeOK, TablesInv, TokensInv
    <3>3. settings[SpaceOf[o]].enabled
      BY <3>2, BodyFacts
    <3> QED
      BY <3>1, <3>3 DEF HonoursDisable
  <2>6. ASSUME NEW o \in Objects, StartPut(w, o)
        PROVE  HonoursDisable
    BY <1>1, <2>6 DEF StartPut, rows
  <2>7. ASSUME NEW o \in Objects, UploadDone(w, o) \/ UploadFailed(w, o)
        PROVE  HonoursDisable
    <3>1. PICK success \in BOOLEAN : objects' = Uploaded(o, success)
      BY <2>7 DEF UploadDone, UploadFailed
    <3>2. \A p \in DOMAIN objects :
            objects[p].state # "uploading" => objects'[p] = objects[p]
      BY <3>1, UploadedRows
    <3> QED
      BY <3>2 DEF HonoursDisable
  <2> QED
    BY <1>2, <2>1, <2>2, <2>3, <2>4, <2>5, <2>6, <2>7 DEF Job
<1>3. CASE Sweep
  <2>1. \A o \in DOMAIN objects' : o \in DOMAIN objects /\ objects'[o] = objects[o]
    <3>1. CASE SweepBegin \/ SweepEnd
      BY <3>1 DEF SweepBegin, SweepEnd, rows
    <3>2. CASE \E o \in Objects : SweepErase(o) \/ SweepSkip(o)
      BY <3>2 DEF SweepErase, SweepSkip, rows
    <3>3. CASE \E o \in Objects : SweepForget(o)
      BY <3>3 DEF SweepForget, Without
    <3> QED
      BY <1>3, <3>1, <3>2, <3>3 DEF Sweep
  <2> QED
    BY <2>1 DEF HonoursDisable
<1>4. CASE Restart
  <2>1. \A o \in DOMAIN objects : objects'[o].state # "uploading"
    BY <1>4 DEF Restart, TypeOK, ObjectRow
  <2> QED
    BY <2>1 DEF HonoursDisable
<1>5. CASE \/ \E o \in Objects, content \in {"right", "wrong"} : PutLands(o, content)
           \/ \E s \in Spaces : WitnessUpdate(s)
           \/ WitnessOther \/ Tick \/ UNCHANGED vars
  <2>1. objects' = objects
    BY <1>5 DEF PutLands, WitnessUpdate, WitnessOther, Tick, vars, rows
  <2> QED
    BY <1>1, <2>1
<1> QED
  BY <1>2, <1>3, <1>4, <1>5 DEF Next

-----------------------------------------------------------------------------
(* Theorems.                                                                *)

LEMMA StorageInit ==
    ASSUME Init
    PROVE  TypeOK /\ TablesInv /\ LeaseInv /\ StoreInv
<1>1. TypeOK
  BY TypeInit
<1>2. TablesInv
  BY DEF Init, TablesInv, OnceInv, TokensInv, SettingsInv, CredentialsKept, Empty
<1>3. LeaseInv
  BY BrokerAssumption DEF Init, LeaseInv, CacheLease, JobLease, Waits, Idle, Never
<1>4. StoreInv
  BY DEF Init, StoreInv, UploadInv, WriteInv, SweepInv, BlobInv, Resting, Idle, Empty
<1> QED
  BY <1>1, <1>2, <1>3, <1>4

\* Commands and tokens count once, rows have their credentials, and leases know what they
\* say, for any provider.
THEOREM StorageInvariant == Spec => [](TypeOK /\ TablesInv /\ LeaseInv)
<1>1. Init => TypeOK /\ TablesInv /\ LeaseInv
  BY StorageInit
<1>2. (TypeOK /\ TablesInv /\ LeaseInv) /\ [Next]_vars => (TypeOK /\ TablesInv /\ LeaseInv)'
  BY TypeStep, TablesStep, LeaseStep
<1> QED
  BY <1>1, <1>2, PTL DEF Spec

\* Authority that was withdrawn stays withdrawn: the persisted floor never goes back, no
\* command or transfer counts under a configuration superseded LeaseLife ago, and no upload
\* starts while storage is disabled (engine.rs, `check_witness`, `claim`, Disable).
THEOREM WithdrawalIsHonoured == Spec => WithdrawalHonoured
<1>1. (TypeOK /\ TablesInv /\ LeaseInv) /\ [Next]_vars =>
        [KeepsFloor /\ HonoursRevocation /\ HonoursDisable]_vars
  BY FloorStep, RevocationStep, DisableStep
<1> QED
  BY <1>1, StorageInvariant, PTL DEF Spec, WithdrawalHonoured

\* For a provider whose requests end with the upload that makes them: an upload has its
\* row to itself, what a sweep lists stays garbage, and nobody writes what it erases.
THEOREM StoreInvariant == ASSUME ~Detached PROVE Spec => []StoreInv
<1>1. Init => StoreInv
  BY StorageInit
<1>2. (TypeOK /\ TablesInv /\ LeaseInv) /\ StoreInv /\ [Next]_vars => StoreInv'
  BY StoreStep
<1> QED
  BY <1>1, <1>2, StorageInvariant, PTL DEF Spec

\* A row can be trusted: complete means stored until expiry, its credentials are kept, and
\* no command or token counted twice, through crashes, lost answers and pruned receipts.
THEOREM RowsAreSound == ASSUME ~Detached PROVE Spec => []RowsSound
<1>1. (TypeOK /\ TablesInv /\ LeaseInv) /\ StoreInv => RowsSound
  BY DEF TablesInv, OnceInv, SettingsInv, StoreInv, BlobInv, RowsSound, CompleteIsStored,
         AppliedOnce, TokensUsedOnce
<1> QED
  BY <1>1, StorageInvariant, StoreInvariant, PTL

\* Whatever the provider holds, or may still come to hold, has a row, so that a sweep can
\* find it (the busy_until lease of engine.rs).
THEOREM NothingIsOrphaned == ASSUME ~Detached PROVE Spec => []NoOrphans
<1>1. StoreInv => NoOrphans
  BY DEF StoreInv, BlobInv, WriteInv, NoOrphans
<1> QED
  BY <1>1, StoreInvariant, PTL
-----------------------------------------------------------------------------
(* The broker implements AttachmentLife.                                    *)

\* Lives and Writes are functions, before and after a step.
LEMMA LifeShape ==
    /\ Lives = [o \in Objects |-> Lives[o]] /\ Lives' = [o \in Objects |-> Lives'[o]]
    /\ Writes = [o \in Objects |-> Writes[o]] /\ Writes' = [o \in Objects |-> Writes'[o]]
    /\ \A o \in Objects : Writes[o] \in BOOLEAN /\ Writes'[o] \in BOOLEAN
<1>1. Lives = [o \in Objects |-> Lives[o]] /\ Lives' = [o \in Objects |-> Lives'[o]]
  BY DEF Lives, LifeOf, Expired
<1>2. Writes = [o \in Objects |-> Writes[o]] /\ Writes' = [o \in Objects |-> Writes'[o]]
  BY DEF Writes
<1>3. \A o \in Objects : Writes[o] \in BOOLEAN /\ Writes'[o] \in BOOLEAN
  BY DEF Writes
<1> QED
  BY <1>1, <1>2, <1>3

\* A step that AttachmentLife does not see.
LEMMA LifeKept ==
    ASSUME blobs' = blobs,
           \A o \in Objects : Lives'[o] = Lives[o] /\ Writes'[o] = Writes[o]
    PROVE  UNCHANGED Life!lifeVars
<1>1. Lives' = Lives
  BY LifeShape
<1>2. Writes' = Writes
  BY LifeShape
<1> QED
  BY <1>1, <1>2 DEF Life!lifeVars

\* A step that ends some attachments and some writes.
LEMMA LifeCloses ==
    ASSUME blobs' = blobs,
           \A o \in Objects :
             /\ \/ Lives'[o] = Lives[o]
                \/ Lives'[o] = "closing" /\ Lives[o] \in {"open", "readable"}
             /\ Writes'[o] => Writes[o]
    PROVE  Life!LifeNext
<1> DEFINE S == {o \in Objects : Lives'[o] # Lives[o]}
           T == {o \in Objects : ~Writes'[o]}
<1>1. S \in SUBSET Objects /\ T \in SUBSET Objects
  BY LifeShape
<1>2. Lives' =
        [o \in Objects |-> IF o \in S THEN "closing" ELSE Lives[o]]
  BY LifeShape
<1>3. Writes' =
        [o \in Objects |-> Writes[o] /\ o \notin T]
  BY LifeShape
<1>4. \A o \in S : Lives[o] \in {"open", "readable"}
  BY LifeShape
<1>5. Life!Close(S, T)
  <2> HIDE DEF S, T
  <2> QED
    BY <1>2, <1>3, <1>4 DEF Life!Close
<1> HIDE DEF S, T
<1> QED
  BY <1>1, <1>5 DEF Life!LifeNext

\* A step that takes one attachment on.
LEMMA LifeMoves ==
    ASSUME NEW o \in Objects, blobs' = blobs,
           \A p \in Objects : Writes'[p] = Writes[p],
           \A p \in Objects \ {o} : Lives'[p] = Lives[p],
           \/ Lives[o] = "absent" /\ Lives'[o] = "open"
           \/ /\ Lives[o] = "open" /\ Lives'[o] = "readable"
              /\ blobs[o] = "right" /\ ~Writes[o]
           \/ /\ Lives[o] = "closing" /\ Lives'[o] = "absent"
              /\ blobs[o] = "none" /\ ~Writes[o]
    PROVE  Life!LifeNext
<1>1. Writes' = Writes
  BY LifeShape
<1>2. Lives' = [Lives EXCEPT ![o] = Lives'[o]]
  BY LifeShape
<1>3. Life!Open(o) \/ Life!Publish(o) \/ Life!Forget(o)
  BY <1>1, <1>2 DEF Life!Open, Life!Publish, Life!Forget, Writes
<1> QED
  BY <1>3 DEF Life!LifeNext

\* A step that changes what the provider has, or may come to have.
LEMMA LifeWrites ==
    ASSUME NEW o \in Objects, \A p \in Objects : Lives'[p] = Lives[p],
           \/ /\ Lives[o] \in {"open", "closing"} /\ blobs' = blobs
              /\ Writes'[o] /\ \A p \in Objects \ {o} : Writes'[p] = Writes[p]
           \/ /\ Writes[o] /\ ~Writes'[o]
              /\ \A p \in Objects \ {o} : Writes'[p] = Writes[p]
              /\ \E bytes \in {"right", "wrong"} : blobs' = [blobs EXCEPT ![o] = bytes]
           \/ /\ Lives[o] = "closing" /\ ~Writes[o]
              /\ \A p \in Objects : Writes'[p] = Writes[p]
              /\ blobs' = [blobs EXCEPT ![o] = "none"]
    PROVE  Life!LifeNext
<1>1. Lives' = Lives
  BY LifeShape
<1>2. CASE /\ Lives[o] \in {"open", "closing"} /\ blobs' = blobs
           /\ Writes'[o] /\ \A p \in Objects \ {o} : Writes'[p] = Writes[p]
  <2>1. Writes' =
          [Writes EXCEPT ![o] = TRUE]
    BY <1>2, LifeShape
  <2>2. Life!Begin(o)
    BY <1>1, <1>2, <2>1 DEF Life!Begin
  <2> QED
    BY <2>2 DEF Life!LifeNext
<1>3. CASE /\ Writes[o] /\ ~Writes'[o]
           /\ \A p \in Objects \ {o} : Writes'[p] = Writes[p]
           /\ \E bytes \in {"right", "wrong"} : blobs' = [blobs EXCEPT ![o] = bytes]
  <2>1. Writes' =
          [Writes EXCEPT ![o] = FALSE]
    BY <1>3, LifeShape
  <2>2. PICK bytes \in {"right", "wrong"} : blobs' = [blobs EXCEPT ![o] = bytes]
    BY <1>3
  <2>3. Life!Land(o, bytes)
    BY <1>1, <1>3, <2>1, <2>2 DEF Life!Land, Writes
  <2> QED
    BY <2>3 DEF Life!LifeNext
<1>4. CASE /\ Lives[o] = "closing" /\ ~Writes[o]
           /\ \A p \in Objects : Writes'[p] = Writes[p]
           /\ blobs' = [blobs EXCEPT ![o] = "none"]
  <2>1. Writes' = Writes
    BY <1>4, LifeShape
  <2>2. Life!Erase(o)
    BY <1>1, <1>4, <2>1 DEF Life!Erase, Writes
  <2> QED
    BY <2>2 DEF Life!LifeNext
<1> QED
  BY <1>2, <1>3, <1>4
\* Rows that stay within a stage of their life, or end.
LEMMA LifeOfRows ==
    ASSUME UNCHANGED <<now, puts, blobs>>, DOMAIN objects' = DOMAIN objects,
           \A o \in DOMAIN objects :
             /\ objects'[o].expires = objects[o].expires
             /\ \/ objects'[o].state = objects[o].state
                \/ objects'[o].state = "deleting"
                \/ /\ objects[o].state \in {"pending", "uploading"}
                   /\ objects'[o].state \in {"uploading", "uploaded"}
    PROVE  Life!LifeNext
<1>1. \A o \in Objects :
        \/ Lives'[o] = Lives[o]
        \/ Lives'[o] = "closing" /\ Lives[o] \in {"open", "readable"}
  BY DEF Lives, LifeOf, Expired
<1>2. \A o \in Objects : Writes'[o] => Writes[o]
  BY DEF Writes
<1> QED
  BY <1>1, <1>2, LifeCloses

LEMMA ApplyLife ==
    ASSUME TypeOK, TablesInv, StoreInv, NEW r \in Requests, Operate(r),
           UNCHANGED <<now, puts, blobs>>
    PROVE  [Life!LifeNext]_(Life!lifeVars)
<1> DEFINE o == Body[r].object
<1>0. o \in Objects
  BY BodyFacts
<1>1. Writes' = Writes
  BY DEF Writes
<1>2. CASE Status(r) \/ Configure(r) \/ Policy(r) \/ Disable(r) \/ Download(r)
  <2>1. objects' = objects
    BY <1>2 DEF Status, Configure, Policy, Disable, Download
  <2>2. UNCHANGED Life!lifeVars
    BY <1>1, <2>1 DEF Life!lifeVars, Lives, LifeOf, Expired
  <2> QED
    BY <2>2
<1>3. CASE Reserve(r)
  <2>1. /\ o \notin DOMAIN objects
        /\ DOMAIN objects' = DOMAIN objects \cup {o}
        /\ objects'[o].state = "pending"
        /\ objects'[o].expires = now + settings[Body[r].space].hours
        /\ \A p \in DOMAIN objects : objects'[p] = objects[p]
        /\ settings[Body[r].space].enabled
    BY <1>3 DEF Reserve, Put, HasRow
  <2>2. /\ now \in Nat /\ settings[Body[r].space].hours \in Nat
        /\ settings[Body[r].space].hours # 0
    BY <2>1, BodyFacts DEF TypeOK, TablesInv, SettingsInv
  <2>3. ~(objects'[o].expires =< now')
    BY <2>1, <2>2
  <2>4. Lives[o] = "absent" /\ Lives'[o] = "open"
    BY <1>0, <2>1, <2>3 DEF Lives, LifeOf, Expired
  <2>5. \A p \in Objects \ {o} : Lives'[p] = Lives[p]
    BY <2>1 DEF Lives, LifeOf, Expired
  <2> HIDE DEF o
  <2> QED
    BY <1>0, <1>1, <2>4, <2>5, LifeMoves
<1>4. CASE Complete(r)
  <2>1. /\ DOMAIN objects' = DOMAIN objects
        /\ \A p \in DOMAIN objects : p # o => objects'[p] = objects[p]
    BY <1>4 DEF Complete
  <2>2. /\ o \in DOMAIN objects /\ ~Expired(o)
        /\ objects[o].state \in {"uploaded", "complete"}
        /\ objects'[o].state = "complete"
        /\ objects'[o].expires = objects[o].expires
    BY <1>4 DEF Complete, Row, HasRow, TypeOK, ObjectRow
  <2>3. \A p \in Objects \ {o} : Lives'[p] = Lives[p]
    BY <2>1 DEF Lives, LifeOf, Expired
  <2>4. Lives'[o] = "readable"
    BY <1>0, <2>1, <2>2 DEF Lives, LifeOf, Expired
  <2>5. CASE objects[o].state = "complete"
    <3>1. Lives[o] = "readable"
      BY <1>0, <2>2, <2>5 DEF Lives, LifeOf
    <3>2. UNCHANGED Life!lifeVars
      <4> HIDE DEF o
      <4> QED
        BY <1>1, <2>3, <2>4, <3>1, LifeKept
    <3> QED
      BY <3>2
  <2>6. CASE objects[o].state = "uploaded"
    <3>1. Lives[o] = "open"
      BY <1>0, <2>2, <2>6 DEF Lives, LifeOf
    <3>2. blobs[o] = "right"
      BY <2>2, <2>6 DEF StoreInv, BlobInv
    <3>3. ~Writes[o]
      BY <1>0, <2>6 DEF StoreInv, WriteInv, Writes
    <3> HIDE DEF o
    <3> QED
      BY <1>0, <1>1, <2>3, <2>4, <3>1, <3>2, <3>3, LifeMoves
  <2> QED
    BY <2>2, <2>5, <2>6
<1>5. CASE Cancel(r)
  <2>1. /\ DOMAIN objects' = DOMAIN objects
        /\ \A p \in DOMAIN objects : p # o => objects'[p] = objects[p]
    BY <1>5 DEF Cancel
  <2>2. /\ o \in DOMAIN objects
        /\ objects'[o].state = "deleting"
        /\ objects'[o].expires = objects[o].expires
    BY <1>5 DEF Cancel, Row, HasRow, TypeOK, ObjectRow
  <2> HIDE DEF o
  <2> QED
    BY <2>1, <2>2, LifeOfRows
<1> QED
  BY <1>2, <1>3, <1>4, <1>5, Operated

LEMMA UploadLife ==
    ASSUME ~Detached, TypeOK, StoreInv, NEW w \in Workers, NEW o \in Objects,
           ClaimUpload(w) \/ StartPut(w, o) \/ UploadDone(w, o) \/ UploadFailed(w, o)
    PROVE  [Life!LifeNext]_(Life!lifeVars)
<1>1. CASE ClaimUpload(w)
  <2> DEFINE p == tokens[jobs[w].req].object
  <2>1. /\ UNCHANGED <<now, puts, blobs>> /\ p \in DOMAIN objects
        /\ objects[p].state = "pending"
        /\ objects' = [objects EXCEPT ![p].state = "uploading", ![p].busy = now + BusyLife]
    BY <1>1 DEF ClaimUpload
  <2>2. /\ DOMAIN objects' = DOMAIN objects
        /\ \A q \in DOMAIN objects : q # p => objects'[q] = objects[q]
        /\ objects'[p].state = "uploading" /\ objects'[p].expires = objects[p].expires
    BY <2>1 DEF TypeOK, ObjectRow
  <2> HIDE DEF p
  <2> QED
    BY <2>1, <2>2, LifeOfRows
<1>2. CASE StartPut(w, o)
  <2>1. /\ UNCHANGED <<now, blobs, objects>> /\ At(w, "opening") /\ jobs[w].object = o
        /\ now < jobs[w].at + PutLife
        /\ puts' = [puts EXCEPT ![o] = jobs[w].at + PutLife]
    BY <1>2 DEF StartPut, PutDeadline, rows
  <2>2. jobs[w].kind = "put"
    BY <2>1, JobFacts DEF At
  <2>3. o \in DOMAIN objects /\ objects[o].state = "uploading"
    BY <2>1, <2>2 DEF StoreInv, UploadInv
  <2>4. Lives[o] \in {"open", "closing"}
    BY <2>3 DEF Lives, LifeOf
  <2>5. \A q \in Objects : Lives'[q] = Lives[q]
    BY <2>1 DEF Lives, LifeOf, Expired
  <2>6. Writes'[o] /\ \A q \in Objects \ {o} : Writes'[q] = Writes[q]
    BY <2>1 DEF Writes, TypeOK
  <2> QED
    BY <2>1, <2>4, <2>5, <2>6, LifeWrites
<1>3. CASE UploadDone(w, o) \/ UploadFailed(w, o)
  <2>1. PICK success \in BOOLEAN :
          UNCHANGED <<now, puts, blobs>> /\ objects' = Uploaded(o, success)
    BY <1>3 DEF UploadDone, UploadFailed
  <2>2. /\ DOMAIN objects' = DOMAIN objects
        /\ \A q \in DOMAIN objects : q # o => objects'[q] = objects[q]
    BY <2>1 DEF Uploaded
  <2>3. o \in DOMAIN objects =>
          /\ objects'[o].expires = objects[o].expires
          /\ \/ objects'[o].state = objects[o].state
             \/ objects'[o].state = "deleting"
             \/ objects[o].state = "uploading" /\ objects'[o].state = "uploaded"
    BY <2>1 DEF Uploaded, TypeOK, ObjectRow
  <2> QED
    BY <2>1, <2>2, <2>3, LifeOfRows
<1> QED
  BY <1>1, <1>2, <1>3

LEMMA SweepLife ==
    ASSUME TypeOK, StoreInv, Sweep
    PROVE  [Life!LifeNext]_(Life!lifeVars)
<1>1. ASSUME UNCHANGED <<now, puts, blobs, objects>>
      PROVE  UNCHANGED Life!lifeVars
  BY <1>1 DEF Life!lifeVars, Lives, LifeOf, Expired, Writes
<1>2. ASSUME NEW o \in Objects, SweepErase(o)
      PROVE  Life!LifeNext
  <2>1. /\ UNCHANGED <<now, puts, objects>> /\ blobs' = [blobs EXCEPT ![o] = "none"]
        /\ o \in Garbage
    BY <1>2 DEF SweepErase, rows, StoreInv, SweepInv
  <2>2. Lives[o] = "closing"
    BY <2>1 DEF Garbage, Lives, LifeOf
  <2>3. ~Writes[o]
    BY <2>1, GarbageIsQuiet DEF Writes, StoreInv
  <2>4. \A q \in Objects : Lives'[q] = Lives[q] /\ Writes'[q] = Writes[q]
    BY <2>1 DEF Lives, LifeOf, Expired, Writes
  <2> QED
    BY <2>1, <2>2, <2>3, <2>4, LifeWrites
<1>3. ASSUME NEW o \in Objects, SweepForget(o)
      PROVE  Life!LifeNext
  <2>1. /\ UNCHANGED <<now, puts, blobs>> /\ o \in Garbage /\ blobs[o] = "none"
    BY <1>3 DEF SweepForget, StoreInv, SweepInv
  <2>2. o \in DOMAIN objects /\ objects[o].state # "uploading" /\ Lives[o] = "closing"
    BY <2>1 DEF Garbage, Lives, LifeOf
  <2>3. /\ DOMAIN objects' = DOMAIN objects \ {o}
        /\ \A q \in DOMAIN objects' : objects'[q] = objects[q]
    BY <1>3, <2>2 DEF SweepForget, Without
  <2>4. Lives'[o] = "absent" /\ \A q \in Objects \ {o} : Lives'[q] = Lives[q]
    BY <2>1, <2>3 DEF Lives, LifeOf, Expired
  <2>5. ~Writes[o]
    BY <2>1, GarbageIsQuiet DEF Writes, StoreInv
  <2>6. \A q \in Objects : Writes'[q] = Writes[q]
    BY <2>1 DEF Writes
  <2> QED
    BY <2>1, <2>2, <2>4, <2>5, <2>6, LifeMoves
<1>4. CASE SweepBegin \/ SweepEnd \/ \E o \in Objects : SweepSkip(o)
  <2>1. UNCHANGED <<now, puts, blobs, objects>>
    BY <1>4 DEF SweepBegin, SweepEnd, SweepSkip, rows
  <2> QED
    BY <1>1, <2>1
<1> QED
  BY <1>2, <1>3, <1>4 DEF Sweep

LEMMA LifeStep ==
    ASSUME ~Detached, TypeOK, TablesInv, StoreInv, [Next]_vars
    PROVE  [Life!LifeNext]_(Life!lifeVars)
<1>1. ASSUME UNCHANGED <<now, puts, blobs, objects>>
      PROVE  UNCHANGED Life!lifeVars
  BY <1>1 DEF Life!lifeVars, Lives, LifeOf, Expired, Writes
<1>2. ASSUME NEW w \in Workers, Job(w)
      PROVE  [Life!LifeNext]_(Life!lifeVars)
  <2>1. CASE \/ \E r \in Requests : Receive(w, r)
             \/ \E r \in Requests, action \in Actions : Present(w, r, action)
             \/ GateObserve(w) \/ Abandon(w) \/ ClaimDownload(w)
    <3>1. UNCHANGED <<now, puts, blobs, objects>>
      BY <2>1 DEF Receive, Present, GateObserve, Abandon, ClaimDownload, rows
    <3> QED
      BY <1>1, <3>1
  <2>2. CASE Apply(w)
    <3>1. jobs[w].req \in Requests /\ Operate(jobs[w].req) /\ UNCHANGED <<now, puts, blobs>>
      BY <2>2, ApplyFacts DEF TablesInv
    <3> QED
      BY <3>1, ApplyLife
  <2>3. CASE ClaimUpload(w)
    <3>1. jobs[w].req \in DOMAIN tokens
      BY <2>3 DEF ClaimUpload, TokenTarget
    <3>2. tokens[jobs[w].req].object \in Objects
      BY <3>1 DEF TypeOK, TokenRow
    <3> QED
      BY <2>3, <3>2, UploadLife
  <2>4. CASE \E o \in Objects : StartPut(w, o) \/ UploadDone(w, o) \/ UploadFailed(w, o)
    BY <2>4, UploadLife
  <2> QED
    BY <1>2, <2>1, <2>2, <2>3, <2>4 DEF Job
<1>3. ASSUME NEW o \in Objects, NEW content \in {"right", "wrong"}, PutLands(o, content)
      PROVE  Life!LifeNext
  <2>1. /\ UNCHANGED <<now, objects>> /\ now < puts[o]
        /\ blobs' = [blobs EXCEPT ![o] = content] /\ puts' = [puts EXCEPT ![o] = 0]
        /\ now \in Nat
    BY <1>3 DEF PutLands, rows, TypeOK
  <2>2. \A q \in Objects : Lives'[q] = Lives[q]
    BY <2>1 DEF Lives, LifeOf, Expired
  <2>3. /\ now < puts[o] /\ ~(now' < puts'[o])
        /\ \A q \in Objects \ {o} : puts'[q] = puts[q]
    BY <2>1 DEF TypeOK
  <2>4. Writes[o] /\ ~Writes'[o]
    BY <2>3 DEF Writes
  <2>5. \A q \in Objects \ {o} : Writes'[q] = Writes[q]
    BY <2>1, <2>3 DEF Writes
  <2> QED
    BY <2>1, <2>2, <2>4, <2>5, LifeWrites
<1>4. CASE Restart
  <2>1. /\ UNCHANGED <<now, puts, blobs>> /\ DOMAIN objects' = DOMAIN objects
        /\ \A o \in DOMAIN objects :
             /\ objects'[o].expires = objects[o].expires
             /\ objects'[o].state = objects[o].state \/ objects'[o].state = "deleting"
    BY <1>4 DEF Restart, TypeOK, ObjectRow
  <2> QED
    BY <2>1, LifeOfRows
<1>5. CASE Tick
  <2>1. now' = now + 1 /\ now \in Nat /\ UNCHANGED <<objects, puts, blobs>>
    BY <1>5 DEF Tick, rows, TypeOK
  <2>2. /\ \A o \in DOMAIN objects : objects[o].expires \in Nat
        /\ \A o \in Objects : puts[o] \in Nat
    BY DEF TypeOK, ObjectRow
  <2>3. \A o \in Objects :
          \/ Lives'[o] = Lives[o]
          \/ Lives'[o] = "closing" /\ Lives[o] \in {"open", "readable"}
    BY <2>1, <2>2 DEF Lives, LifeOf, Expired
  <2>4. \A o \in Objects : now' < puts'[o] => now < puts[o]
    BY <2>1, <2>2
  <2>5. \A o \in Objects : Writes'[o] => Writes[o]
    BY <2>4 DEF Writes
  <2> QED
    BY <2>1, <2>3, <2>5, LifeCloses
<1>6. CASE (\E s \in Spaces : WitnessUpdate(s)) \/ WitnessOther \/ UNCHANGED vars
  <2>1. UNCHANGED <<now, puts, blobs, objects>>
    BY <1>6 DEF WitnessUpdate, WitnessOther, vars, rows
  <2> QED
    BY <1>1, <2>1
<1> QED
  BY <1>2, <1>3, <1>4, <1>5, <1>6, SweepLife DEF Next

\* The broker keeps AttachmentLife's promise, for a provider whose requests end with the
\* upload that makes them: every step of commands, transfers, sweeps, crashes and the
\* clock is a step in the life of an attachment, or none (engine.rs, server.rs).
THEOREM BrokerImplementsLife == ASSUME ~Detached PROVE Spec => ImplementsLife
<1>1. Init => Life!LifeInit
  <2> SUFFICES ASSUME Init PROVE Life!LifeInit
    OBVIOUS
  <2>1. DOMAIN objects = {} /\ now = 0 /\ \A o \in Objects : puts[o] = 0
    BY DEF Init, Empty
  <2>2. Lives = [o \in Objects |-> "absent"]
    BY <2>1 DEF Lives, LifeOf
  <2>3. \A o \in Objects : (now < puts[o]) = FALSE
    BY <2>1
  <2>4. Writes = [o \in Objects |-> FALSE]
    BY <2>3 DEF Writes
  <2> QED
    BY <2>2, <2>4 DEF Life!LifeInit, Init
<1>2. (TypeOK /\ TablesInv /\ LeaseInv) /\ StoreInv /\ [Next]_vars =>
        [Life!LifeNext]_(Life!lifeVars)
  BY LifeStep
<1> QED
  BY <1>1, <1>2, StorageInvariant, StoreInvariant, PTL
     DEF Spec, ImplementsLife, Life!LifeSpec
=============================================================================
