---------------------------- MODULE WitnessProofs ----------------------------
(***************************************************************************)
(* Safety of the authorization witness for every number of Spaces,         *)
(* devices, invitations, commands and ticks.                               *)
(***************************************************************************)
EXTENDS Witness, FiniteSetTheorems, TLAPS

-----------------------------------------------------------------------------
(* Types of the records that commands write.                                *)

LEMMA GenesisType == GenesisConfig \in ConfigRecord
BY CredAssumption
DEF GenesisConfig, ConfigRecord, MemberRecord, NotMember, OwnerCaps,
    Capability, EvidenceRecord

LEMMA ProposalType ==
    ASSUME NEW c \in Proposals
    PROVE  c \in ConfigRecord /\ c.ev.kind = "proposal"
<1>1. PICK roster \in Rosters, caps \in [Identities -> CapSets], cred \in Creds :
        c = [members |-> [i \in Identities |->
                            LET creds == {d \in roster : IdentityOf[d] = i}
                            IN IF creds = {} THEN NotMember
                               ELSE [caps |-> caps[i], creds |-> creds]],
             controller |-> cred,
             ev |-> [kind |-> "proposal"]]
  BY DEF Proposals
<1>2. roster \subseteq Creds /\ \A i \in Identities : caps[i] \in SUBSET Capability
  BY CredAssumption
<1>3. NotMember \in MemberRecord
  BY DEF NotMember, MemberRecord
<1>4. c.members \in [Identities -> MemberRecord]
  BY <1>1, <1>2, <1>3 DEF MemberRecord
<1>5. c.ev \in EvidenceRecord /\ c.ev.kind = "proposal"
  BY <1>1 DEF EvidenceRecord
<1> QED
  BY <1>1, <1>4, <1>5 DEF ConfigRecord

LEMMA TipType ==
    ASSUME NEW chain \in Seq(ConfigRecord), chain # <<>>
    PROVE  /\ Tip(chain) \in ConfigRecord
           /\ Len(chain) \in Nat \ {0}
           /\ Tip(chain) = chain[Len(chain)]
BY DEF Tip

LEMMA CredsOfConfig ==
    ASSUME NEW c \in ConfigRecord
    PROVE  MemberCreds(c) \subseteq Creds /\ OwnerCreds(c) \subseteq Creds
<1>1. \A i \in Identities : c.members[i].creds \in SUBSET Creds
  BY DEF ConfigRecord, MemberRecord
<1> QED
  BY <1>1 DEF MemberCreds, OwnerCreds, Managers

\* What Append adds to a history.
LEMMA AppendFacts ==
    ASSUME NEW chain \in Seq(ConfigRecord), NEW c \in ConfigRecord,
           NEW longer, longer = Append(chain, c)
    PROVE  /\ longer \in Seq(ConfigRecord)
           /\ Len(longer) = Len(chain) + 1
           /\ DOMAIN longer = 1..(Len(chain) + 1)
           /\ \A k \in 1..Len(chain) : longer[k] = chain[k]
           /\ longer[Len(chain) + 1] = c
           /\ Tip(longer) = c
BY DEF Tip

LEMMA AdmissionType ==
    ASSUME NEW chain \in Seq(ConfigRecord), chain # <<>>,
           now \in Nat,
           NEW p \in PolicyIds, NEW cred \in Creds, NEW id \in Nat,
           NEW request \in Nat \cup RequestIds,
           NEW approval \in Approvals(chain)
    PROVE  /\ AdmissionConfig(chain, p, cred, id, request, approval) \in ConfigRecord
           /\ AdmissionConfig(chain, p, cred, id, request, approval).ev.kind = "admission"
<1> DEFINE i == IdentityOf[cred]
           parent == Tip(chain)
           caps == IF parent.members[i].creds = {} THEN ReaderCaps
                                                   ELSE parent.members[i].caps
           m == [parent.members EXCEPT ![i] =
                       [caps |-> caps, creds |-> @.creds \cup {cred}]]
           ev == [kind |-> "admission", policy |-> p, cred |-> cred,
                  challenge |-> id, request |-> request,
                  approval |-> approval, at |-> now]
<1>1. parent \in ConfigRecord /\ i \in Identities
  BY TipType, CredAssumption
<1>2. caps \in SUBSET Capability
  BY <1>1 DEF ConfigRecord, MemberRecord, ReaderCaps, Capability
<1>3. m \in [Identities -> MemberRecord] /\ parent.controller \in Creds
  BY <1>1, <1>2 DEF ConfigRecord, MemberRecord
<1>4. approval \in ApprovalRecord \cup {NoOne}
  BY DEF Approvals, ApprovalRecord
<1>5. ev \in EvidenceRecord
  BY <1>4 DEF EvidenceRecord
<1> QED
  BY <1>3, <1>5 DEF AdmissionConfig, ConfigRecord

-----------------------------------------------------------------------------
(* Type correctness.                                                        *)

\* Pruning drops challenge rows and touches nothing else.
LEMMA PrunedFacts ==
    ASSUME NEW t \in Tables
    PROVE  /\ Pruned(t) \in Tables
           /\ Pruned(t).chain = t.chain
           /\ Pruned(t).policies = t.policies
           /\ Pruned(t).tombstones = t.tombstones
           /\ Pruned(t).challenges \subseteq t.challenges
           /\ \A ch \in t.challenges : ch.intent # NoOne => ch \in Pruned(t).challenges
BY DEF Pruned, Tables

LEMMA WithChainFacts ==
    ASSUME NEW t \in Tables, NEW c \in ConfigRecord
    PROVE  /\ WithChain(t, c) \in Tables
           /\ WithChain(t, c).chain = Append(t.chain, c)
           /\ WithChain(t, c).policies = t.policies
           /\ WithChain(t, c).tombstones = t.tombstones
           /\ WithChain(t, c).challenges = t.challenges
<1>1. t.chain \in Seq(ConfigRecord)
  BY DEF Tables
<1>2. Append(t.chain, c) \in Seq(ConfigRecord)
  BY <1>1
<1> DEFINE longer == Append(t.chain, c)
<1> HIDE DEF longer
<1>3. [t EXCEPT !.chain = longer] \in Tables
  BY <1>2 DEF Tables, longer
<1>4. WithChain(t, c) = [t EXCEPT !.chain = longer]
  BY DEF WithChain, longer
<1> QED
  BY <1>3, <1>4 DEF Tables, longer

\* One transaction replaces the rows of its Space and keeps the others.
LEMMA CommitFacts ==
    ASSUME TypeOK, NEW s \in Spaces, NEW tables \in Tables, NEW reduction \in BOOLEAN,
           Commit(s, tables, reduction)
    PROVE  /\ TypeOK'
           /\ db'[s] = tables /\ digest'[s] = tables
           /\ \A x \in Spaces \ {s} : db'[x] = db[x] /\ digest'[x] = digest[x]
<1>1. /\ db' = [db EXCEPT ![s] = tables]
      /\ digest' = [digest EXCEPT ![s] = tables]
      /\ usage' = [usage EXCEPT ![s] = @ + 1]
      /\ position' = position + 1
      /\ now' = now
  BY DEF Commit
<1>2. /\ db \in [Spaces -> Tables] /\ digest \in [Spaces -> Tables]
      /\ usage \in [Spaces -> Nat] /\ position \in Nat /\ now \in Nat
  BY DEF TypeOK
<1>3. db' \in [Spaces -> Tables] /\ digest' \in [Spaces -> Tables]
  BY <1>1, <1>2
<1>4. usage' \in [Spaces -> Nat] /\ position' \in Nat /\ now' \in Nat
  BY <1>1, <1>2
<1>5. TypeOK'
  BY <1>3, <1>4 DEF TypeOK
<1>6. /\ db'[s] = tables /\ digest'[s] = tables
      /\ \A x \in Spaces \ {s} : db'[x] = db[x] /\ digest'[x] = digest[x]
  BY <1>1, <1>2
<1> QED
  BY <1>5, <1>6

LEMMA ConsumeFacts ==
    ASSUME NEW t \in Tables, NEW ch \in ChallengeRow, NEW request \in Nat \cup RequestIds
    PROVE  /\ Consume(t, ch, request) \in Tables
           /\ Consume(t, ch, request).chain = t.chain
           /\ Consume(t, ch, request).tombstones = t.tombstones
           /\ Consume(t, ch, request).challenges
                = (t.challenges \ {ch}) \cup {[ch EXCEPT !.intent = request]}
           /\ \A p \in PolicyIds \ {ch.policy} :
                Consume(t, ch, request).policies[p] = t.policies[p]
           /\ Consume(t, ch, request).policies[ch.policy]
                = [t.policies[ch.policy] EXCEPT !.uses = @ + 1]
<1>1. [ch EXCEPT !.intent = request] \in ChallengeRow /\ ch.policy \in PolicyIds
  BY DEF ChallengeRow
<1>2. [t.policies[ch.policy] EXCEPT !.uses = @ + 1] \in PolicyRow
  <2>1. t.policies[ch.policy] \in PolicyRow
    BY <1>1 DEF Tables
  <2> QED
    BY <2>1 DEF PolicyRow
<1> DEFINE rows == (t.challenges \ {ch}) \cup {[ch EXCEPT !.intent = request]}
           row == [t.policies[ch.policy] EXCEPT !.uses = @ + 1]
           policies == [t.policies EXCEPT ![ch.policy] = row]
<1>3. Consume(t, ch, request)
        = [chain |-> t.chain, policies |-> policies,
           challenges |-> rows, tombstones |-> t.tombstones]
  <2>1. Consume(t, ch, request)
          = [[t EXCEPT !.challenges = rows] EXCEPT !.policies = policies]
    BY <1>1, Zenon DEF Consume
  <2> QED
    BY <2>1 DEF Tables
<1>4. rows \in SUBSET ChallengeRow
  BY <1>1 DEF Tables
<1>5. /\ policies \in [PolicyIds -> PolicyRow]
      /\ policies[ch.policy] = row
      /\ \A p \in PolicyIds \ {ch.policy} : policies[p] = t.policies[p]
  BY <1>1, <1>2 DEF Tables
<1> HIDE DEF rows, row, policies
<1>6. t.chain \in Seq(ConfigRecord) /\ t.tombstones \in SUBSET Creds
  BY DEF Tables
<1>7. Consume(t, ch, request) \in Tables
  BY <1>3, <1>4, <1>5, <1>6 DEF Tables
<1> QED
  BY <1>3, <1>5, <1>7 DEF rows, row

\* A registered Space has a history, and pruning keeps the tables typed.
LEMMA LoadedFacts ==
    ASSUME TypeOK, NEW s \in Spaces
    PROVE  /\ db[s] \in Tables
           /\ Pruned(db[s]) \in Tables
           /\ Loaded(s) => db[s].chain # <<>>
BY PrunedFacts DEF TypeOK, Loaded, Registered

\* What a registration writes.
LEMMA RegisterFacts ==
    ASSUME TypeOK, NEW s \in Spaces, Register(s)
    PROVE  /\ WithChain(Pruned(db[s]), GenesisConfig) \in Tables
           /\ Commit(s, WithChain(Pruned(db[s]), GenesisConfig), FALSE)
           /\ db[s].chain = <<>>
BY LoadedFacts, WithChainFacts, GenesisType DEF Register, Registered

\* What registering an invitation writes: one new row.
InvitationEffect(s, p, cred, h, tables) ==
    /\ Commit(s, tables, FALSE)
    /\ tables.chain = db[s].chain
    /\ tables.tombstones = db[s].tombstones
    /\ tables.challenges = Pruned(db[s]).challenges
    /\ db[s].policies[p].state = "none"
    /\ tables.policies[p] = [state |-> "active", issuer |-> cred, head |-> h, uses |-> 0]
    /\ \A q \in PolicyIds \ {p} : tables.policies[q] = db[s].policies[q]

LEMMA RegisterInvitationFacts ==
    ASSUME TypeOK, NEW s \in Spaces, NEW p \in PolicyIds, NEW cred \in Creds,
           NEW h \in 1..Len(db[s].chain), RegisterInvitation(s, p, cred, h)
    PROVE  \E tables \in Tables : InvitationEffect(s, p, cred, h, tables)
<1> DEFINE t == Pruned(db[s])
           row == [state |-> "active", issuer |-> cred, head |-> h, uses |-> 0]
           tables == [t EXCEPT !.policies[p] = row]
<1>1. t \in Tables /\ db[s] \in Tables /\ t.policies = db[s].policies
      /\ t.chain = db[s].chain /\ t.tombstones = db[s].tombstones
  BY LoadedFacts, PrunedFacts
<1>2. row \in PolicyRow
  <2>1. h \in Nat
    BY <1>1 DEF Tables
  <2> QED
    BY <2>1 DEF PolicyRow
<1>3. t.policies[p].state = "none" /\ Commit(s, tables, FALSE)
  BY Zenon DEF RegisterInvitation
<1> HIDE DEF t, row
<1> DEFINE policies == [t.policies EXCEPT ![p] = row]
<1>4. tables = [t EXCEPT !.policies = policies]
  OBVIOUS
<1>5. /\ policies \in [PolicyIds -> PolicyRow] /\ policies[p] = row
      /\ \A q \in PolicyIds \ {p} : policies[q] = t.policies[q]
  BY <1>1, <1>2 DEF Tables
<1> HIDE DEF policies
<1>6. /\ tables \in Tables /\ tables.policies = policies /\ tables.chain = t.chain
      /\ tables.tombstones = t.tombstones /\ tables.challenges = t.challenges
  BY <1>1, <1>4, <1>5 DEF Tables
<1> HIDE DEF tables
<1> QED
  BY <1>1, <1>3, <1>5, <1>6 DEF row, t, InvitationEffect

\* What a revocation writes: the state of one row.
RevocationEffect(s, p, tables) ==
    /\ Commit(s, tables, TRUE)
    /\ tables.chain = db[s].chain
    /\ tables.tombstones = db[s].tombstones
    /\ tables.challenges = Pruned(db[s]).challenges
    /\ db[s].policies[p].state = "active"
    /\ tables.policies[p] = [db[s].policies[p] EXCEPT !.state = "revoked"]
    /\ \A q \in PolicyIds \ {p} : tables.policies[q] = db[s].policies[q]

LEMMA RevokeInvitationFacts ==
    ASSUME TypeOK, NEW s \in Spaces, NEW p \in PolicyIds, NEW cred \in Creds,
           RevokeInvitation(s, p, cred)
    PROVE  \E tables \in Tables : RevocationEffect(s, p, tables)
<1> DEFINE t == Pruned(db[s])
           row == [t.policies[p] EXCEPT !.state = "revoked"]
           tables == [t EXCEPT !.policies[p].state = "revoked"]
<1>1. t \in Tables /\ db[s] \in Tables /\ t.policies = db[s].policies
      /\ t.chain = db[s].chain /\ t.tombstones = db[s].tombstones
  BY LoadedFacts, PrunedFacts
<1>2. row \in PolicyRow
  <2>1. t.policies[p] \in PolicyRow
    BY <1>1 DEF Tables
  <2> QED
    BY <2>1 DEF PolicyRow
<1>3. t.policies[p].state = "active" /\ Commit(s, tables, TRUE)
  BY Zenon DEF RevokeInvitation
<1> HIDE DEF t
<1> DEFINE policies == [t.policies EXCEPT ![p] = row]
<1>4. tables = [t EXCEPT !.policies = policies]
  OBVIOUS
<1> HIDE DEF row
<1>5. /\ policies \in [PolicyIds -> PolicyRow] /\ policies[p] = row
      /\ \A q \in PolicyIds \ {p} : policies[q] = t.policies[q]
  BY <1>1, <1>2 DEF Tables
<1> HIDE DEF policies
<1>6. /\ tables \in Tables /\ tables.policies = policies /\ tables.chain = t.chain
      /\ tables.tombstones = t.tombstones /\ tables.challenges = t.challenges
  BY <1>1, <1>4, <1>5 DEF Tables
<1> HIDE DEF tables
<1> QED
  BY <1>1, <1>3, <1>5, <1>6 DEF row, t, RevocationEffect

\* What issuing a challenge writes: one fresh open row.
IssueEffect(s, tables, row) ==
    /\ Commit(s, tables, FALSE)
    /\ tables.chain = db[s].chain
    /\ tables.tombstones = db[s].tombstones
    /\ tables.policies = db[s].policies
    /\ tables.challenges = Pruned(db[s]).challenges \cup {row}
    /\ row.intent = NoOne
    /\ row.id = position + 1

LEMMA IssueFacts ==
    ASSUME TypeOK, NEW s \in Spaces, NEW p \in PolicyIds, NEW cred \in Creds,
           NEW v \in {1, 2}, NEW request \in RequestIds \cup {NoOne}, NEW until \in Nat,
           v = 2 => request \in RequestIds,
           Issue(s, Pruned(db[s]), p, cred, v, request, until)
    PROVE  \E tables \in Tables, row \in ChallengeRow :
             IssueEffect(s, tables, row) /\ row.policy = p
<1> DEFINE t == Pruned(db[s])
           row == [id |-> position + 1, v |-> v, policy |-> p, cred |-> cred,
                   request |-> request, issued |-> now, expires |-> until,
                   intent |-> NoOne]
           tables == [t EXCEPT !.challenges = @ \cup {row}]
<1>1. t \in Tables /\ t.policies = db[s].policies
      /\ t.chain = db[s].chain /\ t.tombstones = db[s].tombstones
  BY LoadedFacts, PrunedFacts
<1>2. row \in ChallengeRow /\ row.intent = NoOne /\ row.id = position + 1 /\ row.policy = p
  BY DEF TypeOK, ChallengeRow
<1>3. Commit(s, tables, FALSE)
  BY Zenon DEF Issue
<1> HIDE DEF t, row
<1>4. /\ tables \in Tables /\ tables.policies = t.policies /\ tables.chain = t.chain
      /\ tables.tombstones = t.tombstones /\ tables.challenges = t.challenges \cup {row}
  BY <1>1, <1>2 DEF Tables
<1> HIDE DEF tables
<1>5. IssueEffect(s, tables, row)
  BY <1>1, <1>2, <1>3, <1>4 DEF t, IssueEffect
<1> QED
  BY <1>2, <1>4, <1>5

LEMMA ChallengeFacts ==
    ASSUME TypeOK, NEW s \in Spaces, NEW p \in PolicyIds, NEW cred \in Creds,
           Challenge(s, p, cred)
    PROVE  \E tables \in Tables, row \in ChallengeRow :
             /\ IssueEffect(s, tables, row)
             /\ PolicyUsable(Pruned(db[s]), row.policy)
<1>1. /\ Issue(s, Pruned(db[s]), p, cred, 1, NoOne, now + ChallengeLife)
      /\ PolicyUsable(Pruned(db[s]), p)
  BY DEF Challenge
<1>2. now + ChallengeLife \in Nat
  BY BoundAssumption DEF TypeOK
<1>3. 1 \in {1, 2} /\ NoOne \in RequestIds \cup {NoOne} /\ (1 = 2 => NoOne \in RequestIds)
  OBVIOUS
<1>4. \E tables \in Tables, row \in ChallengeRow :
        IssueEffect(s, tables, row) /\ row.policy = p
  BY <1>1, <1>2, <1>3, IssueFacts
<1> QED
  BY <1>1, <1>4

LEMMA ChallengeV2Facts ==
    ASSUME TypeOK, NEW s \in Spaces, NEW r \in RequestIds, ChallengeV2(s, r)
    PROVE  \E tables \in Tables, row \in ChallengeRow :
             /\ IssueEffect(s, tables, row)
             /\ PolicyUsable(Pruned(db[s]), row.policy)
<1>1. /\ RequestBody[r].policy \in PolicyIds /\ RequestBody[r].cred \in Creds
      /\ RequestBody[r].until \in Nat /\ now + ChallengeLife \in Nat
  BY PolicyAssumption, BoundAssumption DEF TypeOK
<1> DEFINE limit == now + ChallengeLife
           until == IF limit < RequestBody[r].until THEN limit ELSE RequestBody[r].until
<1>2. until \in Nat
  BY <1>1
<1>3. /\ Issue(s, Pruned(db[s]), RequestBody[r].policy, RequestBody[r].cred, 2, r, until)
      /\ PolicyUsable(Pruned(db[s]), RequestBody[r].policy)
  BY Zenon DEF ChallengeV2
<1> HIDE DEF until
<1>4. 2 \in {1, 2} /\ r \in RequestIds \cup {NoOne} /\ (2 = 2 => r \in RequestIds)
  OBVIOUS
<1>5. \E tables \in Tables, row \in ChallengeRow :
        IssueEffect(s, tables, row) /\ row.policy = RequestBody[r].policy
  BY <1>1, <1>2, <1>3, <1>4, IssueFacts
<1> QED
  BY <1>3, <1>5

\* What an admission writes, with the facts its guards establish.
AdmissionEffect(s, ch, approval, tables, request, c) ==
    /\ c = AdmissionConfig(db[s].chain, ch.policy, ch.cred, ch.id, request, approval)
    /\ c.ev.kind = "admission"
    /\ ValidConfig(c)
    /\ Commit(s, tables, FALSE)
    /\ tables.chain = Append(db[s].chain, c)
    /\ tables.tombstones = db[s].tombstones
    /\ tables.challenges = (Pruned(db[s]).challenges \ {ch})
                            \cup {[ch EXCEPT !.intent = request]}
    /\ \A q \in PolicyIds \ {ch.policy} : tables.policies[q] = db[s].policies[q]
    /\ tables.policies[ch.policy] = [db[s].policies[ch.policy] EXCEPT !.uses = @ + 1]
    /\ PolicyUsable(Pruned(db[s]), ch.policy)
    /\ FinishAdmission(db[s].chain, ch.policy, ch.cred, ch.id, request, approval)

LEMMA AdmitFacts ==
    ASSUME TypeOK, NEW s \in Spaces, NEW ch \in db[s].challenges,
           NEW approval \in Approvals(db[s].chain),
           Admit(s, ch, approval) \/ AdmitV2(s, ch, approval)
    PROVE  /\ ch \in ChallengeRow
           /\ ch.intent = NoOne
           /\ db[s].chain # <<>>
           /\ \E tables \in Tables, request \in Nat \cup RequestIds, c \in ConfigRecord :
                AdmissionEffect(s, ch, approval, tables, request, c)
<1> DEFINE t == Pruned(db[s])
<1>1. db[s] \in Tables /\ t \in Tables /\ t.policies = db[s].policies
      /\ t.chain = db[s].chain /\ t.tombstones = db[s].tombstones
  BY LoadedFacts, PrunedFacts
<1>2. /\ ch \in ChallengeRow /\ ch.policy \in PolicyIds /\ ch.cred \in Creds /\ ch.id \in Nat
      /\ ch.v = 2 => ch.request \in RequestIds
  BY <1>1 DEF Tables, ChallengeRow
<1>3. PICK request \in Nat \cup RequestIds : AdmitWith(s, t, ch, request, approval)
  BY <1>2, Zenon DEF Admit, AdmitV2
<1> DEFINE c == AdmissionConfig(t.chain, ch.policy, ch.cred, ch.id, request, approval)
           tables == Consume(WithChain(t, c), ch, request)
<1>4. /\ Loaded(s) /\ ch.intent = NoOne /\ PolicyUsable(t, ch.policy)
      /\ FinishAdmission(t.chain, ch.policy, ch.cred, ch.id, request, approval)
      /\ Commit(s, tables, FALSE) /\ ValidConfig(c)
  BY <1>3, Zenon DEF AdmitWith, Applies
<1>5. db[s].chain # <<>> /\ db[s].chain \in Seq(ConfigRecord) /\ now \in Nat
  BY <1>1, <1>4, LoadedFacts DEF Tables, TypeOK
<1>6. c \in ConfigRecord /\ c.ev.kind = "admission"
  BY <1>1, <1>2, <1>5, AdmissionType
<1> HIDE DEF t, c
<1>7. /\ WithChain(t, c) \in Tables /\ WithChain(t, c).chain = Append(t.chain, c)
      /\ WithChain(t, c).policies = t.policies /\ WithChain(t, c).tombstones = t.tombstones
      /\ WithChain(t, c).challenges = t.challenges
  BY <1>1, <1>6, WithChainFacts
<1>8. /\ tables \in Tables
      /\ tables.chain = Append(t.chain, c) /\ tables.tombstones = t.tombstones
      /\ tables.challenges = (t.challenges \ {ch}) \cup {[ch EXCEPT !.intent = request]}
      /\ \A q \in PolicyIds \ {ch.policy} : tables.policies[q] = t.policies[q]
      /\ tables.policies[ch.policy] = [t.policies[ch.policy] EXCEPT !.uses = @ + 1]
  BY <1>2, <1>7, ConsumeFacts
<1> HIDE DEF tables
<1>9. c = AdmissionConfig(db[s].chain, ch.policy, ch.cred, ch.id, request, approval)
  BY <1>1 DEF c
<1>10. AdmissionEffect(s, ch, approval, tables, request, c)
  BY <1>1, <1>4, <1>6, <1>8, <1>9 DEF t, AdmissionEffect
<1> QED
  BY <1>2, <1>4, <1>5, <1>6, <1>8, <1>10

\* What an owner update writes.
UpdateEffect(s, tables, c) ==
    /\ Commit(s, tables, SecurityReduction(Tip(db[s].chain), c))
    /\ c.ev.kind = "proposal"
    /\ ValidConfig(c)
    /\ tables.chain = Append(db[s].chain, c)
    /\ tables.tombstones = db[s].tombstones \cup Dropped(Tip(db[s].chain), c)
    /\ tables.challenges = Pruned(db[s]).challenges
    /\ tables.policies = db[s].policies

LEMMA OwnerUpdateFacts ==
    ASSUME TypeOK, NEW s \in Spaces, NEW cred \in Creds, OwnerUpdate(s, cred)
    PROVE  /\ db[s].chain # <<>>
           /\ \E tables \in Tables, c \in ConfigRecord : UpdateEffect(s, tables, c)
<1> DEFINE t == Pruned(db[s])
           parent == Tip(t.chain)
<1>1. db[s] \in Tables /\ t \in Tables /\ t.policies = db[s].policies
      /\ t.chain = db[s].chain /\ t.tombstones = db[s].tombstones
  BY LoadedFacts, PrunedFacts
<1>2. Loaded(s) /\ \E c \in Proposals :
        /\ ValidConfig(c)
        /\ Commit(s, [WithChain(t, c) EXCEPT !.tombstones = @ \cup Dropped(parent, c)],
                  SecurityReduction(parent, c))
  BY Zenon DEF OwnerUpdate, Applies
<1>3. PICK c \in Proposals :
        /\ ValidConfig(c)
        /\ Commit(s, [WithChain(t, c) EXCEPT !.tombstones = @ \cup Dropped(parent, c)],
                  SecurityReduction(parent, c))
  BY <1>2
<1>4. c \in ConfigRecord /\ c.ev.kind = "proposal"
  BY ProposalType
<1>5. db[s].chain # <<>> /\ db[s].chain \in Seq(ConfigRecord)
  BY <1>1, <1>2, LoadedFacts DEF Tables
<1> DEFINE base == WithChain(t, c)
           tables == [base EXCEPT !.tombstones = @ \cup Dropped(parent, c)]
<1>6. /\ base \in Tables /\ base.chain = Append(t.chain, c)
      /\ base.policies = t.policies /\ base.tombstones = t.tombstones
      /\ base.challenges = t.challenges
  BY <1>1, <1>4, WithChainFacts
<1>7. Dropped(parent, c) \subseteq Creds
  BY <1>1, <1>5, TipType, CredsOfConfig DEF Dropped
<1> HIDE DEF t, base, parent
<1>8. /\ tables \in Tables /\ tables.chain = base.chain
      /\ tables.policies = base.policies /\ tables.challenges = base.challenges
      /\ tables.tombstones = base.tombstones \cup Dropped(parent, c)
  BY <1>6, <1>7 DEF Tables
<1>9. Commit(s, tables, SecurityReduction(parent, c))
  BY <1>3 DEF base
<1> HIDE DEF tables
<1>10. UpdateEffect(s, tables, c)
  BY <1>1, <1>3, <1>4, <1>6, <1>8, <1>9 DEF UpdateEffect, t, parent
<1> QED
  BY <1>4, <1>5, <1>8, <1>10

LEMMA InitType == Init => TypeOK
<1>1. NewRow \in PolicyRow
  BY DEF NewRow, PolicyRow
<1>2. EmptyTables \in Tables
  BY <1>1 DEF EmptyTables, Tables
<1> QED
  BY <1>2 DEF Init, TypeOK

\* Every step keeps the types.
LEMMA NextType == TypeOK /\ [Next]_vars => TypeOK'
<1> SUFFICES ASSUME TypeOK, [Next]_vars PROVE TypeOK'
  OBVIOUS
<1>1. CASE UNCHANGED vars
  BY <1>1 DEF TypeOK, vars
<1>2. CASE Tick
  BY <1>2 DEF Tick, TypeOK
<1>3. ASSUME NEW s \in Spaces, Register(s) PROVE TypeOK'
  BY <1>3, RegisterFacts, CommitFacts
<1>4. ASSUME NEW s \in Spaces, NEW p \in PolicyIds, NEW cred \in Creds,
             RevokeInvitation(s, p, cred)
      PROVE  TypeOK'
  BY <1>4, RevokeInvitationFacts, CommitFacts DEF RevocationEffect
<1>5. ASSUME NEW s \in Spaces, NEW p \in PolicyIds, NEW cred \in Creds,
             Challenge(s, p, cred)
      PROVE  TypeOK'
  BY <1>5, ChallengeFacts, CommitFacts DEF IssueEffect
<1>6. ASSUME NEW s \in Spaces, NEW p \in PolicyIds, NEW cred \in Creds,
             NEW h \in 1..Len(db[s].chain), RegisterInvitation(s, p, cred, h)
      PROVE  TypeOK'
  BY <1>6, RegisterInvitationFacts, CommitFacts DEF InvitationEffect
<1>7. ASSUME NEW s \in Spaces, NEW r \in RequestIds, ChallengeV2(s, r)
      PROVE  TypeOK'
  BY <1>7, ChallengeV2Facts, CommitFacts DEF IssueEffect
<1>8. ASSUME NEW s \in Spaces, NEW ch \in db[s].challenges,
             NEW approval \in Approvals(db[s].chain),
             Admit(s, ch, approval) \/ AdmitV2(s, ch, approval)
      PROVE  TypeOK'
  BY <1>8, AdmitFacts, CommitFacts DEF AdmissionEffect
<1>9. ASSUME NEW s \in Spaces, NEW cred \in Creds, OwnerUpdate(s, cred)
      PROVE  TypeOK'
  BY <1>9, OwnerUpdateFacts, CommitFacts DEF UpdateEffect, SecurityReduction
<1> QED
  BY <1>1, <1>2, <1>3, <1>4, <1>5, <1>6, <1>7, <1>8, <1>9 DEF Next

\* Every row of the witness database always has the type its columns declare.
THEOREM TypeCorrect == Spec => []TypeOK
BY InitType, NextType, PTL DEF Spec

-----------------------------------------------------------------------------
(* The inductive invariant.  The history of a Space and its tables are two   *)
(* records of the same facts; each part below relates them, and the parts    *)
(* need each other: a new policy row may start at zero uses only because no  *)
(* admission cites an unregistered policy (GrantAlive), and the creator      *)
(* stays untouched only because every configuration is valid.                *)

ChainValid(chain) == \A k \in DOMAIN chain : ValidConfig(chain[k])

\* What holds of the admission at position k of the history.
AdmissionInv(policies, chain, k) ==
    /\ GrantAlive(policies, chain, k)
    /\ ReadmissionApproved(chain, k)
    /\ KeyUnused(chain, k)
    /\ OwnersUntouched(chain, k)

SpaceInv(t) ==
    /\ ChainValid(t.chain)
    /\ \A k \in Admissions(t.chain) : AdmissionInv(t.policies, t.chain, k)
    /\ \A p \in PolicyIds : UsesMatch(t, p)
    /\ ConsumptionMatches(t)
    /\ TombstonesMatch(t)

Inv ==
    /\ TypeOK
    /\ \A s \in Spaces : SpaceInv(db[s])

LEMMA AdmissionsFacts ==
    ASSUME NEW chain \in Seq(ConfigRecord)
    PROVE  /\ Admissions(chain) \subseteq 1..Len(chain)
           /\ \A k \in Admissions(chain) :
                /\ chain[k].ev.kind = "admission"
                /\ chain[k].ev \in [kind: {"admission"}, policy: PolicyIds, cred: Creds,
                      challenge: Nat, request: Nat \cup RequestIds,
                      approval: ApprovalRecord \cup {NoOne}, at: Nat]
           /\ \A p \in PolicyIds : IsFiniteSet(AdmissionsBy(chain, p))
<1>1. Admissions(chain) \subseteq 1..Len(chain)
  BY DEF Admissions
<1>2. ASSUME NEW k \in Admissions(chain)
      PROVE  /\ chain[k].ev.kind = "admission"
             /\ chain[k].ev \in [kind: {"admission"}, policy: PolicyIds, cred: Creds,
                      challenge: Nat, request: Nat \cup RequestIds,
                      approval: ApprovalRecord \cup {NoOne}, at: Nat]
  <2>1. chain[k] \in ConfigRecord /\ chain[k].ev.kind = "admission"
    BY <1>1 DEF Admissions
  <2> QED
    BY <2>1 DEF ConfigRecord, EvidenceRecord
<1>3. ASSUME NEW p \in PolicyIds PROVE IsFiniteSet(AdmissionsBy(chain, p))
  <2>1. AdmissionsBy(chain, p) \subseteq 1..Len(chain) /\ IsFiniteSet(1..Len(chain))
    BY <1>1, FS_Interval DEF AdmissionsBy
  <2> QED
    BY <2>1, FS_Subset
<1> QED
  BY <1>1, <1>2, <1>3

\* The admissions of an extended history.
LEMMA AdmissionsAppend ==
    ASSUME NEW chain \in Seq(ConfigRecord), NEW c \in ConfigRecord
    PROVE  /\ c.ev.kind # "admission" =>
                /\ Admissions(Append(chain, c)) = Admissions(chain)
                /\ \A p \in PolicyIds :
                     AdmissionsBy(Append(chain, c), p) = AdmissionsBy(chain, p)
           /\ c.ev.kind = "admission" =>
                /\ Admissions(Append(chain, c)) = Admissions(chain) \cup {Len(chain) + 1}
                /\ \A p \in PolicyIds :
                     AdmissionsBy(Append(chain, c), p) =
                       AdmissionsBy(chain, p)
                       \cup (IF c.ev.policy = p THEN {Len(chain) + 1} ELSE {})
<1> DEFINE longer == Append(chain, c)
<1>1. /\ DOMAIN longer = 1..(Len(chain) + 1) /\ DOMAIN chain = 1..Len(chain)
      /\ \A k \in 1..Len(chain) : longer[k] = chain[k]
      /\ longer[Len(chain) + 1] = c /\ Len(chain) \in Nat
  BY AppendFacts
<1>2. DOMAIN longer = DOMAIN chain \cup {Len(chain) + 1}
  BY <1>1
<1> HIDE DEF longer
<1>3. c.ev.kind # "admission" => Admissions(longer) = Admissions(chain)
  BY <1>1, <1>2 DEF Admissions
<1>4. c.ev.kind = "admission" => Admissions(longer) = Admissions(chain) \cup {Len(chain) + 1}
  BY <1>1, <1>2 DEF Admissions
<1>5. Admissions(chain) \subseteq 1..Len(chain)
  BY AdmissionsFacts
<1>6. \A k \in Admissions(chain) : longer[k] = chain[k]
  BY <1>1, <1>5
<1>7. ASSUME NEW p \in PolicyIds, c.ev.kind # "admission"
      PROVE  AdmissionsBy(longer, p) = AdmissionsBy(chain, p)
  BY <1>3, <1>6, <1>7 DEF AdmissionsBy
<1>8. ASSUME NEW p \in PolicyIds, c.ev.kind = "admission"
      PROVE  AdmissionsBy(longer, p) = AdmissionsBy(chain, p)
               \cup (IF c.ev.policy = p THEN {Len(chain) + 1} ELSE {})
  BY <1>1, <1>4, <1>6, <1>8 DEF AdmissionsBy
<1> QED
  BY <1>3, <1>4, <1>7, <1>8 DEF longer

-----------------------------------------------------------------------------
(* Commands that leave the history alone.                                   *)

Consumed(t) == {ch \in t.challenges : ch.intent # NoOne}

LEMMA QuietPreserves ==
    ASSUME NEW t \in Tables, SpaceInv(t), NEW u \in Tables,
           u.chain = t.chain, u.tombstones = t.tombstones,
           Consumed(u) = Consumed(t),
           \A p \in PolicyIds :
             \/ /\ t.policies[p].state = "none"
                /\ u.policies[p].uses = 0
             \/ /\ t.policies[p].state # "none"
                /\ u.policies[p].state # "none"
                /\ u.policies[p].uses = t.policies[p].uses
                /\ u.policies[p].head = t.policies[p].head
                /\ u.policies[p].issuer = t.policies[p].issuer
    PROVE  SpaceInv(u)
<1>0. t.chain \in Seq(ConfigRecord)
  BY DEF Tables
<1>1. ASSUME NEW k \in Admissions(t.chain) PROVE AdmissionInv(u.policies, u.chain, k)
  <2>1. t.chain[k].ev.policy \in PolicyIds
    BY <1>0, AdmissionsFacts
  <2>2. AdmissionInv(t.policies, t.chain, k)
    BY DEF SpaceInv
  <2>3. GrantAlive(u.policies, u.chain, k)
    BY <2>1, <2>2 DEF AdmissionInv, GrantAlive
  <2> QED
    BY <2>2, <2>3 DEF AdmissionInv
<1>2. ASSUME NEW p \in PolicyIds PROVE UsesMatch(u, p)
  <2>1. CASE t.policies[p].state # "none"
    BY <2>1 DEF SpaceInv, UsesMatch
  <2>2. CASE t.policies[p].state = "none"
    <3>1. AdmissionsBy(t.chain, p) = {}
      BY <2>2 DEF AdmissionsBy, SpaceInv, AdmissionInv, GrantAlive
    <3>2. u.policies[p].uses = 0 /\ Cardinality({}) = 0 /\ PolicyBody[p].maxUses \in Nat
      BY <2>2, FS_EmptySet, PolicyAssumption
    <3> QED
      BY <3>1, <3>2 DEF UsesMatch
  <2> QED
    BY <2>1, <2>2
<1>3. ConsumptionMatches(u)
  BY DEF SpaceInv, ConsumptionMatches, Consumed
<1>4. TombstonesMatch(u)
  BY DEF SpaceInv, TombstonesMatch
<1> QED
  BY <1>1, <1>2, <1>3, <1>4 DEF SpaceInv

-----------------------------------------------------------------------------
(* Commands that append a configuration.                                    *)

\* What holds of an old admission does not look beyond it.
LEMMA PrefixStable ==
    ASSUME NEW n \in Nat, NEW chain, NEW longer, NEW policies,
           \A j \in 1..n : longer[j] = chain[j],
           NEW k \in 1..n, AdmissionInv(policies, chain, k)
    PROVE  AdmissionInv(policies, longer, k)
<1>1. longer[k] = chain[k] /\ \A j \in 1..(k - 1) : longer[j] = chain[j]
  OBVIOUS
<1>2. GrantAlive(policies, longer, k)
  BY <1>1 DEF AdmissionInv, GrantAlive
<1>3. ReadmissionApproved(longer, k)
  <2>1. \A j \in 2..(k - 1) : longer[j] = chain[j] /\ longer[j - 1] = chain[j - 1]
    BY <1>1
  <2> QED
    BY <1>1, <2>1 DEF AdmissionInv, ReadmissionApproved
<1>4. KeyUnused(longer, k)
  BY <1>1 DEF AdmissionInv, KeyUnused
<1>5. OwnersUntouched(longer, k)
  BY <1>1 DEF AdmissionInv, OwnersUntouched
<1> QED
  BY <1>2, <1>3, <1>4, <1>5 DEF AdmissionInv

\* A configuration adds to the removals of the history what it drops.
LEMMA TombstonesAppend ==
    ASSUME NEW chain \in Seq(ConfigRecord), chain # <<>>, NEW c \in ConfigRecord, NEW d
    PROVE  (\E k \in 2..Len(Append(chain, c)) :
               /\ d \in MemberCreds(Append(chain, c)[k - 1])
               /\ d \notin MemberCreds(Append(chain, c)[k]))
           <=> \/ \E k \in 2..Len(chain) : /\ d \in MemberCreds(chain[k - 1])
                                          /\ d \notin MemberCreds(chain[k])
               \/ d \in Dropped(Tip(chain), c)
<1> DEFINE longer == Append(chain, c)
           n == Len(chain)
           Gone(h, k) == d \in MemberCreds(h[k - 1]) /\ d \notin MemberCreds(h[k])
<1>1. /\ n \in Nat \ {0} /\ Len(longer) = n + 1 /\ longer[n + 1] = c
      /\ \A k \in 1..n : longer[k] = chain[k]
  BY AppendFacts, TipType
<1>2. Tip(chain) = chain[n]
  BY TipType
<1> HIDE DEF longer, n
<1>3. \A k \in 2..n : longer[k] = chain[k] /\ longer[k - 1] = chain[k - 1]
  BY <1>1
<1>4. \A k \in 2..n : Gone(longer, k) <=> Gone(chain, k)
  BY <1>3
<1>5. Gone(longer, n + 1) <=> d \in Dropped(Tip(chain), c)
  <2>1. longer[(n + 1) - 1] = Tip(chain)
    BY <1>1, <1>2
  <2> QED
    BY <1>1, <2>1 DEF Dropped
<1>6. 2..Len(longer) = 2..n \cup {n + 1}
  BY <1>1
<1> HIDE DEF Gone
<1>7. (\E k \in 2..Len(longer) : Gone(longer, k))
      <=> (\E k \in 2..n : Gone(chain, k)) \/ d \in Dropped(Tip(chain), c)
  BY <1>4, <1>5, <1>6
<1> QED
  BY <1>7 DEF Gone, longer, n

LEMMA UpdatePreserves ==
    ASSUME NEW t \in Tables, SpaceInv(t), t.chain # <<>>, NEW u \in Tables,
           NEW c \in ConfigRecord, c.ev.kind # "admission", ValidConfig(c),
           u.chain = Append(t.chain, c),
           u.tombstones = t.tombstones \cup Dropped(Tip(t.chain), c),
           Consumed(u) = Consumed(t),
           u.policies = t.policies
    PROVE  SpaceInv(u)
<1> DEFINE chain == t.chain
           n == Len(t.chain)
           longer == u.chain
<1>1. /\ chain \in Seq(ConfigRecord) /\ n \in Nat \ {0}
      /\ DOMAIN longer = 1..(n + 1) /\ DOMAIN chain = 1..n
      /\ \A k \in 1..n : longer[k] = chain[k]
      /\ longer[n + 1] = c
      /\ Tip(chain) \in ConfigRecord
  BY AppendFacts, TipType DEF Tables
<1>2. /\ Admissions(longer) = Admissions(chain)
      /\ \A p \in PolicyIds : AdmissionsBy(longer, p) = AdmissionsBy(chain, p)
  BY <1>1, AdmissionsAppend
<1>3. Admissions(chain) \subseteq 1..n
  BY <1>1, AdmissionsFacts
<1>4. TombstonesMatch(u)
  <2>1. Dropped(Tip(chain), c) \subseteq Creds
    BY <1>1, CredsOfConfig DEF Dropped
  <2> QED
    BY <1>1, <2>1, TombstonesAppend DEF SpaceInv, TombstonesMatch
<1> HIDE DEF chain, n, longer
<1>5. ChainValid(longer)
  BY <1>1 DEF SpaceInv, ChainValid, chain
<1>6. \A k \in Admissions(longer) : AdmissionInv(u.policies, longer, k)
  BY <1>1, <1>2, <1>3, PrefixStable DEF SpaceInv, chain
<1>7. \A p \in PolicyIds : UsesMatch(u, p)
  BY <1>2 DEF SpaceInv, UsesMatch, chain, longer
<1>8. ConsumptionMatches(u)
  <2>1. \A k \in Admissions(chain) : longer[k] = chain[k]
    BY <1>1, <1>3
  <2>2. ConsumptionMatches(t)
    BY DEF SpaceInv
  <2>3. {<<longer[k].ev.challenge, longer[k].ev.request>> : k \in Admissions(longer)}
          = {<<chain[k].ev.challenge, chain[k].ev.request>> : k \in Admissions(chain)}
    BY <2>1, <1>2
  <2>4. {<<ch.id, ch.intent>> : ch \in {x \in u.challenges : x.intent # NoOne}}
          = {<<ch.id, ch.intent>> : ch \in {x \in t.challenges : x.intent # NoOne}}
    BY DEF Consumed
  <2>5. \A j, k \in Admissions(longer) :
           \/ longer[j].ev.challenge = longer[k].ev.challenge
           \/ longer[j].ev.request = longer[k].ev.request
           => j = k
    BY <2>1, <2>2, <1>2 DEF ConsumptionMatches, chain
  <2> QED
    BY <2>2, <2>3, <2>4, <2>5 DEF ConsumptionMatches, chain, longer
<1> QED
  BY <1>4, <1>5, <1>6, <1>7, <1>8 DEF SpaceInv, longer

\* The configuration that an admission appends keeps the creator, the owners
\* and every member device.
LEMMA AdmissionMembers ==
    ASSUME NEW chain \in Seq(ConfigRecord), chain # <<>>, ValidConfig(Tip(chain)),
           NEW p \in PolicyIds, NEW cred \in Creds, NEW id, NEW request, NEW approval,
           FinishAdmission(chain, p, cred, id, request, approval)
    PROVE  LET c == AdmissionConfig(chain, p, cred, id, request, approval)
           IN /\ c.members[Primary] = Tip(chain).members[Primary]
              /\ OwnerCreds(c) = OwnerCreds(Tip(chain))
              /\ MemberCreds(Tip(chain)) \subseteq MemberCreds(c)
<1> DEFINE c == AdmissionConfig(chain, p, cred, id, request, approval)
           i == IdentityOf[cred]
           parent == Tip(chain)
           old == parent.members[i]
           caps == IF old.creds = {} THEN ReaderCaps ELSE old.caps
<1>1. i \in Identities /\ Primary \in Identities /\ parent \in ConfigRecord
  BY CredAssumption, TipType
<1>2. parent.members \in [Identities -> MemberRecord]
  BY <1>1 DEF ConfigRecord
<1>3. c.members = [parent.members EXCEPT ![i] = [caps |-> caps, creds |-> old.creds \cup {cred}]]
  BY DEF AdmissionConfig
<1>4. caps = ReaderCaps /\ "Manage" \notin caps
  BY DEF FinishAdmission, ReaderCaps
<1>5. old.creds # {} => "Manage" \notin old.caps
  BY DEF FinishAdmission, ReaderCaps
<1>6. "Manage" \in parent.members[Primary].caps /\ parent.members[Primary].creds # {}
  BY <1>1 DEF ValidConfig, Managers
<1>7. i # Primary
  BY <1>5, <1>6
<1> HIDE DEF parent, old, caps, i, c
<1>8. /\ \A j \in Identities \ {i} : c.members[j] = parent.members[j]
      /\ c.members[i].caps = caps /\ c.members[i].creds = old.creds \cup {cred}
  BY <1>1, <1>2, <1>3
<1>9. Managers(c) = Managers(parent) \ {i}
  BY <1>1, <1>4, <1>8 DEF Managers
<1>10. i \in Managers(parent) => old.creds = {}
  BY <1>5 DEF Managers, old
<1>11. OwnerCreds(c) = OwnerCreds(parent)
  <2>1. ASSUME NEW d \in OwnerCreds(c) PROVE d \in OwnerCreds(parent)
    BY <1>8, <1>9 DEF OwnerCreds, Managers
  <2>2. ASSUME NEW d \in OwnerCreds(parent) PROVE d \in OwnerCreds(c)
    BY <1>8, <1>9, <1>10 DEF OwnerCreds, Managers, old
  <2> QED
    BY <2>1, <2>2
<1>12. MemberCreds(parent) \subseteq MemberCreds(c)
  BY <1>1, <1>8 DEF MemberCreds, old
<1> QED
  BY <1>1, <1>7, <1>8, <1>11, <1>12 DEF parent, c

\* The guards of an admission establish what is claimed of it.
LEMMA NewAdmission ==
    ASSUME NEW t \in Tables, t.chain # <<>>, ChainValid(t.chain),
           NEW ch \in ChallengeRow, NEW request \in Nat \cup RequestIds,
           NEW approval \in Approvals(t.chain), NEW c \in ConfigRecord,
           c = AdmissionConfig(t.chain, ch.policy, ch.cred, ch.id, request, approval),
           PolicyUsable(t, ch.policy),
           FinishAdmission(t.chain, ch.policy, ch.cred, ch.id, request, approval),
           NEW policies, policies[ch.policy].state = t.policies[ch.policy].state,
           policies[ch.policy].head = t.policies[ch.policy].head,
           policies[ch.policy].issuer = t.policies[ch.policy].issuer
    PROVE  AdmissionInv(policies, Append(t.chain, c), Len(t.chain) + 1)
<1> DEFINE chain == t.chain
           n == Len(t.chain)
           longer == Append(t.chain, c)
           k == n + 1
<1>1. /\ chain \in Seq(ConfigRecord) /\ n \in Nat \ {0}
      /\ \A j \in 1..n : longer[j] = chain[j]
      /\ longer[k] = c /\ Tip(chain) = chain[n]
  BY AppendFacts, TipType DEF Tables
<1>2. ch.policy \in PolicyIds /\ ch.cred \in Creds
  BY DEF ChallengeRow
<1>3. /\ c.ev.policy = ch.policy /\ c.ev.cred = ch.cred /\ c.ev.approval = approval
  BY DEF AdmissionConfig
<1>4. ValidConfig(Tip(chain))
  BY <1>1 DEF ChainValid
<1>5. /\ c.members[Primary] = Tip(chain).members[Primary]
      /\ OwnerCreds(c) = OwnerCreds(Tip(chain))
  BY <1>1, <1>2, <1>4, AdmissionMembers
<1>6. /\ t.policies[ch.policy].state = "active"
      /\ OwnerSince(chain, t.policies[ch.policy].issuer, t.policies[ch.policy].head)
  BY DEF PolicyUsable, VerifyInvitation
<1>7. /\ ApprovalAllows(chain, ch.policy, ch.cred, approval)
      /\ \A j \in DOMAIN chain : \A d \in MemberCreds(chain[j]) : KeyOf[d] # KeyOf[ch.cred]
  BY DEF FinishAdmission
<1>8. approval # NoOne => OwnerSince(chain, approval.issuer, approval.head)
  BY <1>7 DEF ApprovalAllows
<1>9. \A j \in Removals(chain, IdentityOf[ch.cred]) :
        approval # NoOne /\ approval.readmission /\ j =< approval.head
  BY <1>7 DEF ApprovalAllows
<1>10. DOMAIN chain = 1..n /\ k - 1 = n /\ k > 1 /\ Len(chain) = n
  BY <1>1
<1> HIDE DEF chain, n, longer, k
<1>11. GrantAlive(policies, longer, k)
  <2>1. \A x, h : OwnerSince(chain, x, h) =>
          /\ h \in 1..(k - 1)
          /\ \A j \in h..(k - 1) : x \in OwnerCreds(longer[j])
    BY <1>1, <1>10 DEF OwnerSince
  <2> QED
    BY <1>1, <1>3, <1>6, <1>8, <2>1 DEF GrantAlive
<1>12. ReadmissionApproved(longer, k)
  <2> SUFFICES ASSUME NEW j \in 2..(k - 1),
                      NEW d \in longer[j - 1].members[IdentityOf[ch.cred]].creds,
                      d \notin longer[j].members[IdentityOf[ch.cred]].creds
               PROVE  approval # NoOne /\ approval.readmission /\ j =< approval.head
    BY <1>1, <1>3 DEF ReadmissionApproved
  <2>1. j \in 2..n /\ longer[j] = chain[j] /\ longer[j - 1] = chain[j - 1]
    BY <1>1, <1>10
  <2>2. j \in Removals(chain, IdentityOf[ch.cred])
    BY <1>10, <2>1 DEF Removals
  <2> QED
    BY <1>9, <2>2
<1>13. KeyUnused(longer, k)
  BY <1>1, <1>3, <1>7, <1>10 DEF KeyUnused
<1>14. OwnersUntouched(longer, k)
  BY <1>1, <1>5, <1>10 DEF OwnersUntouched
<1> QED
  BY <1>11, <1>12, <1>13, <1>14 DEF AdmissionInv, longer, k, n

LEMMA AdmissionPreserves ==
    ASSUME TypeOK, NEW s \in Spaces, SpaceInv(db[s]), db[s].chain # <<>>,
           NEW ch \in ChallengeRow, ch \in db[s].challenges, ch.intent = NoOne,
           NEW approval \in Approvals(db[s].chain),
           NEW u \in Tables, NEW request \in Nat \cup RequestIds, NEW c \in ConfigRecord,
           AdmissionEffect(s, ch, approval, u, request, c)
    PROVE  SpaceInv(u)
<1> DEFINE t == db[s]
           chain == db[s].chain
           n == Len(db[s].chain)
           longer == u.chain
           p == ch.policy
<1>1. /\ t \in Tables /\ chain \in Seq(ConfigRecord) /\ n \in Nat \ {0}
      /\ longer = Append(chain, c)
  BY LoadedFacts, TipType DEF Tables, AdmissionEffect
<1>2. /\ DOMAIN longer = 1..(n + 1) /\ DOMAIN chain = 1..n
      /\ \A k \in 1..n : longer[k] = chain[k]
      /\ longer[n + 1] = c
      /\ Tip(chain) \in ConfigRecord /\ Tip(chain) = chain[n]
  BY <1>1, AppendFacts, TipType
<1>3. /\ p \in PolicyIds /\ ch.cred \in Creds /\ ch.id \in Nat
      /\ t.policies[p] \in PolicyRow
  BY <1>1 DEF ChallengeRow, Tables
<1>4. /\ c = AdmissionConfig(chain, p, ch.cred, ch.id, request, approval)
      /\ c.ev.kind = "admission" /\ ValidConfig(c)
      /\ u.tombstones = t.tombstones
      /\ u.challenges = (Pruned(t).challenges \ {ch}) \cup {[ch EXCEPT !.intent = request]}
      /\ \A q \in PolicyIds \ {p} : u.policies[q] = t.policies[q]
      /\ u.policies[p] = [t.policies[p] EXCEPT !.uses = @ + 1]
      /\ PolicyUsable(t, p)
      /\ FinishAdmission(chain, p, ch.cred, ch.id, request, approval)
  BY <1>1, PrunedFacts DEF AdmissionEffect, PolicyUsable
<1>5. /\ c.ev.policy = p /\ c.ev.challenge = ch.id /\ c.ev.request = request
  BY <1>4 DEF AdmissionConfig
<1>6. /\ u.policies[p].uses = t.policies[p].uses + 1
      /\ u.policies[p].state = t.policies[p].state
      /\ u.policies[p].head = t.policies[p].head
      /\ u.policies[p].issuer = t.policies[p].issuer
  BY <1>3, <1>4 DEF PolicyRow
<1>7. /\ Admissions(longer) = Admissions(chain) \cup {n + 1}
      /\ \A q \in PolicyIds \ {p} : AdmissionsBy(longer, q) = AdmissionsBy(chain, q)
      /\ AdmissionsBy(longer, p) = AdmissionsBy(chain, p) \cup {n + 1}
  <2> HIDE DEF t, chain, n, longer, p
  <2>1. /\ Admissions(longer) = Admissions(chain) \cup {n + 1}
        /\ \A q \in PolicyIds : AdmissionsBy(longer, q) =
             AdmissionsBy(chain, q) \cup (IF c.ev.policy = q THEN {n + 1} ELSE {})
    BY <1>1, <1>4, AdmissionsAppend DEF n, chain
  <2> QED
    BY <1>3, <1>5, <2>1
<1>8. Admissions(chain) \subseteq 1..n /\ \A q \in PolicyIds : IsFiniteSet(AdmissionsBy(chain, q))
  BY <1>1, AdmissionsFacts
<1>9. /\ ChainValid(chain)
      /\ \A k \in Admissions(chain) : AdmissionInv(t.policies, chain, k)
      /\ \A q \in PolicyIds : UsesMatch(t, q)
      /\ ConsumptionMatches(t) /\ TombstonesMatch(t)
  BY DEF SpaceInv
<1>10. AdmissionInv(u.policies, longer, n + 1)
  <2>1. AdmissionInv(u.policies, Append(t.chain, c), Len(t.chain) + 1)
    <3> HIDE DEF t
    <3>1. t.chain # <<>> /\ ChainValid(t.chain) /\ approval \in Approvals(t.chain)
      BY <1>9 DEF t
    <3>2. c = AdmissionConfig(t.chain, ch.policy, ch.cred, ch.id, request, approval)
      BY <1>4 DEF t
    <3>3. FinishAdmission(t.chain, ch.policy, ch.cred, ch.id, request, approval)
      BY <1>4 DEF t
    <3> QED
      BY <1>1, <1>4, <1>6, <3>1, <3>2, <3>3, NewAdmission
  <2> QED
    BY <1>1, <2>1
<1>11. \A d : d \notin Dropped(Tip(chain), c)
  <2>1. ValidConfig(Tip(chain))
    BY <1>2, <1>9, <1>1 DEF ChainValid
  <2>2. MemberCreds(Tip(chain)) \subseteq MemberCreds(c)
    BY <1>1, <1>3, <1>4, <2>1, AdmissionMembers
  <2> QED
    BY <2>2 DEF Dropped
<1>12. TombstonesMatch(u)
  BY <1>1, <1>4, <1>9, <1>11, TombstonesAppend DEF TombstonesMatch
<1> HIDE DEF t, chain, n, longer, p
<1>13. ChainValid(longer)
  BY <1>1, <1>2, <1>4, <1>9 DEF ChainValid
<1>14. ASSUME NEW k \in Admissions(longer) PROVE AdmissionInv(u.policies, longer, k)
  <2>1. CASE k = n + 1
    BY <1>10, <2>1
  <2>2. CASE k \in Admissions(chain)
    <3>1. AdmissionInv(t.policies, longer, k)
      BY <1>1, <1>2, <1>8, <1>9, <2>2, PrefixStable
    <3>2. longer[k].ev.policy \in PolicyIds
      BY <1>1, <1>2, <1>8, <2>2, AdmissionsFacts
    <3>3. GrantAlive(u.policies, longer, k)
      <4>1. /\ u.policies[longer[k].ev.policy].state = t.policies[longer[k].ev.policy].state
            /\ u.policies[longer[k].ev.policy].head = t.policies[longer[k].ev.policy].head
            /\ u.policies[longer[k].ev.policy].issuer = t.policies[longer[k].ev.policy].issuer
        BY <1>4, <1>6, <3>2
      <4> QED
        BY <3>1, <4>1 DEF AdmissionInv, GrantAlive
    <3> QED
      BY <3>1, <3>3 DEF AdmissionInv
  <2> QED
    BY <1>7, <2>1, <2>2
<1>15. ASSUME NEW q \in PolicyIds PROVE UsesMatch(u, q)
  <2>1. CASE q # p
    BY <1>4, <1>7, <1>9, <2>1 DEF UsesMatch, t, chain, longer
  <2>2. CASE q = p
    <3>1. n + 1 \notin AdmissionsBy(chain, p)
      BY <1>1, <1>8 DEF AdmissionsBy
    <3>2. Cardinality(AdmissionsBy(longer, p)) = Cardinality(AdmissionsBy(chain, p)) + 1
      BY <1>3, <1>7, <1>8, <3>1, FS_AddElement
    <3>3. /\ t.policies[p].uses = Cardinality(AdmissionsBy(chain, p))
          /\ t.policies[p].uses < PolicyBody[p].maxUses
      BY <1>3, <1>4, <1>9 DEF UsesMatch, PolicyUsable, t, chain
    <3>4. t.policies[p].uses \in Nat /\ PolicyBody[p].maxUses \in Nat
      BY <1>3, PolicyAssumption DEF PolicyRow
    <3> QED
      BY <1>6, <2>2, <3>2, <3>3, <3>4 DEF UsesMatch, longer
  <2> QED
    BY <2>1, <2>2
<1>16. ConsumptionMatches(u)
  <2> DEFINE spent == [ch EXCEPT !.intent = request]
             Rows(x) == {<<r.id, r.intent>> : r \in {y \in x.challenges : y.intent # NoOne}}
             Pairs(h) == {<<h[k].ev.challenge, h[k].ev.request>> : k \in Admissions(h)}
  <2>1. spent.id = ch.id /\ spent.intent = request /\ request # NoOne
    BY PolicyAssumption DEF ChallengeRow
  <2>2. {y \in u.challenges : y.intent # NoOne}
          = {y \in t.challenges : y.intent # NoOne} \cup {spent}
    <3>1. {y \in Pruned(t).challenges : y.intent # NoOne} = {y \in t.challenges : y.intent # NoOne}
      BY <1>1, PrunedFacts
    <3> HIDE DEF spent
    <3> QED
      BY <1>4, <2>1, <3>1 DEF spent
  <2> HIDE DEF spent
  <2>3. Rows(u) = Rows(t) \cup {<<ch.id, request>>}
    BY <2>1, <2>2
  <2>4. \A k \in Admissions(chain) : longer[k] = chain[k] /\ k # n + 1
    BY <1>1, <1>2, <1>8
  <2>5. Pairs(longer) = Pairs(chain) \cup {<<ch.id, request>>}
    BY <1>2, <1>5, <1>7, <2>4
  <2>6. Rows(t) = Pairs(chain)
    BY <1>9 DEF ConsumptionMatches, chain, t
  <2>7. Rows(u) = Pairs(longer)
    BY <2>3, <2>5, <2>6
  <2>8. \A k \in Admissions(chain) :
          chain[k].ev.challenge # ch.id /\ chain[k].ev.request # request
    BY <1>4 DEF FinishAdmission
  <2>9. ASSUME NEW j \in Admissions(longer), NEW k \in Admissions(longer),
               \/ longer[j].ev.challenge = longer[k].ev.challenge
               \/ longer[j].ev.request = longer[k].ev.request
        PROVE  j = k
    <3>1. CASE j \in Admissions(chain) /\ k \in Admissions(chain)
      BY <1>9, <2>4, <2>9, <3>1 DEF ConsumptionMatches, chain, t
    <3>2. CASE j = n + 1 \/ k = n + 1
      BY <1>2, <1>5, <1>7, <2>4, <2>8, <2>9, <3>2
    <3> QED
      BY <1>7, <3>1, <3>2
  <2> QED
    BY <2>7, <2>9 DEF ConsumptionMatches, longer
<1> QED
  BY <1>12, <1>13, <1>14, <1>15, <1>16 DEF SpaceInv, longer

-----------------------------------------------------------------------------
(* The first configuration.                                                 *)

LEMMA GenesisValid == ValidConfig(GenesisConfig)
<1> DEFINE g == GenesisConfig
<1>1. /\ Primary \in Identities /\ Founder \in Creds /\ IdentityOf[Founder] = Primary
  BY CredAssumption
<1>2. \A i \in Identities :
        /\ i = Primary => g.members[i].caps = OwnerCaps /\ g.members[i].creds = {Founder}
        /\ i # Primary => g.members[i].caps = {} /\ g.members[i].creds = {}
  BY DEF GenesisConfig, NotMember
<1> HIDE DEF g
<1>3. MemberCreds(g) = {Founder}
  BY <1>1, <1>2 DEF MemberCreds
<1>4. Managers(g) = {Primary}
  BY <1>1, <1>2 DEF Managers, OwnerCaps
<1>5. \A i \in Identities :
         /\ g.members[i].creds = {} <=> g.members[i].caps = {}
         /\ \A d \in g.members[i].creds : IdentityOf[d] = i
         /\ "ShareHistory" \in g.members[i].caps => "Read" \in g.members[i].caps
  BY <1>1, <1>2 DEF OwnerCaps
<1> QED
  BY <1>2, <1>3, <1>4, <1>5, <1>1 DEF ValidConfig, g

LEMMA EmptyChain ==
    ASSUME NEW t \in Tables, t.chain = <<>>, SpaceInv(t)
    PROVE  /\ Admissions(t.chain) = {}
           /\ \A p \in PolicyIds : t.policies[p].uses = 0
           /\ Consumed(t) = {}
           /\ t.tombstones = {}
<1>1. Admissions(t.chain) = {}
  BY DEF Admissions
<1>2. ASSUME NEW p \in PolicyIds PROVE t.policies[p].uses = 0
  <2>1. AdmissionsBy(t.chain, p) = {}
    BY <1>1 DEF AdmissionsBy
  <2>2. t.policies[p].uses = Cardinality({})
    BY <2>1 DEF SpaceInv, UsesMatch
  <2> QED
    BY <2>2, FS_EmptySet
<1>3. Consumed(t) = {}
  BY <1>1 DEF SpaceInv, ConsumptionMatches, Consumed
<1>4. t.tombstones = {}
  BY DEF SpaceInv, TombstonesMatch
<1> QED
  BY <1>1, <1>2, <1>3, <1>4

\* A policy that was never registered was never used.
LEMMA UnusedRow ==
    ASSUME NEW t \in Tables, SpaceInv(t), NEW p \in PolicyIds,
           t.policies[p].state = "none"
    PROVE  t.policies[p].uses = 0
<1>1. ASSUME NEW k \in AdmissionsBy(t.chain, p) PROVE FALSE
  <2>1. k \in Admissions(t.chain) /\ t.chain[k].ev.policy = p
    BY DEF AdmissionsBy
  <2>2. GrantAlive(t.policies, t.chain, k)
    BY <2>1 DEF SpaceInv, AdmissionInv
  <2> QED
    BY <2>1, <2>2 DEF GrantAlive
<1>2. AdmissionsBy(t.chain, p) = {}
  BY <1>1
<1>3. t.policies[p].uses = Cardinality({})
  BY <1>2 DEF SpaceInv, UsesMatch
<1> QED
  BY <1>3, FS_EmptySet

LEMMA RegisterPreserves ==
    ASSUME NEW t \in Tables, SpaceInv(t), t.chain = <<>>, NEW u \in Tables,
           u.chain = Append(t.chain, GenesisConfig), u.policies = t.policies,
           u.tombstones = t.tombstones, Consumed(u) = Consumed(t)
    PROVE  SpaceInv(u)
<1>1. u.chain = <<GenesisConfig>>
  OBVIOUS
<1>2. Len(u.chain) = 1 /\ DOMAIN u.chain = {1} /\ u.chain[1] = GenesisConfig
  BY <1>1
<1>3. Admissions(u.chain) = {}
  BY <1>2 DEF Admissions, GenesisConfig
<1>4. ChainValid(u.chain)
  BY <1>2, GenesisValid DEF ChainValid
<1>5. ASSUME NEW p \in PolicyIds PROVE UsesMatch(u, p)
  <2>1. AdmissionsBy(u.chain, p) = {}
    BY <1>3 DEF AdmissionsBy
  <2>2. Cardinality(AdmissionsBy(u.chain, p)) = 0
    BY <2>1, FS_EmptySet
  <2>3. u.policies[p].uses = 0 /\ 0 =< PolicyBody[p].maxUses
    BY EmptyChain, PolicyAssumption
  <2> QED
    BY <2>2, <2>3 DEF UsesMatch
<1>6. ConsumptionMatches(u)
  BY <1>3, EmptyChain DEF ConsumptionMatches, Consumed
<1>7. TombstonesMatch(u)
  BY <1>2, EmptyChain DEF TombstonesMatch
<1> QED
  BY <1>3, <1>4, <1>5, <1>6, <1>7 DEF SpaceInv

-----------------------------------------------------------------------------
(* The theorems.                                                            *)

LEMMA InitInv == Init => Inv
<1> SUFFICES ASSUME Init PROVE Inv
  OBVIOUS
<1> DEFINE e == EmptyTables
<1>1. /\ e.chain = <<>> /\ e.challenges = {} /\ e.tombstones = {}
      /\ \A p \in PolicyIds : e.policies[p].uses = 0
  BY DEF EmptyTables, NewRow
<1>2. DOMAIN e.chain = {} /\ Len(e.chain) = 0
  BY <1>1
<1> HIDE DEF e
<1>3. Admissions(e.chain) = {}
  BY <1>2 DEF Admissions
<1>4. ASSUME NEW p \in PolicyIds PROVE UsesMatch(e, p)
  <2>1. AdmissionsBy(e.chain, p) = {}
    BY <1>3 DEF AdmissionsBy
  <2>2. Cardinality(AdmissionsBy(e.chain, p)) = 0
    BY <2>1, FS_EmptySet
  <2>3. e.policies[p].uses = 0 /\ 0 =< PolicyBody[p].maxUses
    BY <1>1, PolicyAssumption
  <2> QED
    BY <2>2, <2>3 DEF UsesMatch
<1>5. SpaceInv(e)
  BY <1>1, <1>2, <1>3, <1>4 DEF SpaceInv, ChainValid, ConsumptionMatches, TombstonesMatch
<1>6. \A s \in Spaces : db[s] = e
  BY DEF Init, e
<1> QED
  BY <1>5, <1>6, InitType DEF Inv

\* A transaction that keeps the invariant of its own Space keeps them all.
LEMMA CommitPreserves ==
    ASSUME Inv, NEW s \in Spaces, NEW u \in Tables, SpaceInv(u),
           NEW reduction \in BOOLEAN, Commit(s, u, reduction)
    PROVE  Inv'
<1>1. TypeOK
  BY DEF Inv
<1>2. /\ TypeOK' /\ db'[s] = u
      /\ \A x \in Spaces \ {s} : db'[x] = db[x]
  BY <1>1, CommitFacts
<1>3. ASSUME NEW x \in Spaces PROVE SpaceInv(db'[x])
  BY <1>2 DEF Inv
<1> QED
  BY <1>2, <1>3 DEF Inv

LEMMA NextInv == Inv /\ [Next]_vars => Inv'
<1> SUFFICES ASSUME Inv, [Next]_vars PROVE Inv'
  OBVIOUS
<1>0. TypeOK /\ \A s \in Spaces : db[s] \in Tables /\ SpaceInv(db[s])
  BY LoadedFacts DEF Inv
<1>q. ASSUME NEW s \in Spaces, NEW u \in Tables, u.challenges = Pruned(db[s]).challenges
      PROVE  Consumed(u) = Consumed(db[s])
  BY <1>0, <1>q, PrunedFacts DEF Consumed
<1>1. CASE UNCHANGED vars
  BY <1>1, <1>0, NextType DEF Inv, vars
<1>2. CASE Tick
  <2>1. db' = db
    BY <1>2 DEF Tick
  <2>2. TypeOK'
    BY <1>0, <1>2 DEF Tick, TypeOK
  <2> QED
    BY <2>1, <2>2 DEF Inv
<1>3. ASSUME NEW s \in Spaces, Register(s) PROVE Inv'
  <2> DEFINE u == WithChain(Pruned(db[s]), GenesisConfig)
  <2>1. u \in Tables /\ Commit(s, u, FALSE) /\ db[s].chain = <<>>
    BY <1>0, <1>3, RegisterFacts
  <2>2. /\ u.chain = Append(db[s].chain, GenesisConfig) /\ u.policies = db[s].policies
        /\ u.tombstones = db[s].tombstones /\ u.challenges = Pruned(db[s]).challenges
    BY <1>0, PrunedFacts, WithChainFacts, GenesisType
  <2> HIDE DEF u
  <2>3. SpaceInv(u)
    BY <1>0, <1>q, <2>1, <2>2, RegisterPreserves
  <2> QED
    BY <2>1, <2>3, CommitPreserves
<1>4. ASSUME NEW s \in Spaces, NEW p \in PolicyIds, NEW cred \in Creds,
             RevokeInvitation(s, p, cred)
      PROVE  Inv'
  <2>0. PICK u \in Tables : RevocationEffect(s, p, u)
    BY <1>0, <1>4, RevokeInvitationFacts
  <2>1. /\ Commit(s, u, TRUE)
        /\ u.chain = db[s].chain
        /\ u.tombstones = db[s].tombstones
        /\ u.challenges = Pruned(db[s]).challenges
        /\ db[s].policies[p].state = "active"
        /\ u.policies[p] = [db[s].policies[p] EXCEPT !.state = "revoked"]
        /\ \A q \in PolicyIds \ {p} : u.policies[q] = db[s].policies[q]
    BY <2>0 DEF RevocationEffect
  <2>2. db[s].policies \in [PolicyIds -> PolicyRow]
    BY <1>0 DEF Tables
  <2>3. /\ u.policies[p].state = "revoked"
        /\ u.policies[p].uses = db[s].policies[p].uses
        /\ u.policies[p].head = db[s].policies[p].head
        /\ u.policies[p].issuer = db[s].policies[p].issuer
    BY <2>1, <2>2 DEF PolicyRow
  <2>4. \A q \in PolicyIds : db[s].policies[q].state = "none" => u.policies[q].uses = 0
    BY <1>0, <2>1, UnusedRow
  <2>5. \A q \in PolicyIds :
             \/ /\ db[s].policies[q].state = "none"
                /\ u.policies[q].uses = 0
             \/ /\ db[s].policies[q].state # "none"
                /\ u.policies[q].state # "none"
                /\ u.policies[q].uses = db[s].policies[q].uses
                /\ u.policies[q].head = db[s].policies[q].head
                /\ u.policies[q].issuer = db[s].policies[q].issuer
    BY <2>1, <2>3, <2>4
  <2>6. Consumed(u) = Consumed(db[s])
    BY <1>q, <2>1
  <2>7. SpaceInv(u)
    BY <1>0, <2>1, <2>5, <2>6, QuietPreserves
  <2> QED
    BY <2>1, <2>7, CommitPreserves
<1>5. ASSUME NEW s \in Spaces, NEW u \in Tables, NEW row \in ChallengeRow,
             IssueEffect(s, u, row)
      PROVE  Inv'
  <2>1. /\ Commit(s, u, FALSE) /\ u.chain = db[s].chain
        /\ u.tombstones = db[s].tombstones /\ u.policies = db[s].policies
        /\ u.challenges = Pruned(db[s]).challenges \cup {row} /\ row.intent = NoOne
    BY <1>5 DEF IssueEffect
  <2>2. Consumed(u) = Consumed(db[s])
    BY <1>0, <2>1, PrunedFacts DEF Consumed
  <2>3. \A q \in PolicyIds : db[s].policies[q].state = "none" => u.policies[q].uses = 0
    BY <1>0, <2>1, UnusedRow
  <2>4. SpaceInv(u)
    BY <1>0, <2>1, <2>2, <2>3, QuietPreserves
  <2> QED
    BY <2>1, <2>4, CommitPreserves
<1>6. ASSUME NEW s \in Spaces, NEW p \in PolicyIds, NEW cred \in Creds,
             NEW h \in 1..Len(db[s].chain), RegisterInvitation(s, p, cred, h)
      PROVE  Inv'
  <2>0. PICK u \in Tables : InvitationEffect(s, p, cred, h, u)
    BY <1>0, <1>6, RegisterInvitationFacts
  <2>1. /\ Commit(s, u, FALSE)
        /\ u.chain = db[s].chain
        /\ u.tombstones = db[s].tombstones
        /\ u.challenges = Pruned(db[s]).challenges
        /\ db[s].policies[p].state = "none"
        /\ u.policies[p] =
             [state |-> "active", issuer |-> cred, head |-> h, uses |-> 0]
        /\ \A q \in PolicyIds \ {p} : u.policies[q] = db[s].policies[q]
    BY <2>0 DEF InvitationEffect
  <2>2. \A q \in PolicyIds : db[s].policies[q].state = "none" => u.policies[q].uses = 0
    BY <1>0, <2>1, UnusedRow
  <2>3. \A q \in PolicyIds :
             \/ /\ db[s].policies[q].state = "none"
                /\ u.policies[q].uses = 0
             \/ /\ db[s].policies[q].state # "none"
                /\ u.policies[q].state # "none"
                /\ u.policies[q].uses = db[s].policies[q].uses
                /\ u.policies[q].head = db[s].policies[q].head
                /\ u.policies[q].issuer = db[s].policies[q].issuer
    BY <2>1, <2>2
  <2>4. Consumed(u) = Consumed(db[s])
    BY <1>q, <2>1
  <2>5. SpaceInv(u)
    BY <1>0, <2>1, <2>3, <2>4, QuietPreserves
  <2> QED
    BY <2>1, <2>5, CommitPreserves
<1>7. ASSUME NEW s \in Spaces, NEW ch \in db[s].challenges,
             NEW approval \in Approvals(db[s].chain),
             Admit(s, ch, approval) \/ AdmitV2(s, ch, approval)
      PROVE  Inv'
  <2>1. ch \in ChallengeRow /\ ch.intent = NoOne /\ db[s].chain # <<>>
    BY <1>0, <1>7, AdmitFacts
  <2>2. PICK u \in Tables, request \in Nat \cup RequestIds, c \in ConfigRecord :
          AdmissionEffect(s, ch, approval, u, request, c)
    BY <1>0, <1>7, AdmitFacts
  <2>3. SpaceInv(u)
    BY <1>0, <2>1, <2>2, AdmissionPreserves
  <2>4. Commit(s, u, FALSE)
    BY <2>2 DEF AdmissionEffect
  <2> QED
    BY <2>3, <2>4, CommitPreserves
<1>8. ASSUME NEW s \in Spaces, NEW cred \in Creds, OwnerUpdate(s, cred)
      PROVE  Inv'
  <2>1. PICK u \in Tables, c \in ConfigRecord : UpdateEffect(s, u, c)
    BY <1>0, <1>8, OwnerUpdateFacts
  <2>2. db[s].chain # <<>>
    BY <1>0, <1>8, OwnerUpdateFacts
  <2>3. SpaceInv(u)
    BY <1>0, <1>q, <2>1, <2>2, UpdatePreserves DEF UpdateEffect
  <2>4. /\ Commit(s, u, SecurityReduction(Tip(db[s].chain), c))
        /\ SecurityReduction(Tip(db[s].chain), c) \in BOOLEAN
    BY <2>1 DEF UpdateEffect, SecurityReduction
  <2> QED
    BY <2>3, <2>4, CommitPreserves
<1> QED
  BY <1>0, <1>1, <1>2, <1>3, <1>4, <1>5, <1>6, <1>7, <1>8,
     ChallengeFacts, ChallengeV2Facts
  DEF Next

\* The inductive invariant holds in every reachable state.
THEOREM Invariance == Spec => []Inv
BY InitInv, NextInv, PTL DEF Spec

\* For every policy the stored counter is the number of admissions in the
\* signed history that cite it, and never exceeds the owner's limit.
THEOREM UsesCorrect == Spec => []UsesMatchChain
<1>1. Inv => UsesMatchChain
  BY DEF Inv, SpaceInv, UsesMatchChain
<1> QED
  BY <1>1, Invariance, PTL

\* Challenge rows are consumed exactly by the admissions in the history, and
\* no challenge or durable request admits twice.
THEOREM ConsumptionCorrect == Spec => []ConsumptionMatchesChain
<1>1. Inv => ConsumptionMatchesChain
  BY DEF Inv, SpaceInv, ConsumptionMatchesChain
<1> QED
  BY <1>1, Invariance, PTL

\* The tombstone table is the set of devices that the history removed.
THEOREM TombstonesCorrect == Spec => []TombstonesMatchChain
<1>1. Inv => TombstonesMatchChain
  BY DEF Inv, SpaceInv, TombstonesMatchChain
<1> QED
  BY <1>1, Invariance, PTL

\* No identity that lost a device gains one by invitation without a
\* readmission approval from after that loss.
THEOREM ReadmissionSafe == Spec => []NoSilentReadmission
<1>1. Inv => NoSilentReadmission
  BY DEF Inv, SpaceInv, AdmissionInv, NoSilentReadmission
<1> QED
  BY <1>1, Invariance, PTL

\* Every admission rests on signers that were owners without a gap.
THEOREM GrantsSafe == Spec => []OldGrantsStayDead
<1>1. Inv => OldGrantsStayDead
  BY DEF Inv, SpaceInv, AdmissionInv, OldGrantsStayDead
<1> QED
  BY <1>1, Invariance, PTL

\* A key that was ever a member's never enters through an invitation again.
THEOREM RetirementSafe == Spec => []RetiredDevicesStayOut
<1>1. Inv => RetiredDevicesStayOut
  BY DEF Inv, SpaceInv, AdmissionInv, RetiredDevicesStayOut
<1> QED
  BY <1>1, Invariance, PTL

\* Invitations never change the owners or the creator's devices.
THEOREM OwnershipSafe == Spec => []InvitationsNeverMakeOwners
<1>1. Inv => InvitationsNeverMakeOwners
  BY DEF Inv, SpaceInv, AdmissionInv, InvitationsNeverMakeOwners
<1> QED
  BY <1>1, Invariance, PTL

\* The tables beside the signed history agree with it, for every Space.
THEOREM TablesCorrect == Spec => []TablesSound
BY TypeCorrect, UsesCorrect, ConsumptionCorrect, TombstonesCorrect, PTL
   DEF TablesSound

\* Removed devices stay out, and removed identities return only by a later readmission.
THEOREM RemovalSafe == Spec => []RemovedStayOut
BY ReadmissionSafe, RetirementSafe, PTL DEF RemovedStayOut

-----------------------------------------------------------------------------
(* Revocation.                                                              *)

RevokedStep(s, p) ==
    db[s].policies[p].state = "revoked" =>
      /\ db'[s].policies[p] = db[s].policies[p]
      /\ AdmissionsBy(db'[s].chain, p) = AdmissionsBy(db[s].chain, p)
      /\ {ch \in db'[s].challenges : ch.policy = p} \subseteq db[s].challenges

\* A transaction of another Space, or none, leaves the policy alone.
LEMMA RevokedElsewhere ==
    ASSUME NEW x \in Spaces, NEW p \in PolicyIds, db'[x] = db[x]
    PROVE  RevokedStep(x, p)
BY DEF RevokedStep

\* A configuration that is no admission by p leaves the admissions by p alone.
LEMMA AdmissionsByOthers ==
    ASSUME NEW chain \in Seq(ConfigRecord), NEW c \in ConfigRecord, NEW p \in PolicyIds,
           c.ev.kind # "admission" \/ c.ev.policy # p
    PROVE  AdmissionsBy(Append(chain, c), p) = AdmissionsBy(chain, p)
<1>1. CASE c.ev.kind # "admission"
  BY <1>1, AdmissionsAppend
<1>2. CASE c.ev.kind = "admission"
  <2>1. AdmissionsBy(Append(chain, c), p) =
          AdmissionsBy(chain, p) \cup (IF c.ev.policy = p THEN {Len(chain) + 1} ELSE {})
    BY <1>2, AdmissionsAppend
  <2>2. c.ev.policy # p
    BY <1>2
  <2> QED
    BY <2>1, <2>2
<1> QED
  BY <1>1, <1>2

LEMMA RevokedNext ==
    ASSUME TypeOK, [Next]_vars, NEW x \in Spaces, NEW p \in PolicyIds
    PROVE  RevokedStep(x, p)
<1> SUFFICES ASSUME db[x].policies[p].state = "revoked", db'[x] # db[x]
             PROVE  RevokedStep(x, p)
  BY RevokedElsewhere DEF RevokedStep
<1>0. /\ db[x] \in Tables /\ db[x].chain \in Seq(ConfigRecord)
      /\ Pruned(db[x]).challenges \subseteq db[x].challenges
      /\ Pruned(db[x]).policies = db[x].policies
  BY LoadedFacts, PrunedFacts DEF Tables
<1>c. ASSUME NEW s \in Spaces, NEW u \in Tables, NEW r \in BOOLEAN, Commit(s, u, r)
      PROVE  x = s /\ db'[x] = u
  BY <1>c, CommitFacts
<1>1. CASE UNCHANGED vars
  BY <1>1 DEF vars
<1>2. CASE Tick
  BY <1>2 DEF Tick
<1>3. ASSUME NEW s \in Spaces, Register(s) PROVE RevokedStep(x, p)
  <2> DEFINE u == WithChain(Pruned(db[s]), GenesisConfig)
  <2>1. u \in Tables /\ Commit(s, u, FALSE)
    BY <1>3, RegisterFacts
  <2>2. x = s /\ db'[x] = u
    BY <1>c, <2>1
  <2>a. Pruned(db[x]) \in Tables /\ Pruned(db[x]).chain = db[x].chain
    BY <1>0, PrunedFacts
  <2>b. GenesisConfig \in ConfigRecord /\ GenesisConfig.ev.kind # "admission"
    BY GenesisType DEF GenesisConfig
  <2>3. /\ u.chain = Append(db[x].chain, GenesisConfig) /\ u.policies = db[x].policies
        /\ u.challenges = Pruned(db[x]).challenges
    <3>1. LET w == WithChain(Pruned(db[x]), GenesisConfig)
          IN /\ w.chain = Append(Pruned(db[x]).chain, GenesisConfig)
             /\ w.policies = Pruned(db[x]).policies
             /\ w.challenges = Pruned(db[x]).challenges
      BY <2>a, <2>b, WithChainFacts
    <3>2. u = WithChain(Pruned(db[x]), GenesisConfig)
      BY <2>2
    <3> HIDE DEF u
    <3> QED
      BY <1>0, <2>a, <3>1, <3>2
  <2> HIDE DEF u
  <2>4. AdmissionsBy(u.chain, p) = AdmissionsBy(db[x].chain, p)
    BY <1>0, <2>3, <2>b, AdmissionsByOthers
  <2> QED
    BY <1>0, <2>2, <2>3, <2>4 DEF RevokedStep
<1>4. ASSUME NEW s \in Spaces, NEW q \in PolicyIds, NEW cred \in Creds,
             RevokeInvitation(s, q, cred)
      PROVE  RevokedStep(x, p)
  <2>1. PICK u \in Tables : RevocationEffect(s, q, u)
    BY <1>4, RevokeInvitationFacts
  <2>2. x = s /\ db'[x] = u
    BY <1>c, <2>1 DEF RevocationEffect
  <2> QED
    BY <1>0, <2>1, <2>2 DEF RevokedStep, RevocationEffect
<1>5. ASSUME NEW s \in Spaces, NEW u \in Tables, NEW row \in ChallengeRow,
             IssueEffect(s, u, row), PolicyUsable(Pruned(db[s]), row.policy)
      PROVE  RevokedStep(x, p)
  <2>1. x = s /\ db'[x] = u
    BY <1>5, <1>c DEF IssueEffect
  <2>2. row.policy # p
    BY <1>0, <1>5, <2>1 DEF PolicyUsable
  <2> QED
    BY <1>0, <1>5, <2>1, <2>2 DEF RevokedStep, IssueEffect
<1>6. ASSUME NEW s \in Spaces, NEW q \in PolicyIds, NEW cred \in Creds,
             NEW h \in 1..Len(db[s].chain), RegisterInvitation(s, q, cred, h)
      PROVE  RevokedStep(x, p)
  <2>1. PICK u \in Tables : InvitationEffect(s, q, cred, h, u)
    BY <1>6, RegisterInvitationFacts
  <2>2. x = s /\ db'[x] = u
    BY <1>c, <2>1 DEF InvitationEffect
  <2> QED
    BY <1>0, <2>1, <2>2 DEF RevokedStep, InvitationEffect
<1>7. ASSUME NEW s \in Spaces, NEW ch \in db[s].challenges,
             NEW approval \in Approvals(db[s].chain),
             Admit(s, ch, approval) \/ AdmitV2(s, ch, approval)
      PROVE  RevokedStep(x, p)
  <2>1. ch \in ChallengeRow
    BY <1>7, AdmitFacts
  <2>2. PICK u \in Tables, request \in Nat \cup RequestIds, c \in ConfigRecord :
          AdmissionEffect(s, ch, approval, u, request, c)
    BY <1>7, AdmitFacts
  <2>3. x = s /\ db'[x] = u
    BY <1>c, <2>2 DEF AdmissionEffect
  <2>4. ch.policy # p
    BY <1>0, <2>2, <2>3 DEF AdmissionEffect, PolicyUsable
  <2>5. c.ev.policy = ch.policy /\ c.ev.kind = "admission"
    BY <2>2 DEF AdmissionEffect, AdmissionConfig
  <2>6. u.chain = Append(db[x].chain, c)
    BY <2>2, <2>3 DEF AdmissionEffect
  <2>7. AdmissionsBy(u.chain, p) = AdmissionsBy(db[x].chain, p)
    BY <1>0, <2>2, <2>4, <2>5, <2>6, AdmissionsByOthers
  <2>8. [ch EXCEPT !.intent = request].policy = ch.policy
    BY <2>1 DEF ChallengeRow
  <2>9. {y \in u.challenges : y.policy = p} \subseteq db[x].challenges
    BY <1>0, <2>2, <2>3, <2>4, <2>8 DEF AdmissionEffect
  <2>10. u.policies[p] = db[x].policies[p]
    BY <2>2, <2>3, <2>4 DEF AdmissionEffect
  <2> QED
    BY <2>3, <2>7, <2>9, <2>10 DEF RevokedStep
<1>8. ASSUME NEW s \in Spaces, NEW cred \in Creds, OwnerUpdate(s, cred)
      PROVE  RevokedStep(x, p)
  <2>1. PICK u \in Tables, c \in ConfigRecord : UpdateEffect(s, u, c)
    BY <1>8, OwnerUpdateFacts
  <2>2. x = s /\ db'[x] = u
    BY <1>c, <2>1 DEF UpdateEffect, SecurityReduction
  <2>3. u.chain = Append(db[x].chain, c) /\ c.ev.kind # "admission"
    BY <2>1, <2>2 DEF UpdateEffect
  <2>4. AdmissionsBy(u.chain, p) = AdmissionsBy(db[x].chain, p)
    BY <1>0, <2>3, AdmissionsAppend
  <2> QED
    BY <1>0, <2>1, <2>2, <2>4 DEF RevokedStep, UpdateEffect
<1> QED
  BY <1>1, <1>2, <1>3, <1>4, <1>5, <1>6, <1>7, <1>8, ChallengeFacts, ChallengeV2Facts
  DEF Next

\* A revoked invitation stays revoked, admits nobody and issues no challenge.
THEOREM RevocationFinal == Spec => RevokedIsFinal
<1>1. TypeOK /\ [Next]_vars =>
        [\A s \in Spaces, p \in PolicyIds :
           db[s].policies[p].state = "revoked" =>
             /\ db'[s].policies[p] = db[s].policies[p]
             /\ AdmissionsBy(db'[s].chain, p) = AdmissionsBy(db[s].chain, p)
             /\ {ch \in db'[s].challenges : ch.policy = p} \subseteq db[s].challenges]_vars
  BY RevokedNext DEF RevokedStep
<1> QED
  BY <1>1, TypeCorrect, PTL DEF Spec, RevokedIsFinal

-----------------------------------------------------------------------------
(* The journal has room for every reduction that was booked.  The events    *)
(* are counted as pairs of a Space and a number, of which every registered  *)
(* Space has at most ReservedEvents.                                        *)

Recorded == {x \in Spaces \X (1..ReservedEvents) : x[2] =< usage[x[1]]}

BudgetInv ==
    /\ IsFiniteSet(Registered)
    /\ Cardinality(Registered) * ReservedEvents =< JournalEvents
    /\ \A s \in Spaces : /\ usage[s] =< ReservedEvents
                         /\ s \notin Registered => usage[s] = 0
    /\ IsFiniteSet(Recorded)
    /\ Cardinality(Recorded) = position

\* A command, registration included, that Commit takes.
Journaled(s, tables, reduction) ==
    /\ Commit(s, tables, reduction)
    /\ tables.chain # <<>>
    /\ s \notin Registered => ReserveSpace

\* Every step of the journal is a command of one Space.
LEMMA StepsAreJournaled ==
    ASSUME TypeOK, Next
    PROVE  \/ Tick
           \/ \E s \in Spaces, tables \in Tables, reduction \in BOOLEAN :
                Journaled(s, tables, reduction)
<1> DEFINE Goal == \E s \in Spaces, tables \in Tables, reduction \in BOOLEAN :
                     Journaled(s, tables, reduction)
<1>1. \A s \in Spaces : db[s] \in Tables /\ db[s].chain \in Seq(ConfigRecord)
  BY DEF TypeOK, Tables
<1>2. \A s \in Spaces, c \in ConfigRecord : Append(db[s].chain, c) # <<>>
  BY <1>1
<1>3. \A s \in Spaces : Loaded(s) => s \in Registered /\ db[s].chain # <<>>
  BY DEF Loaded, Registered
<1>4. ASSUME NEW s \in Spaces, Register(s) PROVE Goal
  <2>1. /\ WithChain(Pruned(db[s]), GenesisConfig) \in Tables
        /\ Commit(s, WithChain(Pruned(db[s]), GenesisConfig), FALSE) /\ db[s].chain = <<>>
    BY <1>4, RegisterFacts
  <2>2. /\ ReserveSpace
        /\ WithChain(Pruned(db[s]), GenesisConfig).chain = Append(Pruned(db[s]).chain, GenesisConfig)
    BY <1>4, WithChainFacts, LoadedFacts, GenesisType DEF Register
  <2>3. Pruned(db[s]).chain = db[s].chain
    BY <1>1, PrunedFacts
  <2>4. Append(db[s].chain, GenesisConfig) # <<>>
    BY <1>2, GenesisType
  <2> QED
    BY <2>1, <2>2, <2>3, <2>4 DEF Journaled
<1>5. ASSUME NEW s \in Spaces, NEW p \in PolicyIds, NEW cred \in Creds,
             RevokeInvitation(s, p, cred)
      PROVE  Goal
  <2>1. PICK tables \in Tables : RevocationEffect(s, p, tables)
    BY <1>5, RevokeInvitationFacts
  <2>2. Loaded(s)
    BY <1>5 DEF RevokeInvitation
  <2>3. Journaled(s, tables, TRUE)
    BY <1>3, <2>1, <2>2 DEF Journaled, RevocationEffect
  <2> QED
    BY <2>3
<1>6. ASSUME NEW s \in Spaces, NEW p \in PolicyIds, NEW cred \in Creds,
             Challenge(s, p, cred)
      PROVE  Goal
  <2>1. PICK tables \in Tables, row \in ChallengeRow : IssueEffect(s, tables, row)
    BY <1>6, ChallengeFacts
  <2>2. Loaded(s)
    BY <1>6 DEF Challenge
  <2>3. Journaled(s, tables, FALSE)
    BY <1>3, <2>1, <2>2 DEF Journaled, IssueEffect
  <2> QED
    BY <2>3
<1>7. ASSUME NEW s \in Spaces, NEW r \in RequestIds, ChallengeV2(s, r) PROVE Goal
  <2>1. PICK tables \in Tables, row \in ChallengeRow : IssueEffect(s, tables, row)
    BY <1>7, ChallengeV2Facts
  <2>2. Loaded(s)
    BY <1>7 DEF ChallengeV2
  <2>3. Journaled(s, tables, FALSE)
    BY <1>3, <2>1, <2>2 DEF Journaled, IssueEffect
  <2> QED
    BY <2>3
<1>8. ASSUME NEW s \in Spaces, NEW p \in PolicyIds, NEW cred \in Creds,
             NEW h \in 1..Len(db[s].chain), RegisterInvitation(s, p, cred, h)
      PROVE  Goal
  <2>1. PICK tables \in Tables : InvitationEffect(s, p, cred, h, tables)
    BY <1>8, RegisterInvitationFacts
  <2>2. Loaded(s)
    BY <1>8 DEF RegisterInvitation
  <2>3. Journaled(s, tables, FALSE)
    BY <1>3, <2>1, <2>2 DEF Journaled, InvitationEffect
  <2> QED
    BY <2>3
<1>9. ASSUME NEW s \in Spaces, NEW ch \in db[s].challenges,
             NEW approval \in Approvals(db[s].chain),
             Admit(s, ch, approval) \/ AdmitV2(s, ch, approval)
      PROVE  Goal
  <2>1. /\ db[s].chain # <<>>
        /\ \E tables \in Tables, request \in Nat \cup RequestIds, c \in ConfigRecord :
             AdmissionEffect(s, ch, approval, tables, request, c)
    BY <1>9, AdmitFacts
  <2>2. PICK tables \in Tables, request \in Nat \cup RequestIds, c \in ConfigRecord :
          AdmissionEffect(s, ch, approval, tables, request, c)
    BY <2>1
  <2>3. Commit(s, tables, FALSE) /\ tables.chain = Append(db[s].chain, c)
    BY <2>2 DEF AdmissionEffect
  <2>4. Journaled(s, tables, FALSE)
    BY <1>2, <2>1, <2>3 DEF Journaled, Registered
  <2> QED
    BY <2>4
<1>10. ASSUME NEW s \in Spaces, NEW cred \in Creds, OwnerUpdate(s, cred) PROVE Goal
  <2>1. db[s].chain # <<>> /\ \E tables \in Tables, c \in ConfigRecord : UpdateEffect(s, tables, c)
    BY <1>10, OwnerUpdateFacts
  <2>2. PICK tables \in Tables, c \in ConfigRecord : UpdateEffect(s, tables, c)
    BY <2>1
  <2>3. /\ Commit(s, tables, SecurityReduction(Tip(db[s].chain), c))
        /\ tables.chain = Append(db[s].chain, c)
    BY <2>2 DEF UpdateEffect
  <2>4. Journaled(s, tables, SecurityReduction(Tip(db[s].chain), c))
    BY <1>2, <2>1, <2>3 DEF Journaled, Registered
  <2>5. SecurityReduction(Tip(db[s].chain), c) \in BOOLEAN
    BY DEF SecurityReduction
  <2> QED
    BY <2>4, <2>5
<1> HIDE DEF Goal
<1>11. Tick \/ Goal
  BY <1>4, <1>5, <1>6, <1>7, <1>8, <1>9, <1>10 DEF Next
<1> QED
  BY <1>11 DEF Goal

\* A command is counted where it is recorded.
LEMMA JournaledKeepsBudget ==
    ASSUME TypeOK, BudgetInv, NEW s \in Spaces, NEW tables \in Tables,
           NEW reduction \in BOOLEAN, Journaled(s, tables, reduction)
    PROVE  BudgetInv'
<1> DEFINE n == usage[s] + 1
<1>1. /\ db' = [db EXCEPT ![s] = tables] /\ usage' = [usage EXCEPT ![s] = n]
      /\ position' = position + 1 /\ tables.chain # <<>>
      /\ n =< IF reduction THEN ReservedEvents ELSE NormalEvents
  BY DEF Journaled, Commit
<1>2. /\ db \in [Spaces -> Tables] /\ usage \in [Spaces -> Nat] /\ position \in Nat
      /\ ReservedEvents \in Nat /\ NormalEvents \in Nat /\ JournalEvents \in Nat
      /\ NormalEvents =< ReservedEvents
  BY BoundAssumption DEF TypeOK
<1>3. n \in 1..ReservedEvents
  <2>1. usage[s] \in Nat
    BY <1>2
  <2>2. n =< ReservedEvents
    BY <1>1, <1>2, <2>1
  <2> QED
    BY <1>2, <2>1, <2>2
<1>4. Registered' = Registered \cup {s}
  BY <1>1, <1>2 DEF Registered
<1>5. /\ IsFiniteSet(Registered')
      /\ Cardinality(Registered') = IF s \in Registered THEN Cardinality(Registered)
                                    ELSE Cardinality(Registered) + 1
  BY <1>4, FS_AddElement DEF BudgetInv
<1>6. Cardinality(Registered') * ReservedEvents =< JournalEvents
  <2>1. CASE s \in Registered
    BY <1>5, <2>1 DEF BudgetInv
  <2>2. CASE s \notin Registered
    BY <1>5, <2>2 DEF Journaled, ReserveSpace
  <2> QED
    BY <2>1, <2>2
<1>7. Recorded' = Recorded \cup {<<s, n>>} /\ <<s, n>> \notin Recorded
  <2>1. <<s, n>> \notin Recorded
    <3>1. usage[s] \in Nat /\ ~(n =< usage[s])
      BY <1>2
    <3> QED
      BY <3>1 DEF Recorded
  <2>2. ASSUME NEW x \in Spaces \X (1..ReservedEvents)
        PROVE  x[2] =< usage'[x[1]] <=> x[2] =< usage[x[1]] \/ x = <<s, n>>
    <3>1. x[1] \in Spaces /\ x[2] \in Nat /\ x = <<x[1], x[2]>>
      BY <1>2
    <3>2. CASE x[1] = s
      <4>1. usage'[x[1]] = n /\ usage[x[1]] \in Nat /\ usage[x[1]] = usage[s]
        BY <1>1, <1>2, <3>2
      <4>2. x = <<s, n>> <=> x[2] = n
        BY <3>1, <3>2
      <4> QED
        BY <3>1, <4>1, <4>2
    <3>3. CASE x[1] # s
      BY <1>1, <1>2, <3>1, <3>3
    <3> QED
      BY <3>2, <3>3
  <2>3. <<s, n>> \in Spaces \X (1..ReservedEvents)
    BY <1>3
  <2>4. Recorded' = {x \in Spaces \X (1..ReservedEvents) : x[2] =< usage'[x[1]]}
    BY DEF Recorded
  <2> HIDE DEF n
  <2> QED
    BY <2>1, <2>2, <2>3, <2>4 DEF Recorded
<1>8. IsFiniteSet(Recorded') /\ Cardinality(Recorded') = position'
  BY <1>1, <1>7, FS_AddElement DEF BudgetInv
<1>9. ASSUME NEW x \in Spaces
      PROVE  usage'[x] =< ReservedEvents /\ (x \notin Registered' => usage'[x] = 0)
  <2>1. CASE x = s
    BY <1>1, <1>2, <1>3, <1>4, <2>1
  <2>2. CASE x # s
    <3>1. usage'[x] = usage[x] /\ (x \notin Registered' => x \notin Registered)
      BY <1>1, <1>2, <1>4, <2>2
    <3> QED
      BY <3>1 DEF BudgetInv
  <2> QED
    BY <2>1, <2>2
<1> QED
  BY <1>5, <1>6, <1>8, <1>9 DEF BudgetInv

LEMMA InitBudget == Init => BudgetInv
<1> SUFFICES ASSUME Init PROVE BudgetInv
  OBVIOUS
<1>1. Registered = {}
  BY DEF Init, Registered, EmptyTables
<1>2. Recorded = {}
  <2>1. \A x \in Spaces \X (1..ReservedEvents) : ~(x[2] =< usage[x[1]])
    BY BoundAssumption DEF Init
  <2> QED
    BY <2>1 DEF Recorded
<1>3. 0 * ReservedEvents =< JournalEvents /\ 0 =< ReservedEvents
  BY BoundAssumption
<1> QED
  BY <1>1, <1>2, <1>3, FS_EmptySet DEF BudgetInv, Init

LEMMA NextBudget == TypeOK /\ BudgetInv /\ [Next]_vars => BudgetInv'
<1> SUFFICES ASSUME TypeOK, BudgetInv, [Next]_vars PROVE BudgetInv'
  OBVIOUS
<1>1. CASE UNCHANGED vars \/ Tick
  <2>1. UNCHANGED <<db, usage, position>>
    BY <1>1 DEF vars, Tick
  <2> QED
    BY <2>1 DEF BudgetInv, Recorded, Registered
<1>2. CASE Next /\ ~Tick
  BY <1>2, StepsAreJournaled, JournaledKeepsBudget
<1> QED
  BY <1>1, <1>2

LEMMA BudgetLeavesRoom == TypeOK /\ BudgetInv => RevocationHeadroom
<1> SUFFICES ASSUME TypeOK, BudgetInv, NEW s \in Registered, usage[s] < ReservedEvents
             PROVE  position < JournalEvents
  BY DEF RevocationHeadroom
<1> DEFINE all == Registered \X (1..ReservedEvents)
<1>1. /\ usage \in [Spaces -> Nat] /\ ReservedEvents \in Nat /\ JournalEvents \in Nat
      /\ position \in Nat /\ s \in Spaces /\ usage[s] \in Nat
  BY BoundAssumption DEF TypeOK, Registered
<1>2. IsFiniteSet(1..ReservedEvents) /\ Cardinality(1..ReservedEvents) = ReservedEvents
  BY <1>1, FS_Interval
<1>3. IsFiniteSet(all) /\ Cardinality(all) = Cardinality(Registered) * ReservedEvents
  BY <1>2, FS_Product DEF BudgetInv
<1>4. Recorded \subseteq all
  <2>1. ASSUME NEW x \in Recorded PROVE x \in all
    <3>1. x \in Spaces \X (1..ReservedEvents) /\ x[2] =< usage[x[1]] /\ x[1] \in Spaces /\ x[2] >= 1
      BY <1>1 DEF Recorded
    <3>2. x[1] \in Registered
      BY <1>1, <3>1 DEF BudgetInv
    <3> QED
      BY <3>1, <3>2
  <2> QED
    BY <2>1
<1>5. <<s, ReservedEvents>> \in all /\ <<s, ReservedEvents>> \notin Recorded
  BY <1>1 DEF Recorded
<1>6. Cardinality(Recorded) =< Cardinality(all) /\ Cardinality(Recorded) # Cardinality(all)
  <2> HIDE DEF all
  <2> QED
    BY <1>3, <1>4, <1>5, FS_Subset
<1>7. Cardinality(all) \in Nat /\ Cardinality(all) =< JournalEvents
  BY <1>3, FS_CardinalityType DEF BudgetInv
<1> QED
  BY <1>1, <1>6, <1>7 DEF BudgetInv

\* However many Spaces share the journal, one that has not used its reserved events
\* can still record a revocation or a removal (reserve_space, append_with_budget).
THEOREM HeadroomSafe == Spec => []RevocationHeadroom
<1>1. Spec => []BudgetInv
  BY TypeCorrect, InitBudget, NextBudget, PTL DEF Spec
<1> QED
  BY <1>1, TypeCorrect, BudgetLeavesRoom, PTL
=============================================================================
