--------------------------- MODULE CognitionProofs ---------------------------
(* Safety of the cognitive pipeline, of the replay lab's views of what it      *)
(* recorded, of the authority over memories and of the advice about their      *)
(* failures, for every value of their constants.                               *)
EXTENDS MemoryAuthority, MemorySafety, ReplayLab, SequenceTheorems, FiniteSetTheorems, TLAPS

-----------------------------------------------------------------------------
(* The authority of memories. Every chain in the file continues as the         *)
(* projector expects, and nothing follows an end state, because an append      *)
(* compares revision and state with the latest receipt; what was checked       *)
(* before (the transition is valid, the decisions shown suffice for an         *)
(* admission, the receipt names the same ones) does not depend on the file and *)
(* holds of every draft and of every receipt with what it was authorized with. *)

Sound(p, ds) ==
  /\ p.to \in validTransitions(p.from)
  /\ p.to = "admitted" => approvalValid(p, ds)
  /\ contractBinds(p, ds)

HasLatest(S) == S # {} => \E i \in S : \A j \in S : j <= i

ChainsInv(f) ==
  \A m \in Memories :
    /\ HasLatest(chain(f, m))
    /\ \A i \in chain(f, m) : HasLatest(before(f, m, i)) /\ continues(f, m, i)
    /\ \A i, j \in chain(f, m) : isTerminal(f[i].to) => j <= i

FileInv(f, ds) ==
  /\ f \in Seq(Payload)
  /\ \A i \in DOMAIN f : Sound(f[i], ds[f[i].request])
  /\ \A i, j \in DOMAIN f : f[i].request = f[j].request => i = j
  /\ loads(f)
  /\ ChainsInv(f)

AuthorityInv ==
  /\ FileInv(file, authorized)
  /\ draft \in [Callers -> Input \cup {None}]
  /\ authorized \in [Requests -> SUBSET Decision]
  /\ \A c \in Callers : draft[c] # None => Sound(draft[c].receipt, draft[c].decisions)

LEMMA MaxFacts ==
  ASSUME NEW S \in SUBSET Int, S # {}, HasLatest(S)
  PROVE  Max(S) \in S /\ \A j \in S : j <= Max(S)
  <1>1. \E i \in S : \A j \in S : i >= j
    BY DEF HasLatest
  <1> QED BY <1>1 DEF Max

LEMMA LatestFacts ==
  ASSUME NEW f \in Seq(Payload), NEW m \in Memories, chain(f, m) # {}, HasLatest(chain(f, m))
  PROVE  /\ Max(chain(f, m)) \in chain(f, m) /\ \A j \in chain(f, m) : j <= Max(chain(f, m))
         /\ latest(f, m) \in Payload
  <1>1. chain(f, m) \subseteq DOMAIN f /\ DOMAIN f \subseteq Int
    BY DEF chain
  <1>2. chain(f, m) \in SUBSET Int
    BY <1>1
  <1>3. Max(chain(f, m)) \in chain(f, m) /\ \A j \in chain(f, m) : j <= Max(chain(f, m))
    BY <1>2, MaxFacts
  <1> QED BY <1>1, <1>3 DEF latest

(* The revision an append expects is the length of the chain.                  *)
LEMMA RevisionIsLength ==
  ASSUME NEW f, NEW ds, FileInv(f, ds), NEW m \in Memories
  PROVE  currentRevision(f, m) = Cardinality(chain(f, m)) /\ currentRevision(f, m) \in Nat
  <1>0. f \in Seq(Payload) /\ HasLatest(chain(f, m)) /\ \A i \in chain(f, m) : continues(f, m, i)
    BY DEF FileInv, ChainsInv
  <1>1. CASE chain(f, m) = {}
    BY <1>1, FS_EmptySet DEF currentRevision
  <1>2. CASE chain(f, m) # {}
    <2>1. PICK last \in chain(f, m) : last = Max(chain(f, m)) /\ \A j \in chain(f, m) : j <= last
      BY <1>0, <1>2, LatestFacts
    <2>2. IsFiniteSet(chain(f, m))
      <3>1. IsFiniteSet(1 .. Len(f)) /\ chain(f, m) \subseteq 1 .. Len(f)
        BY <1>0, FS_Interval DEF chain
      <3> QED BY <3>1, FS_Subset
    <2>3. before(f, m, last) = chain(f, m) \ {last}
      <3>1. chain(f, m) \subseteq Int
        BY <1>0 DEF chain
      <3> QED BY <2>1, <3>1 DEF before
    <2>4. Cardinality(before(f, m, last)) = Cardinality(chain(f, m)) - 1
      BY <2>1, <2>2, <2>3, FS_RemoveElement
    <2>5. f[last].expected = Cardinality(before(f, m, last)) /\ f[last].expected \in Nat
      <3>1. f[last] \in Payload
        BY <1>0, <2>1 DEF chain
      <3> QED BY <1>0, <2>1, <3>1 DEF continues, Payload
    <2>6. Cardinality(chain(f, m)) \in Nat
      BY <2>2, FS_CardinalityType
    <2> QED BY <1>2, <2>1, <2>4, <2>5, <2>6 DEF currentRevision, latest
  <1> QED BY <1>1, <1>2

(* What an append does to the chains.                                          *)
LEMMA AppendFacts ==
  ASSUME NEW f \in Seq(Payload), NEW p \in Payload, NEW g, g = Append(f, p), NEW n, n = Len(f) + 1
  PROVE  /\ g \in Seq(Payload) /\ DOMAIN g = DOMAIN f \cup {n} /\ DOMAIN f \subseteq Nat /\ n \in Nat
         /\ g[n] = p /\ \A i \in DOMAIN f : g[i] = f[i] /\ i < n
         /\ \A i \in DOMAIN f : SubSeq(g, 1, i - 1) = SubSeq(f, 1, i - 1)
         /\ SubSeq(g, 1, n - 1) = f
  <1>1. Len(f) \in Nat /\ DOMAIN f = 1 .. Len(f) /\ n \in Nat
    OBVIOUS
  <1>2. g \in Seq(Payload) /\ Len(g) = n /\ g[n] = p /\ \A i \in 1 .. Len(f) : g[i] = f[i]
    BY <1>1, AppendProperties
  <1>3. DOMAIN g = DOMAIN f \cup {n}
    BY <1>1, <1>2
  <1>4. ASSUME NEW i \in 1 .. n PROVE SubSeq(g, 1, i - 1) = SubSeq(f, 1, i - 1)
    <2>1. Len(SubSeq(g, 1, i - 1)) = i - 1 /\ Len(SubSeq(f, 1, i - 1)) = i - 1
      BY <1>1, <1>2
    <2>2. \A j \in 1 .. i - 1 : SubSeq(g, 1, i - 1)[j] = SubSeq(f, 1, i - 1)[j]
      BY <1>1, <1>2
    <2>3. SubSeq(g, 1, i - 1) \in Seq(Payload) /\ SubSeq(f, 1, i - 1) \in Seq(Payload)
      BY <1>1, <1>2
    <2> QED BY <2>1, <2>2, <2>3, SeqEqual
  <1>5. SubSeq(f, 1, n - 1) = f
    <2>1. SubSeq(f, 1, n - 1) \in Seq(Payload) /\ Len(SubSeq(f, 1, n - 1)) = Len(f)
      BY <1>1
    <2>2. \A j \in 1 .. Len(f) : SubSeq(f, 1, n - 1)[j] = f[j]
      BY <1>1
    <2> QED BY <1>1, <2>1, <2>2, SeqEqual
  <1> QED BY <1>1, <1>2, <1>3, <1>4, <1>5

LEMMA StoredKeepsChain ==
  ASSUME NEW f, NEW ds, FileInv(f, ds), NEW p \in Payload, NEW d, Sound(p, d), appends(f, p),
         NEW g, g = Append(f, p), NEW m \in Memories
  PROVE  /\ HasLatest(chain(g, m))
         /\ \A i \in chain(g, m) : HasLatest(before(g, m, i)) /\ continues(g, m, i)
         /\ \A i, j \in chain(g, m) : isTerminal(g[i].to) => j <= i
  <1>0. PICK n : n = Len(f) + 1
    OBVIOUS
  <1>1. /\ f \in Seq(Payload) /\ HasLatest(chain(f, m))
        /\ \A i \in chain(f, m) : HasLatest(before(f, m, i)) /\ continues(f, m, i)
        /\ \A i, j \in chain(f, m) : isTerminal(f[i].to) => j <= i
    BY DEF FileInv, ChainsInv
  <1>2. /\ DOMAIN f \subseteq Nat /\ n \in Nat /\ g[n] = p /\ \A i \in DOMAIN f : g[i] = f[i] /\ i < n
    BY <1>0, <1>1, AppendFacts
  <1>3. /\ chain(g, m) = IF p.memory = m THEN chain(f, m) \cup {n} ELSE chain(f, m)
        /\ \A i \in DOMAIN f : before(g, m, i) = before(f, m, i)
        /\ before(g, m, n) = chain(f, m)
        /\ \A i \in chain(f, m) : before(f, m, i) \in SUBSET DOMAIN f
        /\ chain(f, m) \in SUBSET DOMAIN f /\ n \notin chain(f, m)
    <2>1. DOMAIN g = DOMAIN f \cup {n}
      BY <1>0, <1>1, AppendFacts
    <2>2. chain(g, m) = IF p.memory = m THEN chain(f, m) \cup {n} ELSE chain(f, m)
      BY <1>2, <2>1 DEF chain
    <2>3. chain(f, m) \in SUBSET DOMAIN f /\ n \notin chain(f, m)
      BY <1>2 DEF chain
    <2>4. \A i \in DOMAIN f : before(g, m, i) = before(f, m, i)
      BY <1>2, <2>2, <2>3 DEF before
    <2>5. before(g, m, n) = chain(f, m)
      BY <1>2, <2>2, <2>3 DEF before
    <2> QED BY <2>2, <2>3, <2>4, <2>5 DEF before
  <1>4. ASSUME NEW i \in chain(f, m) PROVE HasLatest(before(g, m, i)) /\ continues(g, m, i)
    <2>1. before(g, m, i) = before(f, m, i) /\ g[i] = f[i] /\ HasLatest(before(f, m, i)) /\ continues(f, m, i)
      BY <1>1, <1>2, <1>3
    <2>2. ASSUME before(f, m, i) # {} PROVE g[Max(before(f, m, i))] = f[Max(before(f, m, i))]
      <3>1. before(f, m, i) \in SUBSET Int
        BY <1>2, <1>3
      <3>2. Max(before(f, m, i)) \in before(f, m, i)
        BY <2>1, <2>2, <3>1, MaxFacts
      <3> QED BY <1>2, <1>3, <3>2
    <2> QED BY <2>1, <2>2 DEF continues
  <1>5. CASE p.memory # m
    <2>1. chain(g, m) = chain(f, m)
      BY <1>3, <1>5
    <2> QED BY <1>1, <1>2, <1>3, <1>4, <2>1
  <1>6. CASE p.memory = m
    <2>1. chain(g, m) = chain(f, m) \cup {n}
      BY <1>3, <1>6
    <2>2. HasLatest(chain(g, m))
      BY <1>2, <1>3, <2>1 DEF HasLatest
    <2>3. p.expected = Cardinality(chain(f, m))
      BY <1>6, RevisionIsLength DEF appends, rightRevision
    <2>4. ASSUME chain(f, m) # {}
          PROVE  /\ Max(chain(f, m)) \in chain(f, m) /\ \A j \in chain(f, m) : j <= Max(chain(f, m))
                 /\ p.from = f[Max(chain(f, m))].to /\ ~isTerminal(f[Max(chain(f, m))].to)
      <3>1. Max(chain(f, m)) \in chain(f, m) /\ \A j \in chain(f, m) : j <= Max(chain(f, m))
        BY <1>1, <2>4, LatestFacts
      <3>2. p.from = f[Max(chain(f, m))].to
        BY <1>6, <2>4 DEF appends, rightState, latest
      <3>3. ~isTerminal(p.from)
        BY DEF Sound, validTransitions, isTerminal
      <3> QED BY <3>1, <3>2, <3>3
    <2>5. HasLatest(before(g, m, n)) /\ continues(g, m, n)
      <3>1. chain(f, m) # {} => g[Max(chain(f, m))] = f[Max(chain(f, m))]
        BY <1>2, <1>3, <2>4
      <3> QED BY <1>1, <1>2, <1>3, <2>3, <2>4, <3>1 DEF continues, Sound
    <2>6. ASSUME NEW i \in chain(g, m), NEW j \in chain(g, m), isTerminal(g[i].to) PROVE j <= i
      <3>1. CASE i = n
        BY <1>2, <1>3, <2>1, <3>1
      <3>2. CASE i \in chain(f, m)
        <4>1. isTerminal(f[i].to) /\ \A k \in chain(f, m) : k <= i
          BY <1>1, <1>2, <1>3, <2>6, <3>2
        <4>2. Max(chain(f, m)) = i
          BY <1>2, <1>3, <2>4, <3>2, <4>1
        <4> QED BY <2>4, <3>2, <4>1, <4>2
      <3> QED BY <2>1, <3>1, <3>2
    <2> QED BY <1>4, <2>1, <2>2, <2>5, <2>6
  <1> QED BY <1>5, <1>6

LEMMA StoredKeeps ==
  ASSUME NEW f, NEW ds \in [Requests -> SUBSET Decision], FileInv(f, ds),
         NEW p \in Payload, NEW d \in SUBSET Decision, Sound(p, d), NEW g, g = stored(f, p),
         NEW es, es = IF appends(f, p) THEN [ds EXCEPT ![p.request] = d] ELSE ds
  PROVE  FileInv(g, es) /\ es \in [Requests -> SUBSET Decision]
  <1>1. CASE ~appends(f, p)
    BY <1>1 DEF stored
  <1>2. CASE appends(f, p)
    <2>0. PICK n : n = Len(f) + 1
      OBVIOUS
    <2>1. g = Append(f, p) /\ f \in Seq(Payload)
      BY <1>2 DEF stored, FileInv
    <2>2. /\ g \in Seq(Payload) /\ DOMAIN g = DOMAIN f \cup {n} /\ g[n] = p /\ \A i \in DOMAIN f : g[i] = f[i]
          /\ \A i \in DOMAIN f : SubSeq(g, 1, i - 1) = SubSeq(f, 1, i - 1)
          /\ SubSeq(g, 1, n - 1) = f
      BY <2>0, <2>1, AppendFacts
    <2>7. es = [ds EXCEPT ![p.request] = d] /\ p.request \in Requests /\ es[p.request] = d
      BY <1>2 DEF Payload
    <2>3. \A i \in DOMAIN g : Sound(g[i], es[g[i].request])
      <3>3. \A i \in DOMAIN f : f[i] \in Payload
        BY <2>1
      <3>4. \A i \in DOMAIN f : f[i].request # p.request
        BY <1>2 DEF appends, sameRequest
      <3>1. \A i \in DOMAIN f : f[i].request # p.request /\ f[i].request \in Requests
        BY <3>3, <3>4 DEF Payload
      <3>2. \A i \in DOMAIN f : es[f[i].request] = ds[f[i].request]
        BY <2>7, <3>1
      <3> QED BY <2>2, <2>7, <3>2 DEF FileInv
    <2>4. \A i, j \in DOMAIN g : g[i].request = g[j].request => i = j
      <3>1. \A i \in DOMAIN f : f[i].request # p.request
        BY <1>2 DEF appends, sameRequest
      <3> QED BY <2>2, <3>1 DEF FileInv
    <2>5. loads(g)
      BY <1>2, <2>2 DEF FileInv, loads
    <2>6. ChainsInv(g)
      BY <1>2, <2>1, StoredKeepsChain DEF ChainsInv
    <2> QED BY <2>2, <2>3, <2>4, <2>5, <2>6, <2>7 DEF FileInv
  <1> QED BY <1>1, <1>2

LEMMA PrepareKeeps ==
  ASSUME AuthorityInv, NEW c \in Callers, Prepare(c)
  PROVE  AuthorityInv'
  <1>1. PICK m \in Memories, rq \in Requests, to \in States, ex \in Executors, a \in Approvals, ds \in Approvals :
          \E from \in statesRead(m), rep \in IF to = "superseded" THEN Memories \cup {None} ELSE {None} :
            LET p == [memory |-> m, request |-> rq, from |-> from, to |-> to,
                      expected |-> currentRevision(file, m), executor |-> ex,
                      approvals |-> a, replacement |-> rep]
            IN /\ contractBinds(p, ds)
               /\ \E proofs \in statedProofs(to, rep) : validTransition(p, ds, proofs)
               /\ draft' = [draft EXCEPT ![c] = [receipt |-> p, decisions |-> ds]]
    BY DEF Prepare
  <1>2. PICK from \in statesRead(m), rep \in Memories \cup {None} :
          \E p : /\ p = [memory |-> m, request |-> rq, from |-> from, to |-> to,
                         expected |-> currentRevision(file, m), executor |-> ex, approvals |-> a, replacement |-> rep]
                 /\ contractBinds(p, ds)
                 /\ \E proofs \in statedProofs(to, rep) : validTransition(p, ds, proofs)
                 /\ draft' = [draft EXCEPT ![c] = [receipt |-> p, decisions |-> ds]]
    BY <1>1
  <1>10. PICK p : /\ p = [memory |-> m, request |-> rq, from |-> from, to |-> to,
                         expected |-> currentRevision(file, m), executor |-> ex, approvals |-> a, replacement |-> rep]
                 /\ contractBinds(p, ds)
                 /\ \E proofs \in statedProofs(to, rep) : validTransition(p, ds, proofs)
                 /\ draft' = [draft EXCEPT ![c] = [receipt |-> p, decisions |-> ds]]
    BY <1>2
  <1>3. PICK n \in Nat : n = currentRevision(file, m)
    BY RevisionIsLength DEF AuthorityInv
  <1>4. from \in States
    <2>1. file \in Seq(Payload) /\ HasLatest(chain(file, m))
      BY DEF AuthorityInv, FileInv, ChainsInv
    <2> QED BY <2>1, LatestFacts, AuthorityAssumption DEF statesRead, Payload
  <1>5. ex \in ActorTypes /\ a \in SUBSET Decision /\ ds \in SUBSET Decision
    BY AuthorityAssumption
  <1>6. p \in Payload
    BY <1>10, <1>3, <1>4, <1>5 DEF Payload
  <1>7. Sound(p, ds)
    BY <1>10, <1>6 DEF validTransition, Sound
  <1>8. PICK sent \in Input : /\ sent.receipt = p /\ sent.decisions = ds
                             /\ draft' = [draft EXCEPT ![c] = sent]
    BY <1>10, <1>5, <1>6 DEF Input
  <1>11. /\ draft' \in [Callers -> Input \cup {None}]
         /\ \A x \in Callers : draft'[x] = IF x = c THEN sent ELSE draft[x]
    BY <1>8 DEF AuthorityInv
  <1>9. file' = file /\ authorized' = authorized
    BY DEF Prepare
  <1> QED BY <1>7, <1>8, <1>9, <1>11 DEF AuthorityInv

LEMMA ExecuteKeeps ==
  ASSUME AuthorityInv, NEW c \in Callers, GiveUp(c) \/ \E again \in BOOLEAN : Execute(c, again)
  PROVE  AuthorityInv'
  <1>1. draft' = draft \/ draft' = [draft EXCEPT ![c] = None]
    BY DEF GiveUp, Execute
  <1>2. draft' \in [Callers -> Input \cup {None}] /\ \A x \in Callers : draft'[x] \in {draft[x], None}
    BY <1>1 DEF AuthorityInv
  <1>3. FileInv(file', authorized') /\ authorized' \in [Requests -> SUBSET Decision]
    <2>1. CASE GiveUp(c)
      BY <2>1 DEF GiveUp, AuthorityInv
    <2>2. CASE \E again \in BOOLEAN : Execute(c, again)
      <3>1. PICK p, d : p = draft[c].receipt /\ d = draft[c].decisions
        OBVIOUS
      <3>2. p \in Payload /\ d \in SUBSET Decision /\ Sound(p, d)
        BY <2>2, <3>1 DEF Execute, AuthorityInv, Input
      <3>3. /\ file' = stored(file, p)
            /\ authorized' = IF appends(file, p) THEN [authorized EXCEPT ![p.request] = d] ELSE authorized
        BY <2>2, <3>1 DEF Execute
      <3> QED BY <3>2, <3>3, StoredKeeps DEF AuthorityInv
    <2> QED BY <2>1, <2>2
  <1>4. FileInv(file, authorized)'
    BY <1>3 DEF FileInv, loads, appends, sameRequest, rightRevision, rightState, currentRevision, latest, chain,
                ChainsInv, continues, before, HasLatest, Sound, approvalValid, founderRequired,
                contractBinds, decisionIds
  <1>5. \A x \in Callers : draft'[x] # None => Sound(draft'[x].receipt, draft'[x].decisions)
    BY <1>2 DEF AuthorityInv
  <1> QED BY <1>2, <1>3, <1>4, <1>5 DEF AuthorityInv

LEMMA AuthorityIsSafe ==
  ASSUME AuthorityInv
  PROVE  AuthorityHolds
  <1>1. AuthorityTypeOK /\ FileReloads
    BY DEF AuthorityInv, FileInv, AuthorityTypeOK, FileReloads
  <1>2. TerminalIsFinal
    BY DEF AuthorityInv, FileInv, ChainsInv, TerminalIsFinal
  <1>3. ChainsProject
    <2>1. ASSUME NEW m \in Memories, chain(file, m) # {} PROVE projection(file, m) = latest(file, m).to
      BY <2>1 DEF AuthorityInv, FileInv, ChainsInv, projection
    <2>2. ASSUME NEW m \in Memories PROVE ~ambiguousRequest(file, m)
      BY DEF AuthorityInv, FileInv, ambiguousRequest
    <2> QED BY <2>1, <2>2 DEF ChainsProject
  <1>4. ReusableIsApproved
    <2>1. ASSUME NEW m \in Memories, projection(file, m) = "admitted"
          PROVE  LET decisions == authorized[latest(file, m).request] IN
                 /\ decisionIds(latest(file, m).approvals) = decisionIds(decisions)
                 /\ \A d \in decisions : d.current
                 /\ \E d \in decisions :
                      /\ d.outcome = "approved"
                      /\ d.by \in IF m \in HighImpact THEN {"founder"} ELSE {"human", "founder"}
      <3>1. chain(file, m) # {} /\ latest(file, m).to = "admitted"
        BY <2>1 DEF projection
      <3>2. PICK i \in chain(file, m) : latest(file, m) = file[i]
        BY <3>1, LatestFacts DEF AuthorityInv, FileInv, ChainsInv, latest
      <3>3. PICK ds : ds = authorized[file[i].request]
        OBVIOUS
      <3>4. /\ approvalValid(file[i], ds) /\ file[i].memory = m /\ file[i].to = "admitted"
            /\ contractBinds(file[i], ds)
        BY <3>1, <3>2, <3>3 DEF AuthorityInv, FileInv, Sound, chain
      <3> QED BY <3>2, <3>3, <3>4 DEF approvalValid, founderRequired, contractBinds
    <2> QED BY <2>1 DEF ReusableIsApproved, gateMemoryRetrieval, reusable
  <1> QED BY <1>1, <1>2, <1>3, <1>4 DEF AuthorityHolds

(* Whatever callers read, prepare, repeat and execute in whatever order: the   *)
(* receipt file can be opened again, the projector accepts every chain, an end *)
(* state is an end, and what retrieval lets through was admitted on decisions  *)
(* that give the approval its impact asks for and that its receipt names by    *)
(* their ids (memory-authority-receipt-repository.ts,       *)
(* -lifecycle.ts, -projector.ts, -reconciliation.ts, memory-retrieval-gate.ts).*)
THEOREM AuthorityStands == AuthoritySpec => []AuthorityHolds
  <1>1. AuthorityInit => AuthorityInv
    <2>1. ASSUME AuthorityInit PROVE AuthorityInv
      <3>1. file = <<>> /\ file \in Seq(Payload) /\ DOMAIN file = {}
        BY <2>1 DEF AuthorityInit
      <3>2. \A m \in Memories : chain(file, m) = {}
        BY <3>1 DEF chain
      <3>3. FileInv(file, authorized)
        BY <3>1, <3>2 DEF FileInv, loads, ChainsInv, HasLatest
      <3>4. /\ draft = [c \in Callers |-> None] /\ \A c \in Callers : draft[c] = None
            /\ authorized = [rq \in Requests |-> {}]
        BY <2>1 DEF AuthorityInit
      <3> QED BY <3>3, <3>4 DEF AuthorityInv
    <2> QED BY <2>1
  <1>2. AuthorityInv /\ [AuthorityNext]_authorityVars => AuthorityInv'
    <2>1. ASSUME AuthorityInv, UNCHANGED authorityVars PROVE AuthorityInv'
      <3>1. file' = file /\ draft' = draft /\ authorized' = authorized
        BY <2>1 DEF authorityVars
      <3> QED BY <2>1, <3>1 DEF AuthorityInv
    <2> QED BY <2>1, PrepareKeeps, ExecuteKeeps DEF AuthorityNext
  <1>3. AuthorityInv => AuthorityHolds
    BY AuthorityIsSafe
  <1> QED BY <1>1, <1>2, <1>3, PTL DEF AuthoritySpec

-----------------------------------------------------------------------------
(* The gates. What the pipeline records has one of a few shapes, which the     *)
(* repository accepts and from which every case view is derived.               *)

Turned == {"rejected", "needs_review"}

Shaped(g) ==
  \/ /\ g.validation \in Turned /\ g.contradiction = "none" /\ g.admission = "none"
     /\ ~g.claim /\ g.contradicts = {}
  \/ /\ g.validation = "accepted" /\ g.contradiction = "admit" /\ g.admission = "admitted"
     /\ g.claim /\ g.contradicts = {}
  \/ /\ g.validation = "accepted" /\ g.contradicts # {} /\ ~g.claim
     /\ \/ g.contradiction = "review" /\ g.admission = "review"
        \/ g.contradiction = "block" /\ g.admission = "blocked"

LEMMA CitedIsSequence ==
  ASSUME NEW s \in Submission
  PROVE  /\ s.cited \in Seq(EvidenceIds) /\ s.comparisons \in Seq(Comparison)
         /\ s.confidence \in 0..100
         /\ \A i \in DOMAIN s.comparisons : s.comparisons[i] \in Comparison
  <1>1. /\ s.cited \in BoundedSeq(EvidenceIds, MaxCited)
        /\ s.comparisons \in BoundedSeq(Comparison, MaxComparisons) /\ s.confidence \in Confidences
    BY DEF Submission
  <1>2. PICK m \in 0..MaxCited : s.cited \in [1..m -> EvidenceIds]
    BY <1>1 DEF BoundedSeq, SeqOf
  <1>3. PICK n \in 0..MaxComparisons : s.comparisons \in [1..n -> Comparison]
    BY <1>1 DEF BoundedSeq, SeqOf
  <1>4. m \in Nat /\ n \in Nat
    BY PolicyAssumption
  <1>5. s.cited \in Seq(EvidenceIds)
    BY <1>2, <1>4, IsASeq
  <1>6. s.comparisons \in Seq(Comparison)
    BY <1>3, <1>4, IsASeq
  <1> QED BY <1>1, <1>3, <1>5, <1>6, PolicyAssumption

(* Validation accepts exactly what is recorded, verified and sure enough.      *)
LEMMA AcceptedFacts ==
  ASSUME NEW s \in Submission, ~Throws(s)
  PROVE  /\ validation(s) \in Turned \cup {"accepted"}
         /\ validation(s) = "accepted" <=>
              /\ Len(s.cited) >= MinimumEvidenceCount
              /\ \A e \in Range(s.cited) : s.evidence[e] = "verified"
              /\ s.confidence >= MinimumAcceptedConfidence
  <1>1. \A e \in Range(s.cited) : s.evidence[e] \in {"unverified", "verified"}
    <2>1. \A e \in Range(s.cited) : e \in EvidenceIds
      BY CitedIsSequence DEF Range
    <2>2. \A e \in Range(s.cited) : s.evidence[e] # "absent"
      BY DEF Throws, mapThrows
    <2> QED BY <2>1, <2>2 DEF Submission
  <1>2. missing(s) = {} /\ (unverified(s) = {} <=> \A e \in Range(s.cited) : s.evidence[e] = "verified")
    BY <1>1 DEF missing, unverified
  <1>3. /\ s.confidence \in Int /\ MinimumReviewConfidence \in Int /\ MinimumAcceptedConfidence \in Int
        /\ MinimumReviewConfidence <= MinimumAcceptedConfidence /\ Len(s.cited) \in Nat
        /\ MinimumEvidenceCount \in Nat
    <2>1. \A n \in 0..100 : n \in Int
      OBVIOUS
    <2>2. s.confidence \in Int
      BY <2>1, CitedIsSequence
    <2>3. /\ MinimumReviewConfidence \in Int /\ MinimumAcceptedConfidence \in Int
          /\ MinimumReviewConfidence <= MinimumAcceptedConfidence /\ MinimumEvidenceCount \in Nat
      BY <2>1, PolicyAssumption
    <2>4. Len(s.cited) \in Nat
      BY CitedIsSequence, LenProperties
    <2> QED BY <2>2, <2>3, <2>4
  <1>4. /\ "missing_evidence" \notin validationReasons(s)
        /\ "insufficient_evidence" \in validationReasons(s) <=> Len(s.cited) < MinimumEvidenceCount
        /\ "unverified_evidence" \in validationReasons(s) <=> unverified(s) # {}
        /\ "low_confidence" \in validationReasons(s) <=> s.confidence < MinimumAcceptedConfidence
        /\ validationReasons(s) \subseteq {"missing_evidence", "insufficient_evidence", "unverified_evidence", "low_confidence"}
    BY <1>2 DEF validationReasons
  <1>5. validationReasons(s) = {} <=>
          /\ Len(s.cited) >= MinimumEvidenceCount /\ unverified(s) = {}
          /\ s.confidence >= MinimumAcceptedConfidence
    BY <1>3, <1>4
  <1>6. /\ validation(s) \in Turned \cup {"accepted"}
        /\ validation(s) = "accepted" <=>
             validationReasons(s) = {} /\ ~(s.confidence < MinimumReviewConfidence)
    BY DEF validation, Turned
  <1> QED BY <1>2, <1>3, <1>5, <1>6

(* No comparison that counts, no contradiction; and the other way round.       *)
LEMMA ActionFacts ==
  ASSUME NEW s \in Submission
  PROVE  /\ contradictionAction(s) \in {"admit", "review", "block"}
         /\ contradictionAction(s) = "admit" <=> contradicts(s) = {}
         /\ contradicts(s) = {} <=> \A i \in DOMAIN s.comparisons :
              s.comparisons[i].kind = "none" \/ s.comparisons[i].confidence < PossibleThreshold
  <1> DEFINE conflicts == {i \in DOMAIN s.comparisons : relevant(s.comparisons[i])}
             material == {i \in conflicts : isMaterial(s.comparisons[i])}
  <1>1. /\ material # {} => contradictionAction(s) \in {"review", "block"}
        /\ material = {} /\ conflicts # {} => contradictionAction(s) = "review"
        /\ material = {} /\ conflicts = {} => contradictionAction(s) = "admit"
        /\ conflicts = {} => material = {}
    BY DEF contradictionAction
  <1>2. contradicts(s) = {} <=> conflicts = {}
    BY DEF contradicts
  <1>3. \A i \in DOMAIN s.comparisons :
          relevant(s.comparisons[i]) <=>
            ~(s.comparisons[i].kind = "none" \/ s.comparisons[i].confidence < PossibleThreshold)
    <2>1. PossibleThreshold \in Int /\ ComparisonConfidences \subseteq Int
      BY PolicyAssumption
    <2>2. \A i \in DOMAIN s.comparisons : s.comparisons[i].confidence \in Int
      BY <2>1, CitedIsSequence DEF Comparison
    <2>3. \A n \in Int : n >= PossibleThreshold <=> ~(n < PossibleThreshold)
      BY <2>1
    <2> QED BY <2>2, <2>3 DEF relevant
  <1> QED BY <1>1, <1>2, <1>3

LEMMA BuiltFields ==
  ASSUME NEW g, NEW action, NEW decision, NEW against,
         g = [validation |-> "accepted", contradiction |-> action, admission |-> decision,
              claim |-> decision = "admitted", contradicts |-> against]
  PROVE  /\ g.validation = "accepted" /\ g.contradiction = action /\ g.admission = decision
         /\ g.claim <=> decision = "admitted"
         /\ g.contradicts = against
  OBVIOUS

LEMMA OutcomeShaped ==
  ASSUME NEW s \in Submission, ~Throws(s)
  PROVE  /\ Shaped(pipelineRecord(s))
         /\ pipelineRecord(s).validation = validation(s)
         /\ pipelineRecord(s).admission = "admitted" <=>
              validation(s) = "accepted" /\ contradicts(s) = {}
  <1>1. CASE validation(s) # "accepted"
    BY <1>1, AcceptedFacts DEF pipelineRecord, NoRecord, Shaped
  <1>2. CASE validation(s) = "accepted"
    <2>1. pipelineRecord(s) =
            [validation |-> "accepted", contradiction |-> contradictionAction(s),
             admission |-> admissionDecision(contradictionAction(s)),
             claim |-> admissionDecision(contradictionAction(s)) = "admitted", contradicts |-> contradicts(s)]
      BY <1>2 DEF pipelineRecord
    <2> DEFINE g == pipelineRecord(s)
    <2>4. /\ g.validation = "accepted" /\ g.contradiction = contradictionAction(s)
          /\ g.admission = admissionDecision(contradictionAction(s))
          /\ g.claim <=> g.admission = "admitted"
          /\ g.contradicts = contradicts(s)
      BY <2>1, BuiltFields
    <2>2. CASE contradictionAction(s) = "admit"
      <3>1. g.admission = "admitted" /\ g.contradicts = {}
        BY <2>2, <2>4, ActionFacts DEF admissionDecision
      <3> HIDE DEF g
      <3>2. Shaped(g)
        BY <2>2, <2>4, <3>1 DEF Shaped
      <3> QED BY <1>2, <2>4, <3>1, <3>2 DEF g
    <2>3. CASE contradictionAction(s) \in {"review", "block"}
      <3>1. g.contradicts # {} /\ g.admission = IF contradictionAction(s) = "review" THEN "review" ELSE "blocked"
        BY <2>3, <2>4, ActionFacts DEF admissionDecision
      <3> HIDE DEF g
      <3>2. Shaped(g)
        BY <2>3, <2>4, <3>1 DEF Shaped
      <3> QED BY <1>2, <2>4, <3>1, <3>2 DEF g
    <2> QED BY <2>2, <2>3, ActionFacts
  <1> QED BY <1>1, <1>2

LEMMA ShapedIsValid == ASSUME NEW g, Shaped(g) PROVE validRecord(g)
  BY DEF Shaped, validRecord, Turned

(* What was recorded of a submission stays what the gates made of it.          *)
PipelineInv ==
  /\ input \in Submission
  /\ stage \in {"submitted", "refused"} => record = NoRecord
  /\ stage \notin {"submitted", "refused"} =>
       stage = "stored" /\ ~Throws(input) /\ record = pipelineRecord(input)

(* With one piece of evidence asked for, as the default policy has it: a       *)
(* higher count would be met by citing one page several times.                 *)
LEMMA OneIsEnough ==
  ASSUME NEW s \in Submission, ~Throws(s), MinimumEvidenceCount = 1
  PROVE  Len(s.cited) >= MinimumEvidenceCount /\ Cardinality(Range(s.cited)) >= MinimumEvidenceCount
  <1>1. s.cited \in Seq(EvidenceIds) /\ s.cited # <<>>
    BY CitedIsSequence DEF Throws, validateThrows
  <1>2. Len(s.cited) \in Nat /\ Len(s.cited) # 0 /\ DOMAIN s.cited = 1 .. Len(s.cited)
    BY <1>1, EmptySeq
  <1>3. 1 \in DOMAIN s.cited
    BY <1>2
  <1>4. Range(s.cited) # {}
    BY <1>3 DEF Range
  <1>5. IsFiniteSet(Range(s.cited))
    <2>1. IsFiniteSet(1 .. Len(s.cited))
      BY <1>2, FS_Interval
    <2>2. s.cited \in Surjection(1 .. Len(s.cited), Range(s.cited))
      BY <1>1, <1>2 DEF Surjection, Range
    <2> QED BY <2>1, <2>2, FS_Surjection
  <1>6. Cardinality(Range(s.cited)) \in Nat /\ Cardinality(Range(s.cited)) # 0
    BY <1>4, <1>5, FS_EmptySet, FS_CardinalityType
  <1> QED BY <1>2, <1>6

(* What is admitted is clean, what is built is stored, and a contradiction is  *)
(* never lost, for any evidence, claims, thresholds and comparisons.           *)
THEOREM GatesStandTogether ==
  ASSUME MinimumEvidenceCount = 1
  PROVE  PipelineSpec => []GatesAgree
  <1>1. PipelineInit => PipelineInv
    BY DEF PipelineInit, PipelineInv
  <1>2. PipelineInv /\ [PipelineNext]_pipelineVars => PipelineInv'
    <2> SUFFICES ASSUME PipelineInv, [PipelineNext]_pipelineVars PROVE PipelineInv'
      OBVIOUS
    <2>1. CASE Refuse
      BY <2>1 DEF Refuse, PipelineInv
    <2>2. CASE Run
      <3>1. validRecord(pipelineRecord(input))
        BY <2>2, OutcomeShaped, ShapedIsValid DEF Run, PipelineInv
      <3> QED BY <2>2, <3>1 DEF Run, PipelineInv
    <2>3. CASE UNCHANGED pipelineVars
      BY <2>3 DEF pipelineVars, PipelineInv
    <2> QED BY <2>1, <2>2, <2>3 DEF PipelineNext
  <1>3. PipelineInv => GatesAgree
    <2> SUFFICES ASSUME PipelineInv PROVE GatesAgree
      OBVIOUS
    <2>1. AdmittedExactlyWhenClean
      <3> SUFFICES ASSUME stage = "stored" PROVE record.admission = "admitted" <=> Clean(input)
        BY DEF AdmittedExactlyWhenClean
      <3>1. input \in Submission /\ ~Throws(input) /\ record = pipelineRecord(input)
        BY DEF PipelineInv
      <3>2. record.admission = "admitted" <=> validation(input) = "accepted" /\ contradicts(input) = {}
        BY <3>1, OutcomeShaped
      <3> QED BY <3>1, <3>2, AcceptedFacts, ActionFacts, OneIsEnough DEF Clean
    <2>2. StoreAcceptsPipelineRecords
      BY DEF PipelineInv, StoreAcceptsPipelineRecords
    <2>3. ContradictionsKept
      <3> SUFFICES ASSUME stage = "stored", record.validation = "accepted"
                   PROVE  record.claim <=> record.contradicts = {}
        BY DEF ContradictionsKept
      <3>1. Shaped(record)
        BY OutcomeShaped DEF PipelineInv
      <3> QED BY <3>1 DEF Shaped, Turned
    <2> QED BY <2>1, <2>2, <2>3 DEF GatesAgree
  <1> QED BY <1>1, <1>2, <1>3, PTL DEF PipelineSpec

-----------------------------------------------------------------------------
(* The replay lab. A view is built from one stored record and a receipt that   *)
(* names it, whatever was written between the two reads. A record is found     *)
(* because records only grow, its receipt because there was one before it, and *)
(* what is completed stays so; what the view says is then a matter of the      *)
(* shapes a record can have.                                                   *)

Filed(r) == Shaped(r.gates) /\ r.run \in Executions

Shows(v, r) == \E rc : (\A x \in rc : x.record = r.id) /\ v = buildReplayLabCaseView(r, rc)

Receipt ==
  [key : ReceiptKeys, record : RecordIds \cup LostIds, status : {"pending", "completed", "failed"},
   updated : 0..MaxClock]

OneOfEach(list) == \A i, j \in DOMAIN list : list[i].key = list[j].key => i = j

(* A list of receipts that has what was there when the question was put.       *)
HasAsked(list, past) ==
  /\ list \in Seq(Receipt) /\ OneOfEach(list)
  /\ \A id \in past.ids : namingRecord(list, id) # {}
  /\ \A i \in DOMAIN list : list[i].key \in past.completed => list[i].status = "completed"
  /\ \A key \in past.completed : \E i \in DOMAIN list : list[i].key = key

Known(records, past) == {r \in records : r.id \in past.ids}

ReplayInv ==
  /\ \A r \in filed : Filed(r) /\ namingRecord(receipts, r.id) # {}
  /\ \A r, s \in filed : r.id = s.id => r = s
  /\ asked.ids \subseteq filedIds
  /\ HasAsked(receipts, asked)
  /\ query # Idle =>
       /\ query.kind # "list" => asked.ids \subseteq {query.id}
       /\ query.records # Unread =>
            query.records[1] \subseteq filed /\ Known(filed, asked) \subseteq query.records[1]
       /\ query.receipts # Unread => HasAsked(query.receipts[1], asked)
       /\ "records" \in DOMAIN query
  /\ \A v \in shown : \E r \in filed : Shows(v, r)
  /\ NothingAskedForIsMissing

LEMMA ReceiptNamesRecord ==
  ASSUME NEW list, NEW id
  PROVE  /\ \A x \in receiptOf(list, id) : x.record = id
         /\ \A x \in newestReceiptOf(list, id) : x.record = id
         /\ \A x \in receiptOf(list, id) \cup newestReceiptOf(list, id) : \E i \in DOMAIN list : x = list[i]
  BY DEF receiptOf, newestReceiptOf, namingRecord

LEMMA Smallest ==
  ASSUME NEW S \in SUBSET Nat, S # {}
  PROVE  \E i \in S : \A j \in S : i <= j
  <1>1. PICK i \in S : \A j \in S : <<j, i>> \notin OpToRel(<, Nat)
    BY NatLessThanWellFounded, WFMin
  <1>2. \A j \in S : ~(j < i)
    BY <1>1 DEF OpToRel
  <1> QED BY <1>2

(* Where receipts name a record, one of them is found, by either query.        *)
LEMMA OneIsFound ==
  ASSUME NEW list \in Seq(Receipt), NEW id, namingRecord(list, id) # {}
  PROVE  receiptOf(list, id) # {} /\ newestReceiptOf(list, id) # {}
  <1> DEFINE of == namingRecord(list, id)
             newest == {i \in of : \A j \in of : list[j].updated <= list[i].updated}
  <1>1. of \in SUBSET Nat /\ of \subseteq DOMAIN list
    BY DEF namingRecord
  <1>2. \E i \in of : \A j \in of : i <= j
    BY <1>1, Smallest
  <1>3. \A i \in of : list[i].updated \in 0..MaxClock
    <2>1. \A i \in of : list[i] \in Receipt
      BY <1>1
    <2> QED BY <2>1 DEF Receipt
  <1>4. PICK age : age = {MaxClock - list[i].updated : i \in of}
    OBVIOUS
  <1>5. age \in SUBSET Nat /\ age # {}
    BY <1>3, <1>4, ReplayAssumption
  <1>6. PICK a \in age : \A b \in age : a <= b
    BY <1>5, Smallest
  <1>7. PICK i \in of : a = MaxClock - list[i].updated
    BY <1>4, <1>6
  <1>8. ASSUME NEW j \in of PROVE list[j].updated <= list[i].updated
    <2>1. MaxClock - list[i].updated <= MaxClock - list[j].updated
      BY <1>4, <1>6, <1>7
    <2> QED BY <1>3, <2>1, ReplayAssumption
  <1>9. newest \in SUBSET Nat /\ newest # {}
    BY <1>1, <1>8
  <1>10. \E k \in newest : \A j \in newest : k <= j
    BY <1>9, Smallest
  <1> QED BY <1>2, <1>10 DEF receiptOf, newestReceiptOf

LEMMA ViewFields ==
  ASSUME NEW r, NEW rc, NEW v, v = buildReplayLabCaseView(r, rc)
  PROVE  /\ v.id = r.id /\ v.status = deriveStatus(r) /\ v.idempotency = idempotency(r, rc)
         /\ v.receipt = rc /\ v.autopsy = autopsy(r, idempotency(r, rc))
         /\ v.prevention = prevention(autopsy(r, idempotency(r, rc)))
         /\ v.nodes = Nodes(r) /\ v.edges = Edges(r)
         /\ v.warnings = warnings(r, idempotency(r, rc))
  BY DEF buildReplayLabCaseView

LEMMA OneStory ==
  ASSUME NEW r, Filed(r), ~r.run.failed, NEW status, status # "record_mismatch"
  PROVE  /\ (deriveStatus(r) = "admitted") <=> (autopsy(r, status) = "no_failure_observed")
         /\ (deriveStatus(r) = "admitted") <=> (prevention(autopsy(r, status)) = {})
         /\ (deriveStatus(r) = "admitted") <=> r.gates.claim
         /\ (deriveStatus(r) = "blocked") <=> (autopsy(r, status) = "contradiction_blocked")
         /\ (deriveStatus(r) \in {"review", "needs_review"}) <=> (autopsy(r, status) = "human_review_required")
         /\ (deriveStatus(r) \in {"rejected", "needs_review"}) <=> (warnings(r, status) # {})
  <1> DEFINE g == r.gates
  <1>1. Shaped(g)
    BY DEF Filed
  <1>2. CASE g.validation \in Turned /\ g.contradiction = "none" /\ g.admission = "none" /\ ~g.claim
    <2>1. deriveStatus(r) = g.validation
      BY <1>2 DEF deriveStatus
    <2>2. autopsy(r, status) = IF g.validation = "rejected" THEN "validation_rejected" ELSE "human_review_required"
      BY <1>2 DEF autopsy, Turned
    <2>3. "not_accepted" \in warnings(r, status)
      BY <1>2 DEF warnings, Turned
    <2> QED BY <1>2, <2>1, <2>2, <2>3 DEF Turned, prevention
  <1>3. CASE g.validation = "accepted" /\ g.contradiction = "admit" /\ g.admission = "admitted" /\ g.claim
    <2>1. deriveStatus(r) = "admitted" /\ autopsy(r, status) = "no_failure_observed"
      BY <1>3 DEF deriveStatus, autopsy
    <2>2. warnings(r, status) = {}
      BY <1>3 DEF warnings
    <2> QED BY <1>3, <2>1, <2>2 DEF prevention
  <1>4. CASE g.validation = "accepted" /\ ~g.claim /\ g.contradiction = "review" /\ g.admission = "review"
    <2>1. deriveStatus(r) = "review" /\ autopsy(r, status) = "human_review_required"
      BY <1>4 DEF deriveStatus, autopsy
    <2>2. warnings(r, status) = {}
      BY <1>4 DEF warnings
    <2> QED BY <1>4, <2>1, <2>2 DEF prevention
  <1>5. CASE g.validation = "accepted" /\ ~g.claim /\ g.contradiction = "block" /\ g.admission = "blocked"
    <2>1. deriveStatus(r) = "blocked" /\ autopsy(r, status) = "contradiction_blocked"
      BY <1>5 DEF deriveStatus, autopsy
    <2>2. warnings(r, status) = {}
      BY <1>5 DEF warnings
    <2> QED BY <1>5, <2>1, <2>2 DEF prevention
  <1> QED BY <1>1, <1>2, <1>3, <1>4, <1>5 DEF Shaped

(* The map of a record is closed, and complete where there is a claim; the     *)
(* Evidence linked in it is what the claim cites.                              *)
LEMMA MapIsClosed ==
  ASSUME NEW r, Filed(r)
  PROVE  /\ \A e \in Edges(r) : e[1] \in Nodes(r) /\ e[2] \in Nodes(r)
         /\ <<"claim">> \in Nodes(r) <=> r.gates.claim
         /\ r.gates.claim =>
              {<<<<"proposal">>, <<"validation">>>>, <<<<"validation">>, <<"contradiction">>>>,
               <<<<"contradiction">>, <<"admission">>>>, <<<<"admission">>, <<"claim">>>>} \subseteq Edges(r)
         /\ {e \in EvidenceIds : <<<<"evidence", e>>, <<"proposal">>>> \in Edges(r)} = r.run.cited
  <1> DEFINE g == r.gates
  <1>1. /\ g.admission # "none" => g.contradiction # "none"
        /\ g.claim => g.admission # "none"
    BY DEF Filed, Shaped
  <1>2. /\ \A e \in recorded(r) : <<"evidence", e>> \in Nodes(r)
        /\ <<"proposal">> \in Nodes(r) /\ <<"validation">> \in Nodes(r)
        /\ g.contradiction # "none" =>
             <<"contradiction">> \in Nodes(r) /\ \A c \in g.contradicts : <<"existing", c>> \in Nodes(r)
        /\ g.admission # "none" => <<"admission">> \in Nodes(r)
        /\ g.claim => <<"claim">> \in Nodes(r)
    BY DEF Nodes
  <1>3. ASSUME NEW e \in Edges(r) PROVE e[1] \in Nodes(r) /\ e[2] \in Nodes(r)
    <2>1. CASE e \in {<<<<"evidence", x>>, <<"proposal">>>> : x \in recorded(r) \cap r.run.cited}
      BY <1>2, <2>1
    <2>2. CASE e = <<<<"proposal">>, <<"validation">>>>
      BY <1>2, <2>2
    <2>3. CASE g.contradiction # "none" /\ e = <<<<"validation">>, <<"contradiction">>>>
      BY <1>2, <2>3
    <2>4. CASE g.contradiction # "none" /\ e \in {<<<<"proposal">>, <<"existing", c>>>> : c \in g.contradicts}
      BY <1>2, <2>4
    <2>5. CASE g.admission # "none" /\ e = <<<<"contradiction">>, <<"admission">>>>
      BY <1>1, <1>2, <2>5
    <2>6. CASE g.claim /\ e = <<<<"admission">>, <<"claim">>>>
      BY <1>1, <1>2, <2>6
    <2> QED BY <1>3, <2>1, <2>2, <2>3, <2>4, <2>5, <2>6 DEF Edges
  <1>4. <<"claim">> \in Nodes(r) => g.claim
    <2>1. /\ \A x : <<"claim">> # <<"evidence", x>> /\ <<"claim">> # <<"existing", x>>
          /\ <<"claim">> \notin {<<"proposal">>, <<"validation">>, <<"contradiction">>, <<"admission">>}
      <3>1. <<"claim">>[1] = "claim" /\ \A x : <<"evidence", x>>[1] = "evidence" /\ <<"existing", x>>[1] = "existing"
        OBVIOUS
      <3>2. /\ <<"proposal">>[1] = "proposal" /\ <<"validation">>[1] = "validation"
            /\ <<"contradiction">>[1] = "contradiction" /\ <<"admission">>[1] = "admission"
        OBVIOUS
      <3> QED BY <3>1, <3>2
    <2> QED BY <2>1 DEF Nodes
  <1>5. g.claim => {<<<<"proposal">>, <<"validation">>>>, <<<<"validation">>, <<"contradiction">>>>,
               <<<<"contradiction">>, <<"admission">>>>, <<<<"admission">>, <<"claim">>>>} \subseteq Edges(r)
    BY <1>1 DEF Edges
  <1>6. r.run.cited \subseteq recorded(r) /\ r.run.cited \subseteq EvidenceIds
    BY DEF Filed, Executions, recorded
  <1>7. ASSUME NEW e \in EvidenceIds
        PROVE  <<<<"evidence", e>>, <<"proposal">>>> \in Edges(r) <=> e \in r.run.cited
    <2> DEFINE edge == <<<<"evidence", e>>, <<"proposal">>>>
    <2>1. edge[1][1] = "evidence" /\ edge[1] = <<"evidence", e>>
      OBVIOUS
    <2>2. \A x : x[1][1] # "evidence" => x # edge
      BY <2>1
    <2>3. /\ <<<<"proposal">>, <<"validation">>>>[1][1] = "proposal"
          /\ <<<<"validation">>, <<"contradiction">>>>[1][1] = "validation"
          /\ <<<<"contradiction">>, <<"admission">>>>[1][1] = "contradiction"
          /\ <<<<"admission">>, <<"claim">>>>[1][1] = "admission"
          /\ \A c : <<<<"proposal">>, <<"existing", c>>>>[1][1] = "proposal"
      OBVIOUS
    <2>4. /\ <<<<"proposal">>, <<"validation">>>> # edge
          /\ <<<<"validation">>, <<"contradiction">>>> # edge
          /\ <<<<"contradiction">>, <<"admission">>>> # edge
          /\ <<<<"admission">>, <<"claim">>>> # edge
          /\ \A c : <<<<"proposal">>, <<"existing", c>>>> # edge
      BY <2>2, <2>3
    <2>5. edge \in Edges(r) <=> edge \in {<<<<"evidence", x>>, <<"proposal">>>> : x \in recorded(r) \cap r.run.cited}
      BY <2>4 DEF Edges
    <2>6. \A x : <<<<"evidence", x>>, <<"proposal">>>> = edge <=> x = e
      <3>1. \A x : <<"evidence", x>> = <<"evidence", e>> <=> x = e
        <4>1. \A x : <<"evidence", x>>[2] = x
          OBVIOUS
        <4> QED BY <4>1
      <3>2. \A x : <<<<"evidence", x>>, <<"proposal">>>>[1] = <<"evidence", x>>
        OBVIOUS
      <3> QED BY <3>1, <3>2
    <2> QED BY <1>6, <2>5, <2>6
  <1> QED BY <1>2, <1>3, <1>4, <1>5, <1>6, <1>7

LEMMA NoMismatch ==
  ASSUME NEW r, NEW rc, \A x \in rc : x.record = r.id
  PROVE  idempotency(r, rc) # "record_mismatch"
  BY DEF idempotency

LEMMA ViewsAreTrue ==
  ASSUME ReplayInv
  PROVE  CaseViewIsTrue
  <1>1. ASSUME NEW v \in shown
        PROVE  \E r \in filed : \E rc :
                 /\ v = buildReplayLabCaseView(r, rc) /\ (\A x \in rc : x.record = r.id)
                 /\ idempotency(r, rc) # "record_mismatch" /\ Filed(r)
    BY <1>1, NoMismatch DEF ReplayInv, Shows
  <1>2. ViewTellsOneStory
    <2> SUFFICES ASSUME NEW v \in shown, \A r \in filed : r.id = v.id => ~r.run.failed
                 PROVE
      /\ (v.status = "admitted") <=> (v.autopsy = "no_failure_observed")
      /\ (v.status = "admitted") <=> (v.prevention = {})
      /\ (v.status = "admitted") <=> (<<"claim">> \in v.nodes)
      /\ (v.status = "blocked") <=> (v.autopsy = "contradiction_blocked")
      /\ (v.status \in {"review", "needs_review"}) <=> (v.autopsy = "human_review_required")
      /\ (v.status \in {"rejected", "needs_review"}) <=> (v.warnings # {})
      BY DEF ViewTellsOneStory
    <2>3. PICK r \in filed : \E rc : /\ v = buildReplayLabCaseView(r, rc)
                                     /\ idempotency(r, rc) # "record_mismatch" /\ Filed(r)
      BY <1>1
    <2>1. PICK rc : /\ v = buildReplayLabCaseView(r, rc)
                    /\ idempotency(r, rc) # "record_mismatch" /\ Filed(r)
      BY <2>3
    <2>2. ~r.run.failed
      BY <2>1, ViewFields
    <2> QED BY <2>1, <2>2, OneStory, MapIsClosed, ViewFields
  <1>3. CausalityHasNoLooseEnds
    <2> SUFFICES ASSUME NEW v \in shown, NEW r \in filed, r.id = v.id
                 PROVE  /\ \A e \in v.edges : e[1] \in v.nodes /\ e[2] \in v.nodes
                        /\ {e \in EvidenceIds : <<<<"evidence", e>>, <<"proposal">>>> \in v.edges} = r.run.cited
                        /\ <<"claim">> \in v.nodes =>
                             {<<<<"proposal">>, <<"validation">>>>, <<<<"validation">>, <<"contradiction">>>>,
                              <<<<"contradiction">>, <<"admission">>>>, <<<<"admission">>, <<"claim">>>>} \subseteq v.edges
      BY DEF CausalityHasNoLooseEnds
    <2>2. PICK s \in filed : \E rc : v = buildReplayLabCaseView(s, rc) /\ Filed(s)
      BY <1>1
    <2>1. PICK rc : v = buildReplayLabCaseView(s, rc) /\ Filed(s)
      BY <2>2
    <2>3. v.id = s.id /\ v.nodes = Nodes(s) /\ v.edges = Edges(s)
      BY <2>1, ViewFields
    <2>4. s = r
      BY <2>3 DEF ReplayInv
    <2> QED BY <2>1, <2>3, <2>4, MapIsClosed
  <1> QED BY <1>2, <1>3 DEF CaseViewIsTrue, ReplayInv

(* An answer has every case that was there when it was asked for.              *)
LEMMA AnswerIsComplete ==
  ASSUME ReplayInv, Answer
  PROVE  (\A v \in shown' : \E r \in filed : Shows(v, r)) /\ NothingAskedForIsMissing'
  <1>1. PICK list : list = query.receipts[1]
    OBVIOUS
  <1>2. /\ query # Idle /\ query.records # Unread /\ query.receipts # Unread
        /\ query' = Idle /\ filed' = filed /\ asked' = asked
    BY DEF Answer
  <1>3. /\ HasAsked(list, asked) /\ query.records[1] \subseteq filed /\ Known(filed, asked) \subseteq query.records[1]
    BY <1>1, <1>2 DEF ReplayInv
  <1> DEFINE R(r) == IF query.kind = "list" THEN newestReceiptOf(list, r.id) ELSE receiptOf(list, r.id)
  <1>4. shown' = {buildReplayLabCaseView(r, R(r)) : r \in query.records[1]}
    BY <1>1 DEF Answer
  <1>5. \A r : \A x \in R(r) : x.record = r.id /\ \E i \in DOMAIN list : x = list[i]
    BY ReceiptNamesRecord
  <1>6. ASSUME NEW v \in shown' PROVE \E r \in filed : Shows(v, r)
    BY <1>3, <1>4, <1>5 DEF Shows
  <1>7. ASSUME NEW id \in asked.ids
        PROVE  \E v \in shown' :
                 /\ v.id = id /\ v.idempotency = "attached"
                 /\ \A x \in v.receipt : x.key \in asked.completed => x.status = "completed"
    <2>1. PICK r \in filed : r.id = id
      BY DEF ReplayInv, filedIds
    <2>2. r \in query.records[1]
      BY <1>3, <2>1 DEF Known
    <2>3. PICK rc : rc = R(r)
      OBVIOUS
    <2>4. PICK v : v = buildReplayLabCaseView(r, rc)
      OBVIOUS
    <2>5. v \in shown'
      BY <1>4, <2>2, <2>3, <2>4
    <2>6. rc # {}
      BY <1>3, <2>1, <2>3, OneIsFound DEF HasAsked
    <2>7. v.id = id /\ v.receipt = rc /\ v.idempotency = idempotency(r, rc)
      BY <2>1, <2>4, ViewFields
    <2>8. idempotency(r, rc) = "attached"
      BY <1>5, <2>3, <2>6 DEF idempotency
    <2>9. \A x \in rc : x.key \in asked.completed => x.status = "completed"
      BY <1>3, <1>5, <2>3 DEF HasAsked
    <2> QED BY <2>5, <2>7, <2>8, <2>9
  <1> QED BY <1>2, <1>6, <1>7 DEF NothingAskedForIsMissing

(* What is written to the receipts takes no receipt away from a record and     *)
(* leaves what is completed as it is.                                          *)
LEMMA WritingKeeps ==
  ASSUME ReplayInv, UNCHANGED <<filed, query, shown, asked>>, receipts' \in Seq(Receipt), OneOfEach(receipts'),
         \A i \in DOMAIN receipts :
           i \in DOMAIN receipts' /\ receipts'[i].record = receipts[i].record /\ receipts'[i].key = receipts[i].key,
         \A i \in DOMAIN receipts' : receipts'[i].key \in asked.completed => receipts'[i].status = "completed"
  PROVE  ReplayInv'
  <1>1. ASSUME NEW id, namingRecord(receipts, id) # {} PROVE namingRecord(receipts', id) # {}
    BY <1>1 DEF namingRecord
  <1>2. HasAsked(receipts', asked)
    BY <1>1 DEF ReplayInv, HasAsked
  <1>3. HasAsked(receipts, asked)'
    BY <1>2 DEF HasAsked, namingRecord, OneOfEach
  <1>4. \A r \in filed' : Filed(r) /\ namingRecord(receipts, r.id)' # {}
    BY <1>1 DEF ReplayInv, namingRecord
  <1>5. query' # Idle =>
       /\ query'.kind # "list" => asked'.ids \subseteq {query'.id}
       /\ query'.records # Unread =>
            query'.records[1] \subseteq filed' /\ Known(filed', asked') \subseteq query'.records[1]
       /\ query'.receipts # Unread => HasAsked(query'.receipts[1], asked')
       /\ "records" \in DOMAIN query'
    BY DEF ReplayInv
  <1>6. NothingAskedForIsMissing'
    BY DEF ReplayInv, NothingAskedForIsMissing
  <1>7. asked'.ids \subseteq filedIds'
    BY DEF ReplayInv, filedIds
  <1>8. \A r, s \in filed' : r.id = s.id => r = s
    BY DEF ReplayInv
  <1>9. \A v \in shown' : \E r \in filed' : Shows(v, r)
    BY DEF ReplayInv
  <1>10. (\A v \in shown : \E r \in filed : Shows(v, r))'
    BY <1>9 DEF Shows
  <1>11. query' # Idle => (query'.receipts # Unread => HasAsked(query.receipts[1], asked)')
    BY <1>5 DEF HasAsked, namingRecord, OneOfEach
  <1>12. Known(filed, asked)' = Known(filed', asked')
    BY DEF Known
  <1>13. (\A r \in filed : Filed(r) /\ namingRecord(receipts, r.id) # {})'
    BY <1>4 DEF Filed
  <1> QED BY <1>3, <1>5, <1>6, <1>7, <1>8, <1>10, <1>11, <1>12, <1>13 DEF ReplayInv

(* One entry is written, of a receipt that is not completed.                   *)
LEMMA EntryKeeps ==
  ASSUME ReplayInv, UNCHANGED <<filed, query, shown, asked>>, NEW i \in DOMAIN receipts,
         receipts[i].status # "completed", NEW s \in {"pending", "completed", "failed"}, NEW at \in 0..MaxClock,
         receipts' = [receipts EXCEPT ![i].status = s, ![i].updated = at]
  PROVE  ReplayInv'
  <1>1. /\ receipts \in Seq(Receipt) /\ receipts[i] \in Receipt
        /\ \A j \in DOMAIN receipts : receipts[j].key \in asked.completed => receipts[j].status = "completed"
    BY DEF ReplayInv, HasAsked
  <1>2. PICK e : e = [receipts[i] EXCEPT !.status = s, !.updated = at]
    OBVIOUS
  <1>3. e \in Receipt /\ e.key = receipts[i].key /\ e.record = receipts[i].record
    BY <1>1, <1>2 DEF Receipt
  <1>4. receipts' = [receipts EXCEPT ![i] = e]
    BY <1>2
  <1>5. /\ receipts' \in Seq(Receipt) /\ DOMAIN receipts' = DOMAIN receipts
        /\ \A j \in DOMAIN receipts : receipts'[j] = IF j = i THEN e ELSE receipts[j]
    <2>1. receipts \in [1..Len(receipts) -> Receipt] /\ Len(receipts) \in Nat /\ DOMAIN receipts = 1..Len(receipts)
      BY <1>1
    <2>2. receipts' \in [1..Len(receipts) -> Receipt]
      BY <1>3, <1>4, <2>1
    <2>3. receipts' \in Seq(Receipt)
      <3>1. receipts \in Seq(Receipt) /\ i \in 1..Len(receipts) /\ e \in Receipt
        BY <1>1, <1>3, <2>1
      <3>2. [receipts EXCEPT ![i] = e] \in Seq(Receipt)
        BY <3>1, ExceptSeq
      <3> QED BY <1>4, <3>2
    <2> QED BY <1>4, <2>1, <2>2, <2>3
  <1>6. OneOfEach(receipts')
    BY <1>3, <1>5 DEF ReplayInv, HasAsked, OneOfEach
  <1>7. receipts[i].key \notin asked.completed
    BY <1>1
  <1> QED BY <1>1, <1>3, <1>5, <1>6, <1>7, WritingKeeps

LEMMA ReserveKeeps ==
  ASSUME ReplayInv, NEW k \in ReceiptKeys, NEW id \in RecordIds \cup LostIds, NEW at \in 0..MaxClock,
         Reserve(k, id, at)
  PROVE  ReplayInv'
  <1>1. /\ receipts \in Seq(Receipt) /\ \A i \in DOMAIN receipts : receipts[i] \in Receipt
        /\ \A i \in DOMAIN receipts : receipts[i].key \in asked.completed => receipts[i].status = "completed"
        /\ \A key \in asked.completed : \E i \in DOMAIN receipts : receipts[i].key = key
    BY DEF ReplayInv, HasAsked
  <1>2. UNCHANGED <<filed, query, shown, asked>>
    BY DEF Reserve
  <1>3. CASE (\A x \in Range(receipts) : x.key # k)
             /\ receipts' = Append(receipts, [key |-> k, record |-> id, status |-> "pending", updated |-> at])
    <2>1. PICK new \in Receipt : receipts' = Append(receipts, new) /\ new.key = k
      BY <1>3 DEF Receipt
    <2>2. /\ receipts' \in Seq(Receipt) /\ DOMAIN receipts' = DOMAIN receipts \cup {Len(receipts) + 1}
          /\ \A i \in DOMAIN receipts : receipts'[i] = receipts[i]
          /\ receipts'[Len(receipts) + 1] = new
      BY <1>1, <2>1
    <2>3. \A i \in DOMAIN receipts : receipts[i].key # k
      BY <1>3 DEF Range
    <2>4. k \notin asked.completed
      BY <1>1, <2>3
    <2>5. OneOfEach(receipts')
      BY <2>1, <2>2, <2>3 DEF ReplayInv, HasAsked, OneOfEach
    <2> QED BY <1>1, <1>2, <2>1, <2>2, <2>4, <2>5, WritingKeeps
  <1>4. ASSUME NEW i \in DOMAIN receipts, receipts[i].status # "completed",
               receipts' = [receipts EXCEPT ![i].status = "pending", ![i].updated = at]
        PROVE  ReplayInv'
    BY <1>1, <1>2, <1>4, EntryKeeps
  <1> QED BY <1>3, <1>4 DEF Reserve

LEMMA SettleKeeps ==
  ASSUME ReplayInv, NEW k \in ReceiptKeys, NEW s \in {"completed", "failed"}, NEW at \in 0..MaxClock,
         Settle(k, s, at)
  PROVE  ReplayInv'
  <1>1. PICK i \in DOMAIN receipts :
          /\ receipts[i].status = "pending"
          /\ receipts' = [receipts EXCEPT ![i].status = s, ![i].updated = at]
    BY DEF Settle
  <1>2. UNCHANGED <<filed, query, shown, asked>>
    BY DEF Settle
  <1> QED BY <1>1, <1>2, EntryKeeps

LEMMA FilingKeeps ==
  ASSUME ReplayInv, NEW id \in RecordIds, NEW g \in GateOutcomes, NEW x \in Executions, FileRecord(id, g, x)
  PROVE  ReplayInv'
  <1> DEFINE new == [id |-> id, gates |-> g, run |-> x]
  <1>1. Filed(new)
    BY OutcomeShaped DEF Filed, GateOutcomes
  <1>2. /\ filed' = filed \cup {new} /\ id \notin filedIds
        /\ UNCHANGED <<receipts, query, shown, asked>>
    BY DEF FileRecord
  <1>3. namingRecord(receipts, id) # {}
    BY DEF FileRecord, namingRecord, Range
  <1>4. \A r \in filed' : Filed(r) /\ namingRecord(receipts, r.id) # {}
    BY <1>1, <1>2, <1>3 DEF ReplayInv
  <1>5. \A r, s \in filed' : r.id = s.id => r = s
    BY <1>2 DEF ReplayInv, filedIds
  <1>6. asked.ids \subseteq filedIds /\ filedIds \subseteq filedIds'
    BY <1>2 DEF ReplayInv, filedIds
  <1>7. Known(filed', asked) = Known(filed, asked)
    BY <1>2, <1>6 DEF Known
  <1>8. \A v \in shown : \E r \in filed' : Shows(v, r)
    BY <1>2 DEF ReplayInv
  <1>9. NothingAskedForIsMissing'
    BY <1>2 DEF ReplayInv, NothingAskedForIsMissing
  <1>10. query # Idle =>
       /\ query.kind # "list" => asked.ids \subseteq {query.id}
       /\ query.records # Unread =>
            query.records[1] \subseteq filed' /\ Known(filed', asked) \subseteq query.records[1]
       /\ query.receipts # Unread => HasAsked(query.receipts[1], asked)
       /\ "records" \in DOMAIN query
    BY <1>2, <1>7 DEF ReplayInv
  <1>11. HasAsked(receipts, asked)
    BY DEF ReplayInv
  <1> QED BY <1>2, <1>4, <1>5, <1>6, <1>8, <1>9, <1>10, <1>11
          DEF ReplayInv, Known, HasAsked, Shows, Filed, namingRecord

LEMMA AskKeeps ==
  ASSUME ReplayInv, NEW q, NEW ids, ids \subseteq filedIds, Ask(q, ids),
         q # Idle, q.records = Unread, q.receipts = Unread, "records" \in DOMAIN q,
         q.kind # "list" => ids \subseteq {q.id}
  PROVE  ReplayInv'
  <1>1. /\ query' = q /\ shown' = {} /\ filed' = filed /\ receipts' = receipts
        /\ asked' = [ids |-> ids, completed |-> completedKeys]
    BY DEF Ask
  <1>2. asked'.ids = ids /\ asked'.completed = completedKeys
    BY <1>1
  <1>3. receipts \in Seq(Receipt) /\ OneOfEach(receipts)
    BY DEF ReplayInv, HasAsked
  <1>4. \A key \in completedKeys : \E i \in DOMAIN receipts : receipts[i].key = key /\ receipts[i].status = "completed"
    BY DEF completedKeys, Range
  <1>5. \A i \in DOMAIN receipts : receipts[i].key \in completedKeys => receipts[i].status = "completed"
    BY <1>3, <1>4 DEF OneOfEach
  <1>6. \A id \in ids : namingRecord(receipts, id) # {}
    BY DEF ReplayInv, filedIds
  <1>7. HasAsked(receipts', asked')
    BY <1>1, <1>2, <1>3, <1>4, <1>5, <1>6 DEF HasAsked
  <1>8. NothingAskedForIsMissing' /\ asked'.ids \subseteq filedIds'
    BY <1>1, <1>2 DEF NothingAskedForIsMissing, filedIds
  <1>9. \A r \in filed' : Filed(r) /\ namingRecord(receipts', r.id) # {}
    BY <1>1 DEF ReplayInv
  <1>10. \A r, s \in filed' : r.id = s.id => r = s
    BY <1>1 DEF ReplayInv
  <1> QED BY <1>1, <1>2, <1>7, <1>8, <1>9, <1>10 DEF ReplayInv, HasAsked, Filed, namingRecord, OneOfEach

LEMMA ReadingKeeps ==
  ASSUME ReplayInv, ReadRecords \/ ReadReceipts
  PROVE  ReplayInv'
  <1>1. UNCHANGED <<filed, receipts, shown, asked>> /\ query # Idle
    BY DEF ReadRecords, ReadReceipts
  <1>0. /\ query.kind # "list" => asked.ids \subseteq {query.id}
        /\ query.records # Unread =>
             query.records[1] \subseteq filed /\ Known(filed, asked) \subseteq query.records[1]
        /\ query.receipts # Unread => HasAsked(query.receipts[1], asked)
        /\ "records" \in DOMAIN query
    BY <1>1 DEF ReplayInv
  <1>4. /\ query'.kind # "list" => asked.ids \subseteq {query'.id}
        /\ query'.records # Unread =>
             query'.records[1] \subseteq filed /\ Known(filed, asked) \subseteq query'.records[1]
        /\ query'.receipts # Unread => HasAsked(query'.receipts[1], asked)
        /\ "records" \in DOMAIN query'
    <2>1. CASE ReadRecords
      <3>1. PICK found : /\ query' = [query EXCEPT !.records = <<found>>]
                         /\ found = {r \in filed : IF query.kind = "list" THEN TRUE ELSE r.id = query.id}
        BY <2>1 DEF ReadRecords
      <3>2. found \subseteq filed /\ Known(filed, asked) \subseteq found
        BY <1>0, <3>1 DEF Known
      <3>3. /\ query'.records = <<found>> /\ query'.kind = query.kind /\ query'.id = query.id
            /\ query'.receipts = query.receipts /\ "records" \in DOMAIN query'
        BY <1>0, <3>1
      <3> QED BY <1>0, <3>2, <3>3
    <2>2. CASE ReadReceipts
      <3>1. query' = [query EXCEPT !.receipts = <<receipts>>]
        BY <2>2 DEF ReadReceipts
      <3>2. query'.receipts # Unread => query'.receipts[1] = receipts
        BY <3>1
      <3>3. query'.records = query.records /\ query'.kind = query.kind /\ query'.id = query.id /\ "records" \in DOMAIN query'
        BY <1>0, <3>1
      <3>4. HasAsked(receipts, asked)
        BY DEF ReplayInv
      <3> QED BY <1>0, <3>2, <3>3, <3>4
    <2> QED BY <2>1, <2>2
  <1>5. query' # Idle
    BY <1>4 DEF Idle
  <1>6. NothingAskedForIsMissing'
    BY <1>5 DEF NothingAskedForIsMissing
  <1> QED BY <1>1, <1>4, <1>6 DEF ReplayInv, HasAsked, Known, filedIds, Shows, Filed, namingRecord, OneOfEach

(* A case view is true of its record, and what was there when it was asked     *)
(* for is in the answer, for any number of records, receipts and writes        *)
(* between the two reads.                                                      *)
THEOREM CaseViewsAreTrue == ReplaySpec => []CaseViewIsTrue
  <1>1. ReplayInit => ReplayInv
    <2> SUFFICES ASSUME ReplayInit PROVE ReplayInv
      OBVIOUS
    <2>1. filed = {} /\ receipts = <<>> /\ query = Idle /\ shown = {} /\ asked.ids = {} /\ asked.completed = {}
      BY DEF ReplayInit
    <2>2. HasAsked(receipts, asked)
      BY <2>1 DEF HasAsked, OneOfEach
    <2> QED BY <2>1, <2>2 DEF ReplayInv, NothingAskedForIsMissing, filedIds
  <1>2. ReplayInv /\ [ReplayNext]_replayVars => ReplayInv'
    <2> SUFFICES ASSUME ReplayInv, [ReplayNext]_replayVars PROVE ReplayInv'
      OBVIOUS
    <2>1. ASSUME ListCases PROVE ReplayInv'
      <3> DEFINE q == [kind |-> "list", records |-> Unread, receipts |-> Unread]
      <3>1. q # Idle
        <4>1. "records" \in DOMAIN q /\ "records" \notin DOMAIN Idle
          BY DEF Idle
        <4> QED BY <4>1
      <3> QED BY <2>1, <3>1, AskKeeps DEF ListCases
    <2>2. ASSUME NEW id \in RecordIds \cup LostIds, GetCase(id) PROVE ReplayInv'
      <3> DEFINE q == [kind |-> "case", id |-> id, records |-> Unread, receipts |-> Unread]
      <3>1. q # Idle
        <4>1. "records" \in DOMAIN q /\ "records" \notin DOMAIN Idle
          BY DEF Idle
        <4> QED BY <4>1
      <3> QED BY <2>2, <3>1, AskKeeps DEF GetCase
    <2>3. CASE Answer
      <3>1. /\ query' = Idle /\ UNCHANGED <<filed, receipts, asked>>
        BY <2>3 DEF Answer
      <3>2. (\A v \in shown' : \E r \in filed : Shows(v, r)) /\ NothingAskedForIsMissing'
        BY <2>3, AnswerIsComplete
      <3> QED BY <3>1, <3>2 DEF ReplayInv, HasAsked, Known, filedIds, Shows, Filed, namingRecord, OneOfEach
    <2>4. CASE UNCHANGED replayVars
      BY <2>4 DEF replayVars, ReplayInv, HasAsked, Known, filedIds, Shows, Filed, namingRecord, OneOfEach,
                  NothingAskedForIsMissing
    <2> QED BY <2>1, <2>2, <2>3, <2>4, ReadingKeeps, ReserveKeeps, SettleKeeps, FilingKeeps DEF ReplayNext
  <1> QED BY <1>1, <1>2, ViewsAreTrue, PTL DEF ReplaySpec

-----------------------------------------------------------------------------
(* Failures of memories. The list of failures only grows, so what a            *)
(* recommendation was made of stays in it; and a query in which nothing moved  *)
(* has every entry of the lists it has read, as fresh as they still are.       *)

Failure ==
  [id : FailureIds, memory : SafetyMemories, category : Categories, at : Nat, referenceIds : SUBSET References]

(* A recommendation was made of listed failures.                               *)
MadeOf(a, seen) == a.failureIds = idsOf(seen) /\ a.referenceIds = referencesOf(seen)

AdviceInv ==
  /\ failures \in Seq(Failure)
  /\ safetyNow \in Nat /\ rule \in Rules
  /\ \A a \in advice :
       /\ a.rule \in Rules /\ a.memory \in SafetyMemories /\ a.category \in Categories
       /\ \E seen \in SUBSET DOMAIN failures : MadeOf(a, seen)
  /\ AdviceNeedsRepetition
  /\ storedAdvice \subseteq Entries

Collected ==
  /\ DOMAIN reading = {"memory", "lists", "got", "calm"}
  /\ reading.calm =>
       \A k \in {"quarantine", "recovery"} : k \in reading.lists => EntriesOf(k) \subseteq reading.got

ReadSoFar == reading # NoQuery => Collected

SafetyInv == AdviceInv /\ ReadSoFar

LEMMA RecommendationFields ==
  ASSUME NEW p, NEW t, NEW m, NEW c, NEW a, a = Recommendation(p, t, m, c)
  PROVE  /\ a.memory = m /\ a.category = c /\ a.rule = p /\ a.at = t
         /\ a.failureIds = idsOf(Group(p, t, m, c)) /\ a.referenceIds = referencesOf(Group(p, t, m, c))
  BY DEF Recommendation

LEMMA EvaluationFacts ==
  ASSUME NEW p \in Rules, NEW t, NEW a \in evaluateRepeatedMemoryFailures(p, t)
  PROVE  /\ a.rule = p /\ a.memory \in SafetyMemories /\ a.category \in Categories /\ a.at = t
         /\ a.failureIds = idsOf(Group(p, t, a.memory, a.category))
         /\ a.referenceIds = referencesOf(Group(p, t, a.memory, a.category))
         /\ Cardinality(a.failureIds) >= p.threshold
  <1>1. PICK mc \in SafetyMemories \X Categories :
          /\ CountedFailures(Group(p, t, mc[1], mc[2])) >= p.threshold
          /\ a = Recommendation(p, t, mc[1], mc[2])
    BY DEF evaluateRepeatedMemoryFailures
  <1>2. mc[1] \in SafetyMemories /\ mc[2] \in Categories
    BY <1>1
  <1> QED BY <1>1, <1>2, RecommendationFields DEF CountedFailures

(* An evaluation rests on failures in its window.                              *)
LEMMA EvaluationKeeps ==
  ASSUME SafetyInv, Evaluate
  PROVE  SafetyInv'
  <1>1. /\ advice' = evaluateRepeatedMemoryFailures(rule, safetyNow)
        /\ failures' = failures /\ safetyNow' = safetyNow /\ rule' = rule
        /\ storedAdvice' = storedAdvice /\ fresh' = fresh /\ reading' = reading
    BY DEF Evaluate
  <1>2. ASSUME NEW a \in advice'
        PROVE  /\ Cardinality(a.failureIds) >= a.rule.threshold
               /\ \A id \in a.failureIds : \E i \in DOMAIN failures :
                    /\ failures[i].id = id
                    /\ failures[i].memory = a.memory /\ failures[i].category = a.category
                    /\ failures[i].at <= a.at /\ a.at - failures[i].at <= a.rule.window
               /\ a.rule \in Rules /\ a.memory \in SafetyMemories /\ a.category \in Categories
               /\ \E seen \in SUBSET DOMAIN failures : MadeOf(a, seen)
    <2>1. /\ a.rule = rule /\ rule \in Rules /\ a.memory \in SafetyMemories /\ a.category \in Categories
          /\ a.at = safetyNow /\ Cardinality(a.failureIds) >= rule.threshold
          /\ a.failureIds = idsOf(Group(rule, safetyNow, a.memory, a.category))
      BY <1>1, EvaluationFacts DEF SafetyInv, AdviceInv
    <2>2. ASSUME NEW id \in a.failureIds
          PROVE  \E i \in DOMAIN failures :
                    /\ failures[i].id = id
                    /\ failures[i].memory = a.memory /\ failures[i].category = a.category
                    /\ failures[i].at <= a.at /\ a.at - failures[i].at <= a.rule.window
      <3>1. PICK i \in DOMAIN failures :
              /\ failures[i].at <= safetyNow /\ failures[i].at + rule.window >= safetyNow
              /\ failures[i].memory = a.memory /\ failures[i].category = a.category
              /\ failures[i].id = id
        BY <2>1, <2>2 DEF idsOf, Group, InWindow
      <3>2. failures[i].at \in Nat /\ safetyNow \in Nat /\ rule.window \in Nat
        <4>1. rule \in Rules /\ safetyNow \in Nat /\ failures[i] \in Failure
          BY DEF SafetyInv, AdviceInv
        <4> QED BY <4>1, RulesAssumption DEF Failure
      <3>3. safetyNow - failures[i].at <= rule.window
        BY <3>1, <3>2
      <3>4. failures[i].at <= a.at /\ a.at - failures[i].at <= a.rule.window
        BY <2>1, <3>1, <3>3
      <3> QED BY <3>1, <3>4
    <2>3. \E seen \in SUBSET DOMAIN failures : MadeOf(a, seen)
      <3>1. PICK seen : seen = Group(rule, safetyNow, a.memory, a.category)
        OBVIOUS
      <3>2. seen \in SUBSET DOMAIN failures
        BY <3>1 DEF Group, InWindow
      <3>3. MadeOf(a, seen)
        BY <1>1, <3>1, EvaluationFacts DEF MadeOf, SafetyInv, AdviceInv
      <3> QED BY <3>2, <3>3
    <2> QED BY <2>1, <2>2, <2>3
  <1>3. AdviceInv'
    <2>1. ASSUME NEW a, NEW seen PROVE MadeOf(a, seen)' <=> MadeOf(a, seen)
      BY <1>1 DEF MadeOf, idsOf, referencesOf
    <2> QED BY <1>1, <1>2, <2>1 DEF SafetyInv, AdviceInv, AdviceNeedsRepetition
  <1>4. ReadSoFar'
    BY <1>1 DEF SafetyInv, ReadSoFar, Collected, EntriesOf
  <1> QED BY <1>3, <1>4 DEF SafetyInv

(* The list of failures grows; nothing that was counted goes away.             *)
LEMMA GrowthKeeps ==
  ASSUME SafetyInv, NEW f \in Failure, failures' = Append(failures, f),
         UNCHANGED <<safetyNow, rule, advice, storedAdvice, fresh, reading>>
  PROVE  SafetyInv'
  <1>1. /\ DOMAIN failures' = DOMAIN failures \cup {Len(failures) + 1}
        /\ \A i \in DOMAIN failures : failures'[i] = failures[i]
        /\ failures'[Len(failures) + 1] = f
    BY DEF SafetyInv, AdviceInv
  <1>2. ASSUME NEW a \in advice PROVE \E seen \in SUBSET DOMAIN failures' : MadeOf(a, seen)'
    <2>1. PICK seen \in SUBSET DOMAIN failures : MadeOf(a, seen)
      BY DEF SafetyInv, AdviceInv
    <2>2. idsOf(seen)' = idsOf(seen) /\ referencesOf(seen)' = referencesOf(seen)
      BY <1>1, <2>1 DEF idsOf, referencesOf
    <2>3. seen \in SUBSET DOMAIN failures' /\ MadeOf(a, seen)'
      BY <1>1, <2>1, <2>2 DEF MadeOf
    <2> QED BY <2>3
  <1>4. failures' \in Seq(Failure) /\ safetyNow' \in Nat /\ rule' \in Rules /\ storedAdvice' \subseteq Entries
    BY DEF SafetyInv, AdviceInv
  <1>5. AdviceNeedsRepetition'
    BY <1>1 DEF SafetyInv, AdviceInv, AdviceNeedsRepetition
  <1>6. AdviceInv'
    BY <1>2, <1>4, <1>5 DEF SafetyInv, AdviceInv
  <1>3. ReadSoFar'
    BY DEF SafetyInv, ReadSoFar, Collected, EntriesOf
  <1> QED BY <1>3, <1>6 DEF SafetyInv

LEMMA AdviceKeeps ==
  ASSUME AdviceInv, UNCHANGED <<failures, advice>>, safetyNow' \in Nat, rule' \in Rules, storedAdvice' \subseteq Entries
  PROVE  AdviceInv'
  <1>1. ASSUME NEW a, NEW seen PROVE MadeOf(a, seen)' <=> MadeOf(a, seen)
    BY DEF MadeOf, idsOf, referencesOf
  <1>2. AdviceNeedsRepetition'
    BY DEF AdviceInv, AdviceNeedsRepetition
  <1>3. failures' \in Seq(Failure)
    BY DEF AdviceInv
  <1>4. \A a \in advice' :
          /\ a.rule \in Rules /\ a.memory \in SafetyMemories /\ a.category \in Categories
          /\ \E seen \in SUBSET DOMAIN failures' : MadeOf(a, seen)'
    BY <1>1 DEF AdviceInv
  <1> QED BY <1>2, <1>3, <1>4 DEF AdviceInv

(* A query collects its lists; what moves in between disturbs it.              *)
LEMMA QueryKeeps ==
  ASSUME SafetyInv, UNCHANGED <<failures, safetyNow, rule, advice, storedAdvice, fresh>>,
         reading' = NoQuery \/ (\E m \in SafetyMemories : getMemorySafety(m))
           \/ (\E k \in {"quarantine", "recovery", "prevention"} : ReadList(k))
  PROVE  SafetyInv'
  <1>1. AdviceInv'
    BY AdviceKeeps DEF SafetyInv, AdviceInv
  <1>2. \A k : EntriesOf(k)' = EntriesOf(k)
    BY DEF EntriesOf
  <1>3. CASE reading' = NoQuery
    <2>1. ~(reading # NoQuery)'
      BY <1>3 DEF NoQuery
    <2> QED BY <1>1, <2>1 DEF SafetyInv, ReadSoFar
  <1>4. ASSUME NEW m \in SafetyMemories, getMemorySafety(m) PROVE ReadSoFar'
    <2>1. reading' = [memory |-> <<m>>, lists |-> {}, got |-> {}, calm |-> TRUE]
      BY <1>4 DEF getMemorySafety
    <2>2. DOMAIN reading' = {"memory", "lists", "got", "calm"} /\ reading'.lists = {}
      BY <2>1
    <2> QED BY <2>2 DEF ReadSoFar, Collected
  <1>5. ASSUME NEW k \in {"quarantine", "recovery", "prevention"}, ReadList(k) PROVE ReadSoFar'
    <2> DEFINE more == IF k = "prevention" THEN AdviceEntries ELSE EntriesOf(k)
    <2>1. reading # NoQuery /\ reading' = [reading EXCEPT !.lists = @ \cup {k}, !.got = @ \cup more]
      BY <1>5 DEF ReadList
    <2>2. DOMAIN reading = {"memory", "lists", "got", "calm"}
      BY <2>1 DEF SafetyInv, ReadSoFar, Collected
    <2>3. /\ DOMAIN reading' = {"memory", "lists", "got", "calm"}
          /\ reading'.lists = reading.lists \cup {k} /\ reading'.got = reading.got \cup more
          /\ reading'.calm = reading.calm
      BY <2>1, <2>2
    <2>4. ASSUME reading'.calm, NEW j \in {"quarantine", "recovery"}, j \in reading'.lists
          PROVE  EntriesOf(j) \subseteq reading'.got
      <3>1. CASE j = k
        BY <2>3, <3>1
      <3>2. CASE j # k
        BY <2>1, <2>3, <2>4, <3>2 DEF SafetyInv, ReadSoFar, Collected
      <3> QED BY <3>1, <3>2
    <2> QED BY <1>2, <2>3, <2>4 DEF ReadSoFar, Collected
  <1> QED BY <1>1, <1>3, <1>4, <1>5 DEF SafetyInv

LEMMA DisturbanceKeeps ==
  ASSUME SafetyInv, reading' = disturbed, failures' = failures, advice' = advice,
         safetyNow' \in Nat, rule' \in Rules, storedAdvice' \subseteq Entries
  PROVE  SafetyInv'
  <1>1. AdviceInv'
    BY AdviceKeeps DEF SafetyInv, AdviceInv
  <1>2. ReadSoFar'
    <2>1. CASE reading = NoQuery
      BY <2>1 DEF disturbed, ReadSoFar, Collected
    <2>2. CASE reading # NoQuery
      <3>1. DOMAIN reading = {"memory", "lists", "got", "calm"}
        BY <2>2 DEF SafetyInv, ReadSoFar, Collected
      <3>2. reading' = [reading EXCEPT !.calm = FALSE]
        BY <2>2 DEF disturbed
      <3>3. DOMAIN reading' = {"memory", "lists", "got", "calm"} /\ ~reading'.calm
        BY <3>1, <3>2
      <3> QED BY <3>3 DEF ReadSoFar, Collected
    <2> QED BY <2>1, <2>2
  <1> QED BY <1>1, <1>2 DEF SafetyInv

LEMMA DisturbedIsNoEnd ==
  ASSUME SafetyInv, reading' = disturbed
  PROVE  reading = NoQuery \/ reading' # NoQuery
  <1>1. CASE reading # NoQuery
    <2>1. DOMAIN reading = {"memory", "lists", "got", "calm"}
      BY <1>1 DEF SafetyInv, ReadSoFar, Collected
    <2>2. "lists" \in DOMAIN reading'
      BY <1>1, <2>1 DEF disturbed
    <2> QED BY <2>2 DEF NoQuery
  <1> QED BY <1>1

(* Failures of the same ids have the same references while no id is rebound.   *)
LEMMA SameIdsSameReferences ==
  ASSUME NEW a, ~Rebound(a), NEW S, S \subseteq DOMAIN failures, NEW T, T \subseteq DOMAIN failures,
         a.failureIds = idsOf(S), a.failureIds = idsOf(T)
  PROVE  referencesOf(S) = referencesOf(T)
  <1>1. ASSUME NEW A, NEW B, A \subseteq DOMAIN failures, B \subseteq DOMAIN failures,
               a.failureIds = idsOf(A), a.failureIds = idsOf(B), NEW i \in A
        PROVE  \E j \in B : failures[j] = failures[i]
    <2>1. failures[i].id \in a.failureIds
      BY <1>1 DEF idsOf
    <2>2. PICK j \in B : failures[j].id = failures[i].id
      BY <1>1, <2>1 DEF idsOf
    <2>3. failures[j] = failures[i]
      BY <1>1, <2>1, <2>2 DEF Rebound
    <2> QED BY <2>3
  <1>2. (\A i \in S : \E j \in T : failures[j] = failures[i]) /\ (\A i \in T : \E j \in S : failures[j] = failures[i])
    BY <1>1
  <1> QED BY <1>2 DEF referencesOf

(* What is called current would be recommended again now.                      *)
LEMMA CurrentIsReproducible ==
  ASSUME SafetyInv
  PROVE  CurrentAdviceIsReproducible
  <1> SUFFICES ASSUME NEW a \in advice, ~Stale(a)
               PROVE  \E b \in evaluateRepeatedMemoryFailures(rule, safetyNow) :
                        /\ b.memory = a.memory /\ b.category = a.category /\ b.rule = a.rule
                        /\ b.failureIds = a.failureIds
                        /\ ~Rebound(a) => identity(b) = identity(a)
    BY DEF CurrentAdviceIsReproducible
  <1> DEFINE b == Recommendation(rule, safetyNow, a.memory, a.category)
  <1>1. /\ a.rule \in Rules /\ rule \in Rules /\ a.memory \in SafetyMemories /\ a.category \in Categories
        /\ Cardinality(a.failureIds) >= a.rule.threshold
    BY DEF SafetyInv, AdviceInv, AdviceNeedsRepetition
  <1>2. /\ a.rule.version = rule.version /\ a.rule.threshold = rule.threshold
        /\ a.rule.window = rule.window
        /\ a.failureIds = idsOf(Group(rule, safetyNow, a.memory, a.category))
    BY DEF Stale, isStale
  <1>3. a.rule = rule
    BY <1>1, <1>2, RulesAssumption
  <1>4. b \in evaluateRepeatedMemoryFailures(rule, safetyNow)
    <2> DEFINE mc == <<a.memory, a.category>>
    <2>1. mc \in SafetyMemories \X Categories /\ mc[1] = a.memory /\ mc[2] = a.category
      BY <1>1
    <2>2. CountedFailures(Group(rule, safetyNow, mc[1], mc[2])) >= rule.threshold
      BY <1>1, <1>2, <1>3, <2>1 DEF CountedFailures
    <2>3. b = Recommendation(rule, safetyNow, mc[1], mc[2])
      BY <2>1
    <2> HIDE DEF mc, b
    <2> QED BY <2>1, <2>2, <2>3 DEF evaluateRepeatedMemoryFailures
  <1>5. /\ b.memory = a.memory /\ b.category = a.category /\ b.rule = a.rule /\ b.failureIds = a.failureIds
        /\ b.referenceIds = referencesOf(Group(rule, safetyNow, a.memory, a.category))
    BY <1>2, <1>3, RecommendationFields
  <1> HIDE DEF b
  <1>6. ASSUME ~Rebound(a) PROVE b.referenceIds = a.referenceIds
    <2>1. PICK G : G = Group(rule, safetyNow, a.memory, a.category) /\ G \subseteq DOMAIN failures
      BY DEF Group, InWindow
    <2>2. PICK seen \in SUBSET DOMAIN failures : MadeOf(a, seen)
      BY DEF SafetyInv, AdviceInv
    <2>3. a.failureIds = idsOf(seen) /\ a.failureIds = idsOf(G)
      BY <1>2, <2>1, <2>2 DEF MadeOf
    <2>4. referencesOf(seen) = referencesOf(G)
      BY <1>6, <2>1, <2>2, <2>3, SameIdsSameReferences
    <2> QED BY <1>5, <2>1, <2>2, <2>4 DEF MadeOf
  <1>7. ~Rebound(a) => identity(b) = identity(a)
    BY <1>5, <1>6 DEF identity
  <1> QED BY <1>4, <1>5, <1>7

(* The view that a calm query ends with.                                       *)
Truthful ==
  reading # NoQuery /\ reading' = NoQuery /\ safety' # NoView =>
       /\ reading.calm =>
            \A e \in {e \in storedAdvice : <<e.memory>> = reading.memory} :
              \E x \in safety'.items : x.of = e /\ (x.current <=> e \in fresh)
       /\ safety'.warnings = Cardinality({x \in safety'.items : ~x.current})
       /\ \A x \in safety'.items : <<x.memory>> = reading.memory

LEMMA ViewIsTruthful ==
  ASSUME SafetyInv, BuildView
  PROVE  Truthful
  <1> DEFINE mine == {e \in reading.got : <<e.memory>> = reading.memory}
  <1> SUFFICES ASSUME safety' # NoView
               PROVE  /\ reading.calm =>
                           \A e \in {e \in storedAdvice : <<e.memory>> = reading.memory} :
                             \E x \in safety'.items : x.of = e /\ (x.current <=> e \in fresh)
                      /\ safety'.warnings = Cardinality({x \in safety'.items : ~x.current})
                      /\ \A x \in safety'.items : <<x.memory>> = reading.memory
    BY DEF Truthful
  <1>1. /\ reading # NoQuery /\ reading.lists = {"quarantine", "recovery", "prevention"}
        /\ safety' = [items |-> mine, of |-> reading.memory,
                       warnings |-> Cardinality({e \in mine : ~e.current})]
    BY DEF BuildView
  <1>2. safety'.items = mine /\ safety'.warnings = Cardinality({e \in mine : ~e.current})
    BY <1>1
  <1>3. ASSUME reading.calm, NEW e \in storedAdvice, <<e.memory>> = reading.memory
        PROVE  \E x \in mine : x.of = e /\ (x.current <=> e \in fresh)
    <2>1. e.kind \in {"quarantine", "recovery"}
      BY RulesAssumption DEF SafetyInv, AdviceInv
    <2> DEFINE x == [kind |-> e.kind, memory |-> e.memory, sound |-> e.sound, of |-> e,
                     current |-> currentEntry(e, e \in fresh)]
    <2>2. x \in EntriesOf(e.kind)
      BY DEF EntriesOf
    <2>3. x \in reading.got
      BY <1>1, <1>3, <2>1, <2>2 DEF SafetyInv, ReadSoFar, Collected
    <2>4. x.memory = e.memory /\ x.of = e /\ (x.current <=> e \in fresh)
      BY DEF currentEntry
    <2> QED BY <1>3, <2>3, <2>4
  <1> QED BY <1>2, <1>3

(* The advice rests on repetition, is reproducible while it is called current, *)
(* and the view of it is true, for any number of failures, rules, queries and  *)
(* redeliveries.                                                               *)
THEOREM AdviceStaysTrue == SafetySpec => AdviceIsTrue
  <1>1. SafetyInit => SafetyInv
    <2> SUFFICES ASSUME SafetyInit PROVE SafetyInv
      OBVIOUS
    <2>1. failures = <<>> /\ safetyNow = 0 /\ rule \in Rules /\ advice = {} /\ storedAdvice = {} /\ reading = NoQuery
      BY DEF SafetyInit
    <2> QED BY <2>1 DEF SafetyInv, AdviceInv, AdviceNeedsRepetition, ReadSoFar, Collected
  <1>2. SafetyInv /\ [SafetyNext]_safetyVars => SafetyInv' /\ [Truthful]_safetyVars
    <2> SUFFICES ASSUME SafetyInv, [SafetyNext]_safetyVars PROVE SafetyInv' /\ (Truthful \/ UNCHANGED safetyVars)
      OBVIOUS
    <2>1. CASE Evaluate
      BY <2>1, EvaluationKeeps DEF Evaluate, Truthful
    <2>2. CASE BuildView
      <3>1. reading' = NoQuery /\ UNCHANGED <<failures, safetyNow, rule, advice, storedAdvice, fresh>>
        BY <2>2 DEF BuildView
      <3> QED BY <2>2, <3>1, QueryKeeps, ViewIsTruthful
    <2>3. CASE TimePasses
      <3>1. safetyNow' \in Nat
        BY <2>3 DEF TimePasses, SafetyInv, AdviceInv
      <3>2. reading = NoQuery \/ reading' # NoQuery
        BY <2>3, DisturbedIsNoEnd DEF TimePasses
      <3> QED BY <2>3, <3>1, <3>2, DisturbanceKeeps DEF TimePasses, Truthful, SafetyInv, AdviceInv
    <2>4. ASSUME NEW id \in FailureIds, NEW m \in SafetyMemories, NEW c \in Categories,
                 NEW refs \in (SUBSET References) \ {{}}, RecordFailure(id, m, c, refs)
          PROVE  SafetyInv' /\ Truthful
      <3>1. [id |-> id, memory |-> m, category |-> c, at |-> safetyNow, referenceIds |-> refs] \in Failure
        BY DEF SafetyInv, AdviceInv, Failure
      <3> QED BY <2>4, <3>1, GrowthKeeps DEF RecordFailure, Truthful
    <2>5. ASSUME NEW i \in DOMAIN failures, Redelivered(i) PROVE SafetyInv' /\ Truthful
      <3>1. failures[i] \in Failure
        BY DEF SafetyInv, AdviceInv
      <3> QED BY <2>5, <3>1, GrowthKeeps DEF Redelivered, Truthful
    <2>6. ASSUME NEW m \in SafetyMemories, getMemorySafety(m) PROVE SafetyInv' /\ Truthful
      BY <2>6, QueryKeeps DEF getMemorySafety, Truthful
    <2>7. ASSUME NEW k \in {"quarantine", "recovery", "prevention"}, ReadList(k) PROVE SafetyInv' /\ Truthful
      <3>1. reading' # NoQuery
        <4>1. DOMAIN reading = {"memory", "lists", "got", "calm"}
          BY <2>7 DEF ReadList, SafetyInv, ReadSoFar, Collected
        <4>2. "lists" \in DOMAIN reading'
          BY <2>7, <4>1 DEF ReadList
        <4> QED BY <4>2 DEF NoQuery
      <3> QED BY <2>7, <3>1, QueryKeeps DEF ReadList, Truthful
    <2>8. ASSUME NEW e \in Entries, Store(e) PROVE SafetyInv' /\ Truthful
      <3>2. reading = NoQuery \/ reading' # NoQuery
        BY <2>8, DisturbedIsNoEnd DEF Store
      <3> QED BY <2>8, <3>2, DisturbanceKeeps DEF Store, Truthful, SafetyInv, AdviceInv
    <2>9. ASSUME NEW e \in fresh, BasisChanges(e) PROVE SafetyInv' /\ Truthful
      <3>2. reading = NoQuery \/ reading' # NoQuery
        BY <2>9, DisturbedIsNoEnd DEF BasisChanges
      <3> QED BY <2>9, <3>2, DisturbanceKeeps DEF BasisChanges, Truthful, SafetyInv, AdviceInv
    <2>10. ASSUME NEW p \in Rules, SetRule(p) PROVE SafetyInv' /\ Truthful
      <3>2. reading = NoQuery \/ reading' # NoQuery
        BY <2>10, DisturbedIsNoEnd DEF SetRule
      <3> QED BY <2>10, <3>2, DisturbanceKeeps DEF SetRule, Truthful, SafetyInv, AdviceInv
    <2>11. CASE UNCHANGED safetyVars
      <3>1. AdviceInv'
        BY <2>11, AdviceKeeps DEF safetyVars, SafetyInv, AdviceInv
      <3>2. ReadSoFar'
        BY <2>11 DEF safetyVars, SafetyInv, ReadSoFar, Collected, EntriesOf
      <3> QED BY <2>11, <3>1, <3>2 DEF SafetyInv
    <2> QED BY <2>1, <2>2, <2>3, <2>4, <2>5, <2>6, <2>7, <2>8, <2>9, <2>10, <2>11 DEF SafetyNext
  <1>3. SafetyInv => AdviceNeedsRepetition /\ CurrentAdviceIsReproducible
    BY CurrentIsReproducible DEF SafetyInv, AdviceInv
  <1> QED BY <1>1, <1>2, <1>3, PTL DEF SafetySpec, AdviceIsTrue, CalmViewIsTrue, Truthful
=============================================================================
