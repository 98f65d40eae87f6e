------------------------------ MODULE Captures ------------------------------
(* POST /api/browser/page-context: a page captured by the extension is
   appended to the inbox file, projected into a Case and its Evidence, offered
   to the optional summarizer and written into the Obsidian vault, in that
   order, by one request handler with an await between every two of them.

   A capture is its validated content: two requests with equal content have
   the same receipt. The clients retry what was not acknowledged. *)
EXTENDS Integers, Sequences, FiniteSets

CONSTANTS
    Contexts,     \* captures that pass validatePageContext
    Target,       \* [Contexts -> CaseIds \cup {"own"}]: targetCaseId
    KnownCase,    \* a Case that may exist before, open or archived
    Handlers,     \* requests the server handles at the same time
    HasModel,     \* whether an Ollama model is configured
    MaxFaults,    \* bound: failed file writes
    MaxCrashes    \* bound: stops of the Kernel

VARIABLES
    inboxFile,  \* receipts whose line is in the inbox file
    torn,       \* whether the file ends in a line that was cut off
    receipts,   \* receipts in memory
    inbox,      \* "ready", "stuck" (the write queue is rejected), "corrupt"
    cases,      \* [case id -> status] in the knowledge store
    evidence,   \* sequence of Evidence records in the knowledge store
    summarized, \* receipts whose Evidence has an aiSummary
    caseNotes,  \* [case id -> receipts listed in the Case's note]
    evidenceNotes,  \* receipts with a note of their own
    request,    \* [Handlers -> the request being handled]
    acked,      \* history: captures answered with 202
    faults, crashes

storeVars == <<cases, evidence, summarized>>
vaultVars == <<caseNotes, evidenceNotes>>
inboxVars == <<inboxFile, torn, receipts, inbox>>
captureVars == <<inboxVars, storeVars, vaultVars, request, acked, faults, crashes>>

NoRequest == [pc |-> "none", ctx |-> "none", snapshot |-> {}]
Own(c) == c   \* the Case named after the receipt
CaseOf(c) == IF Target[c] = "own" THEN Own(c) ELSE Target[c]
CaseIds == {CaseOf(c) : c \in Contexts} \cup {KnownCase}
Stored(c) == \E i \in DOMAIN evidence : evidence[i].receipt = c
EvidenceOfCase(k) == {c \in Contexts : \E i \in DOMAIN evidence :
                         evidence[i].receipt = c /\ evidence[i].case = k}

CaptureInit ==
    /\ inboxFile = {} /\ torn = FALSE /\ receipts = {} /\ inbox = "ready"
    /\ \E status \in {"none", "draft", "archived"} :
           cases = [k \in CaseIds |-> IF k = KnownCase THEN status ELSE "none"]
    /\ evidence = <<>> /\ summarized = {}
    /\ caseNotes = [k \in CaseIds |-> {}] /\ evidenceNotes = {}
    /\ request = [h \in Handlers |-> NoRequest]
    /\ acked = {} /\ faults = 0 /\ crashes = 0

Goto(h, pc) == request' = [request EXCEPT ![h].pc = pc]
End(h) == request' = [request EXCEPT ![h] = NoRequest]
Fault == faults < MaxFaults /\ faults' = faults + 1

---------------------------------------------------------------------------
\* PageContextInbox.accept up to the write queue: a known receipt skips it.
Submit(h) ==
    /\ request[h].pc = "none"
    /\ \E c \in Contexts :
           /\ inbox # "corrupt"
           /\ request' = [request EXCEPT ![h] =
                  [pc |-> IF c \in receipts THEN "project" ELSE "append",
                   ctx |-> c, snapshot |-> {}]]
    /\ UNCHANGED <<inboxVars, storeVars, vaultVars, acked, faults, crashes>>

\* mutant: the receipt is remembered before its line is written
AppendLineRememberFirst(h) ==
    /\ request[h].pc = "append"
    /\ receipts' = receipts \cup {request[h].ctx}
    /\ \/ inbox = "ready" /\ Goto(h, "project")
          /\ inboxFile' = inboxFile \cup {request[h].ctx} /\ UNCHANGED faults
       \/ inbox = "ready" /\ Fault /\ End(h) /\ UNCHANGED inboxFile
    /\ UNCHANGED <<torn, inbox, storeVars, vaultVars, acked, crashes>>

\* The queued write. The queue is a promise chain without a catch: after one
\* failed append every later capture that is not known yet is refused.
AppendLine(h) ==
    /\ request[h].pc = "append"
    /\ LET c == request[h].ctx
       IN  \/ /\ inbox = "ready" /\ Goto(h, "project")
              /\ inboxFile' = inboxFile \cup {c} /\ receipts' = receipts \cup {c}
              /\ UNCHANGED <<torn, inbox, faults>>
           \/ /\ inbox = "ready" /\ c \notin receipts /\ Fault /\ End(h)
              /\ inbox' = "stuck" /\ torn' \in BOOLEAN
              /\ UNCHANGED <<inboxFile, receipts>>
           \/ /\ inbox = "stuck" /\ End(h)
              /\ UNCHANGED <<inboxFile, receipts, torn, inbox, faults>>
    /\ UNCHANGED <<storeVars, vaultVars, acked, crashes>>

\* CaptureCaseEvidenceProjector.project, one transaction of the knowledge store.
Projected(c) == [receipt |-> c, case |-> CaseOf(c)]
WriteEvidence(h) ==
    LET c == request[h].ctx
    IN  /\ evidence' = Append(evidence, Projected(c))
        /\ cases' = IF Target[c] = "own" THEN [cases EXCEPT ![Own(c)] = "draft"] ELSE cases
        /\ Goto(h, "summarize")

TakesEvidence(c) ==
    ~Stored(c) /\ (Target[c] = "own" \/ cases[CaseOf(c)] = "draft")

\* A missing or archived target, or a failed write, ends the request with an
\* error: the receipt stays in the inbox, the client may retry.
Project(h) ==
    /\ request[h].pc = "project"
    /\ LET c == request[h].ctx
       IN  \/ TakesEvidence(c) /\ WriteEvidence(h) /\ UNCHANGED faults
           \/ TakesEvidence(c) /\ Fault /\ End(h) /\ UNCHANGED <<evidence, cases>>
           \/ Stored(c) /\ ~TakesEvidence(c) /\ Goto(h, "summarize")
              /\ UNCHANGED <<evidence, cases, faults>>
           \/ ~Stored(c) /\ ~TakesEvidence(c) /\ End(h)
              /\ UNCHANGED <<evidence, cases, faults>>
    /\ UNCHANGED <<inboxVars, summarized, vaultVars, acked, crashes>>

\* OptionalEvidenceSummarizer.summarize never throws: it may be skipped, fail,
\* time out, answer badly, or store the model's summary.
Summarize(h) ==
    /\ request[h].pc = "summarize"
    /\ summarized' \in {summarized} \cup
           (IF HasModel THEN {summarized \cup {request[h].ctx}} ELSE {})
    /\ Goto(h, "read")
    /\ UNCHANGED <<inboxVars, cases, evidence, vaultVars, acked, faults, crashes>>

\* ObsidianKnowledgeProjector.syncCase reads the store, then writes the notes.
SyncRead(h) ==
    /\ request[h].pc = "read"
    /\ request' = [request EXCEPT ![h].pc = "write",
                     ![h].snapshot = EvidenceOfCase(CaseOf(request[h].ctx))]
    /\ UNCHANGED <<inboxVars, storeVars, vaultVars, acked, faults, crashes>>

SyncWrite(h) ==
    /\ request[h].pc = "write"
    /\ caseNotes' = [caseNotes EXCEPT ![CaseOf(request[h].ctx)] = request[h].snapshot]
    /\ evidenceNotes' = evidenceNotes \cup request[h].snapshot
    /\ acked' = acked \cup {request[h].ctx}
    /\ End(h)
    /\ UNCHANGED <<inboxVars, storeVars, faults, crashes>>

\* A note cannot be written: some notes may be, the request fails.
SyncFails(h) ==
    /\ request[h].pc = "write" /\ Fault /\ End(h)
    /\ \E written \in SUBSET request[h].snapshot : evidenceNotes' = evidenceNotes \cup written
    /\ UNCHANGED <<inboxVars, storeVars, caseNotes, acked, crashes>>

\* The Kernel stops: requests are lost and an append under way may leave half a
\* line. On the next start the inbox is loaded; a line that does not parse makes
\* every later capture fail.
Restart ==
    /\ crashes < MaxCrashes /\ crashes' = crashes + 1
    /\ torn' \in IF \E h \in Handlers : request[h].pc = "append"
                    THEN {torn, TRUE} ELSE {torn}
    /\ inbox' = IF torn' THEN "corrupt" ELSE "ready"
    /\ receipts' = inboxFile
    /\ request' = [h \in Handlers |-> NoRequest]
    /\ UNCHANGED <<inboxFile, storeVars, vaultVars, acked, faults>>

Handle(h) == Submit(h) \/ AppendLine(h) \/ Project(h) \/ Summarize(h)
             \/ SyncRead(h) \/ SyncWrite(h) \/ SyncFails(h)
CaptureNext == (\E h \in Handlers : Handle(h)) \/ Restart
CaptureSpec == CaptureInit /\ [][CaptureNext]_captureVars

---------------------------------------------------------------------------
(* What was acknowledged is everywhere: an answered capture is in the inbox
   file, has Evidence, and has a note in the vault, across failed writes,
   retries of failed requests and restarts. *)
CaptureAckIsDurable ==
    \A c \in acked : c \in inboxFile /\ Stored(c) /\ c \in evidenceNotes

(* The retry of a capture that failed half-way, or the same page sent by two
   handlers at once, never yields a second Evidence record. *)
OneEvidencePerReceipt ==
    \A i, j \in DOMAIN evidence : evidence[i].receipt = evidence[j].receipt => i = j

(* Evidence never hangs in the air: its Case exists, and an archived Case has
   received nothing. *)
EvidenceHasOpenCase ==
    \A i \in DOMAIN evidence : cases[evidence[i].case] = "draft"

(* What the capture path owes a browser that was answered: the capture is
   durable, counted once, and hangs under an open Case. *)
CapturesAreKept == CaptureAckIsDurable /\ OneEvidencePerReceipt /\ EvidenceHasOpenCase
=============================================================================
