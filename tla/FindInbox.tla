------------------------------ MODULE FindInbox ------------------------------
(***************************************************************************)
(* From fetched pages to the inbox of Finds.  The verifier seals a batch   *)
(* in one transaction: every fetched page becomes Evidence, the SUPPORT    *)
(* rule (packages/kernel/src/evidence/support.ts) decides which pages      *)
(* become Finds, the classifier labels them (opportunity-classifier.mjs).  *)
(* The inbox lists Finds, the owner gives feedback that trains the ranking *)
(* (preference-learner.mjs, opportunity-ranking.mjs), and the scorecard    *)
(* (product-value-scorecard.mjs) measures both.                            *)
(*                                                                         *)
(* A page is its URL and what one fetch of it returned: the words the      *)
(* checks look for.  A Mission keeps its id over its attempts, and the     *)
(* Evidence of one URL keeps its id with it.                               *)
(***************************************************************************)
EXTENDS Integers, FiniteSets, Sequences, FiniteSetsExt, SequencesExt

CONSTANTS
    Tokens,         \* words a page may contain
    PageTexts,      \* what one fetch may return: its words, and the identifiers found in it
    Generic,        \* GENERIC_TERMS: filler that never counts as coverage
    Synonyms,       \* SYNONYM_GROUPS: each member to the first of its group
    Beginnings,     \* per word, where there are any: the shorter words it begins with
    GoalTexts,      \* what a Goal may say: [terms, keywords, ids, scope]
    Urls,           \* pages
    Homepages,      \* the URLs without a path
    Labels,         \* per word: the category it signals, "none" for most
    Owners,         \* Missions, one Goal each
    MaxEvents,      \* MAX_EVENTS of feedback
    MaxPrior,       \* MAX_PRIOR_ATTEMPTS a Mission keeps
    MaxShown,       \* MAX_MISSION_EVIDENCE_RECORDS, at most
    MaxRounds       \* bound: attempts confirmed in all, and feedback given

ASSUME InboxLimits == MaxEvents \in Nat \ {0} /\ MaxPrior \in Nat /\ MaxShown \in Nat
\* What a Goal says and what a batch fetches is finite.
ASSUME TextsAreFinite ==
    /\ IsFiniteSet(Urls)
    /\ \A i \in DOMAIN GoalTexts : IsFiniteSet(GoalTexts[i].terms) /\ IsFiniteSet(GoalTexts[i].keywords)
\* GENERIC_TERMS are plain words: none is in a group of synonyms.
ASSUME FillerIsPlain == Generic \cap DOMAIN Synonyms = {}

VARIABLES
    goal,           \* per Mission: the index of its Goal's present text
    attempts,       \* per Mission: status, its authorization if any, the Evidence read and supported in this attempt, earlier ones
    findEvidence,       \* Evidence id (Mission and URL) to the words stored
    finds,          \* Find id (that of its Evidence) to the record
    feedback,       \* preferenceFeedback
    now             \* a clock that ticks with confirmations and feedback

findVars == <<goal, attempts, findEvidence, finds, feedback, now>>

FeedbackSignals == {"useful", "saved", "dismissed", "not_interested"}
canonical(t) == IF t \in DOMAIN Synonyms THEN Synonyms[t] ELSE t
Bounded(lo, hi, n) == IF n < lo THEN lo ELSE IF n > hi THEN hi ELSE n

-----------------------------------------------------------------------------
(* SUPPORT.                                                                *)

uniqueMeaningfulTerms(words) == {canonical(w) : w \in words}
\* A word covers a term of its group, and so does one that begins with such a word.
startsWith(w) == {w} \cup (IF w \in DOMAIN Beginnings THEN Beginnings[w] ELSE {})
termCovered(term, page) == \E w \in page : \E s \in startsWith(w) : canonical(s) = term
\* matchedTerms: filler is never a hit.
Hits(terms, page) == Cardinality({t \in terms \ Generic : termCovered(t, page)})

\* max(minimum, ceil(ratio * terms)), ratio 0.6 for a homepage and 0.4 otherwise.
RequiredHits(terms, home) ==
    IF home THEN Max({3, (3 * Cardinality(terms) + 4) \div 5})
            ELSE Max({2, (2 * Cardinality(terms) + 4) \div 5})

keywordsCovered(keywords, page) ==
    LET ks == uniqueMeaningfulTerms(keywords) \ Generic
    IN Hits(ks, page) >= Min({2, Cardinality(ks)})

explainEvidenceSupport(text, page, home) ==
    LET terms == uniqueMeaningfulTerms(text.terms \cup text.keywords)
    IN /\ page # {} /\ text.ids \subseteq page
       /\ \/ terms = {} /\ text.ids # {}
          \/ /\ terms # {} /\ Hits(terms, page) >= RequiredHits(terms, home)
             /\ keywordsCovered(text.keywords, page)

-----------------------------------------------------------------------------
(* Labels.                                                                 *)

\* classifyOpportunity: the words of the page signal at most one category here.
classifyOpportunity(page) == LET seen == {Labels[w] : w \in page} \ {"none"} IN IF seen = {} THEN "ordinary" ELSE CHOOSE c \in seen : TRUE
\* A scoped Goal keeps its own category, whatever the classifier says.
classifySupportedGoalFind(page, scope) ==
    LET found == classifyOpportunity(page)
    IN IF found # "ordinary" /\ scope \in {"none", found} THEN found ELSE IF scope # "none" THEN scope ELSE "goal"

-----------------------------------------------------------------------------

InboxInit ==
    /\ goal \in [Owners -> DOMAIN GoalTexts]
    /\ attempts = [m \in Owners |-> [status |-> "open", authorized |-> TRUE, decidedAt |-> 0, revision |-> 1,
                                   read |-> {}, supported |-> {}, prior |-> <<>>]]
    /\ findEvidence = <<>> /\ finds = <<>> /\ feedback = <<>> /\ now = 0

\* What the Find under an id becomes. Mutant: a Find with this Evidence is replaced.
projectClassified_anew(fs, id, label) == [category |-> label, status |-> "new", supported |-> FALSE]
\* A Find with this id or this Evidence is kept as it is.
projectClassified(fs, id, label) ==
    IF id \in DOMAIN fs THEN fs[id] ELSE [category |-> label, status |-> "new", supported |-> FALSE]

stamp(find) == [find EXCEPT !.supported = TRUE]

\* One fetched page: Evidence once, a Find when SUPPORT passed. The pages of a batch have a
\* URL each, so that none of them meets what another adds.
Evidenced(m, pages) ==
    [id \in {<<m, url>> : url \in DOMAIN pages} \cup DOMAIN findEvidence |->
        IF id \in DOMAIN findEvidence THEN findEvidence[id] ELSE pages[id[2]]]
Supporting(m, pages) ==
    {<<m, url>> : url \in {u \in DOMAIN pages : explainEvidenceSupport(GoalTexts[goal[m]], pages[u], u \in Homepages)}}
projectVerifiedDocument(m, id, page) ==
    stamp(projectClassified(finds, id, classifySupportedGoalFind(page, GoalTexts[goal[m]].scope)))

\* #projectVerified seals the batch: what each fetched URL returned.
SealBatch(m, pages) ==
    LET supported == Supporting(m, pages)
    IN  /\ attempts[m].status = "open" /\ attempts[m].authorized
        /\ findEvidence' = Evidenced(m, pages)
        /\ finds' = [id \in supported \cup DOMAIN finds |->
                        IF id \in supported THEN projectVerifiedDocument(m, id, pages[id[2]]) ELSE finds[id]]
        /\ attempts' = [attempts EXCEPT ![m] = [@ EXCEPT !.supported = supported, !.read = {<<m, url>> : url \in DOMAIN pages},
                                                         !.status = IF supported = {} THEN "failed" ELSE "forged"]]
        /\ UNCHANGED <<goal, feedback, now>>

\* An attempt without a batch: the agent found no candidates ("empty": completed, not forged), or gave up.
Unread == {"empty", "failed"}
EndsUnread(m, status) ==
    /\ attempts[m].status = "open" /\ attempts[m].authorized
    /\ attempts' = [attempts EXCEPT ![m].status = status]
    /\ UNCHANGED <<goal, findEvidence, finds, feedback, now>>

\* "Buscar mas" keeps the attempt that just ended, at most MaxPrior of them; a plain restart keeps none.
archived(a) == LET all == Append(a.prior, [read |-> a.read, supported |-> a.supported])
               IN IF Len(all) > MaxPrior THEN Tail(all) ELSE all

\* The Goal as it is when a Mission is confirmed: perhaps with another text, which is a revision.
Revision(m, text) == attempts[m].revision + (IF goal[m] = text THEN 0 ELSE 1)

\* A Mission that has ended, or whose batch is still read, starts over under its id. A person
\* confirms it and authorizes it with that; from anyone else it gets no authorization.
Confirm(m, text, more, person) ==
    /\ attempts[m].authorized /\ now < MaxRounds /\ (more => person)
    /\ now' = now + 1 /\ goal' = [goal EXCEPT ![m] = text]
    /\ attempts' = [attempts EXCEPT ![m] = [status |-> "open", authorized |-> person, decidedAt |-> now', read |-> {}, supported |-> {},
                                            prior |-> IF more THEN archived(@) ELSE <<>>,
                                            revision |-> Revision(m, text)]]
    /\ UNCHANGED <<findEvidence, finds, feedback>>

\* A person confirms a Mission that waits without an authorization: no gate let it run.
ConfirmWaiting(m, text) ==
    /\ attempts[m].status = "open" /\ ~attempts[m].authorized /\ now < MaxRounds
    /\ now' = now + 1 /\ goal' = [goal EXCEPT ![m] = text]
    /\ attempts' = [attempts EXCEPT ![m] = [@ EXCEPT !.authorized = TRUE, !.decidedAt = now', !.revision = Revision(m, text)]]
    /\ UNCHANGED <<findEvidence, finds, feedback>>

-----------------------------------------------------------------------------
(* The inbox and the owner's feedback.                                     *)

hasKernelSupport(id) == finds[id].supported \/ \E m \in Owners : id \in attempts[m].supported
Listed == {id \in DOMAIN finds : finds[id].status # "dismissed" /\ hasKernelSupport(id)}

\* PreferenceLearner.record refuses a Find without the stamp; the same signal is kept once.
Record(id, signal) ==
    /\ id \in DOMAIN finds /\ finds[id].supported /\ now < MaxRounds
    /\ now' = now + 1
    /\ finds' = IF signal = "dismissed" THEN [finds EXCEPT ![id].status = "dismissed"] ELSE finds
    /\ feedback' = IF \E i \in DOMAIN feedback : feedback[i].find = id /\ feedback[i].signal = signal THEN feedback
                   ELSE LET kept == IF Len(feedback) < MaxEvents THEN feedback ELSE Tail(feedback)
                        IN Append(kept, [find |-> id, signal |-> signal, category |-> finds[id].category, at |-> now'])
    /\ UNCHANGED <<goal, attempts, findEvidence>>
ResetFeedback == feedback # <<>> /\ feedback' = <<>> /\ UNCHANGED <<goal, attempts, findEvidence, finds, now>>

Deltas == [s \in FeedbackSignals |-> CASE s = "useful" -> 6 [] s = "saved" -> 10 [] s = "dismissed" -> -5 [] OTHER -> -10]
\* One column of buildPreferenceProfile, bounded at every step.
Learned(events, category) ==
    LET sum[n \in 0..Len(events)] ==
            IF n = 0 THEN 0
            ELSE IF events[n].category = category THEN Bounded(-20, 20, sum[n - 1] + Deltas[events[n].signal])
            ELSE sum[n - 1]
    IN  sum[Len(events)]
preferenceAdjustment(events, id) == Bounded(-25, 25, Learned(events, finds[id].category))

-----------------------------------------------------------------------------
(* The scorecard.                                                          *)

isKernelSupportedOpportunity(id) == finds[id].supported \/ id \in attempts[id[1]].supported
\* executionIdentity: none without an authorization, and then nothing of the Mission is linked.
executionIdentity(m) == <<m, attempts[m].revision>>
Executed == {m \in Owners : attempts[m].authorized}
goalLinkedFinds == {id \in DOMAIN finds : id[1] \in Executed /\ isKernelSupportedOpportunity(id)}
isKernelForgedMission(m) ==
    attempts[m].status = "forged" /\ (attempts[m].supported # {} \/ \E id \in goalLinkedFinds : id[1] = m)
\* Feedback counts from the Mission's present authorization on.
Counted(signals) == {i \in DOMAIN feedback : feedback[i].signal \in signals /\ feedback[i].find \in goalLinkedFinds
                                             /\ feedback[i].at >= attempts[feedback[i].find[1]].decidedAt}
\* goalUsefulFindRate: the executed Goals, and those of them with a Find called useful or saved.
ExecutedGoals == {executionIdentity(m) : m \in Executed}
UsefulGoals == {executionIdentity(feedback[i].find[1]) : i \in Counted({"useful", "saved"})}

-----------------------------------------------------------------------------
(* The Evidence of a Mission, as the dashboard lists it.                   *)

anchorTerms(text) == text.terms \cup text.keywords
\* A verbatim quote of the stored text: around a word of the Goal if there is one, else its start, none without text.
excerptFrom(page, terms) == CASE page = {} -> "none" [] page \cap terms # {} -> "goal_term" [] OTHER -> "start"
projectEvidence(m, id, attempt, isPrior) ==
    [id |-> id, supported |-> id \in attempt.supported, priorAttempt |-> isPrior,
     excerpt |-> excerptFrom(findEvidence[id], anchorTerms(GoalTexts[goal[m]]))]

\* The rows of the present attempt, then those of the earlier ones, newest first.
rowsOf(m, attempt, isPrior) ==
    LET ids == SetToSeq(attempt.read) IN [i \in 1..Cardinality(attempt.read) |-> projectEvidence(m, ids[i], attempt, isPrior)]
resultRows(m) ==
    LET prior == attempts[m].prior
        earlier[k \in 0..Len(prior)] == IF k = 0 THEN <<>> ELSE rowsOf(m, prior[k], TRUE) \o earlier[k - 1]
    IN  rowsOf(m, attempts[m], FALSE) \o earlier[Len(prior)]
\* MissionEvidenceReader.list: one record per Evidence, the first row wins, up to the limit.
missionEvidence(m, limit) ==
    LET rows == resultRows(m)
        first == {i \in DOMAIN rows : \A j \in 1..i - 1 : rows[j].id # rows[i].id}
    IN  {rows[i] : i \in {k \in first : Cardinality(first \cap 1..k) <= limit}}
Shown(m, limit) == {e.id : e \in missionEvidence(m, limit)}

InboxNext ==
    \/ \E m \in Owners :
        \/ \E fetched \in SUBSET Urls : \E pages \in [fetched -> PageTexts] : SealBatch(m, pages)
        \/ \E status \in Unread : EndsUnread(m, status)
        \/ \E text \in DOMAIN GoalTexts :
            (\E more, person \in BOOLEAN : Confirm(m, text, more, person)) \/ ConfirmWaiting(m, text)
    \/ \E id \in DOMAIN finds, signal \in FeedbackSignals : Record(id, signal)
    \/ ResetFeedback
InboxSpec == InboxInit /\ [][InboxNext]_findVars

-----------------------------------------------------------------------------

Padded(text, filler) == [text EXCEPT !.terms = @ \cup {filler}]

(* More text never costs a page its support, and no page is supported at a *)
(* site's front page that would not be supported elsewhere; filler in a    *)
(* Goal, such as guide or explained, never brings a page support it would  *)
(* not have without.                                                       *)
SupportIsMonotone ==
    \A i \in DOMAIN GoalTexts : LET text == GoalTexts[i] IN
        /\ \A page \in SUBSET Tokens : explainEvidenceSupport(text, page, TRUE) => explainEvidenceSupport(text, page, FALSE)
        /\ \A page \in SUBSET Tokens, more \in Tokens :
            explainEvidenceSupport(text, page, FALSE) => explainEvidenceSupport(text, page \cup {more}, FALSE)
        /\ \A page \in SUBSET Tokens, filler \in Generic, home \in BOOLEAN :
            explainEvidenceSupport(Padded(text, filler), page, home) => explainEvidenceSupport(text, page, home)

(* Feedback is taken for everything the inbox shows.                       *)
ListedTakesFeedback == \A id \in Listed : finds[id].supported

(* A dismissed Find stays away: no later attempt, no repeated verification *)
(* of the same page and no reset of the preferences brings it back, and    *)
(* nothing but a dismissal takes a Find out of the inbox.                  *)
InboxChangesByDismissalOnly ==
    [][\A id \in DOMAIN finds :
        /\ finds[id].status = "dismissed" => id \notin Listed'
        /\ id \in Listed => id \in Listed' \/ finds'[id].status = "dismissed"]_findVars

(* Feedback moves a Find the way it says: up to the limit of stored events *)
(* a positive signal never lowers the Find's learned adjustment, and a     *)
(* negative one never raises it.                                           *)
FeedbackMovesTheRightWay ==
    [][\A id \in DOMAIN finds : Len(feedback') = Len(feedback) + 1 /\ feedback'[Len(feedback')].find = id =>
        IF feedback'[Len(feedback')].signal \in {"useful", "saved"}
        THEN preferenceAdjustment(feedback', id) >= preferenceAdjustment(feedback, id)
        ELSE preferenceAdjustment(feedback', id) <= preferenceAdjustment(feedback, id)]_findVars

(* The scorecard measures what the inbox shows, though each has a filter   *)
(* of its own: a listed Find counts whenever its Mission has an            *)
(* authorization, also after a later attempt found nothing or a restart    *)
(* nobody confirmed took the Finds out of it for a while; every forged     *)
(* Mission counts as forged; and feedback on a Find counts for its Goal in *)
(* the round it is given.                                                  *)
ScorecardMeasuresTheInbox ==
    /\ \A id \in Listed : id[1] \in Executed => id \in goalLinkedFinds
    /\ \A m \in Owners : attempts[m].status = "forged" => isKernelForgedMission(m)
    /\ UsefulGoals \subseteq ExecutedGoals
    /\ \A i \in DOMAIN feedback : feedback[i].at = now /\ feedback[i].find[1] \in Executed => i \in Counted(FeedbackSignals)

(* A Mission's list of Evidence tells the attempts apart: a page the       *)
(* present attempt read has that attempt's decision and no mark, whatever  *)
(* an earlier one decided, and below the limit it is never crowded out by  *)
(* them; a supported, unmarked record is a Find the inbox has; and a       *)
(* search for more loses nothing of the attempt it follows, as long as the *)
(* list has room.                                                          *)
AttemptsAreToldApart ==
    \A m \in Owners, limit \in 1 .. MaxShown :
        /\ Cardinality(attempts[m].read) <= limit => attempts[m].read \subseteq Shown(m, limit)
        /\ \A e \in missionEvidence(m, limit) :
            IF e.id \in attempts[m].read
            THEN /\ ~e.priorAttempt
                 /\ e.supported <=> e.id \in attempts[m].supported
                 /\ e.supported => e.id \in DOMAIN finds /\ finds[e.id].supported
            ELSE e.priorAttempt
SearchForMoreLosesNothing ==
    [][\A m \in Owners, limit \in 1 .. MaxShown :
            /\ attempts'[m].prior # <<>> /\ attempts'[m].decidedAt > attempts[m].decidedAt
            /\ Cardinality(attempts[m].read) <= limit
            => attempts[m].read \subseteq Shown(m, limit)']_findVars
EvidenceListFollowsAttempts == []AttemptsAreToldApart /\ SearchForMoreLosesNothing

(* The inbox as a whole: SUPPORT is monotone, what is listed takes feedback *)
(* and is measured, Finds leave by dismissal only, a Mission's Evidence is  *)
(* told by attempt, and feedback moves Finds the way it says.               *)
InboxIsHonest ==
    /\ [](SupportIsMonotone /\ ListedTakesFeedback /\ ScorecardMeasuresTheInbox)
    /\ InboxChangesByDismissalOnly
    /\ EvidenceListFollowsAttempts
    /\ FeedbackMovesTheRightWay
==============================================================================
