----------------------------- MODULE MCServices -----------------------------
(* The Kernel's services and the programs around it: captures, chat, pairing,
   the inbox of Finds, the HTTP surface, the file several programs share, the
   launcher, the development orchestrator, and the two advisory parts of the
   memory. They share no state here: `focus` picks, in the initial state, which
   one runs, so that one run of TLC explores each without their product. *)
EXTENDS Captures, Chat, KernelPairing, FindInbox, KernelApi, SharedStore,
        Launcher, DevTasks, MemoryReview, MemorySafety

CONSTANTS
    Parts    \* the ones a run explores

VARIABLE focus
mcVars == <<captureVars, chatVars, pairingVars, findVars, apiVars, fileVars,
            launcherVars, devVars, reviewVars, safetyVars, focus>>

MCTarget == [x \in Contexts |-> IF x = "a" THEN "own" ELSE "k"]

MCSynonyms == [btc |-> "bitcoin"]
MCBeginnings == [rusty |-> {"rust"}, simple |-> {"sim"}]
MCGoalTexts ==
    << [terms |-> {"rust", "btc", "guide", "sim"}, keywords |-> {}, ids |-> {}, scope |-> "job"],
       [terms |-> {"rust", "job"}, keywords |-> {"bitcoin"}, ids |-> {}, scope |-> "none"] >>
MCLabels ==
    [t \in {"rust", "rusty", "bitcoin", "btc", "job", "guide", "simple"} |->
        IF t = "job" THEN "job" ELSE IF t = "guide" THEN "grant" ELSE "none"]
MCPageTexts == {{"guide", "rust"}, {"rusty", "simple"}, {"rust", "btc", "job"}}

\* The queries are checked over short lists of failures ("safety"), the evaluations over longer
\* ones, whose failures leave the window, without a query ("advice").
ShortList == Len(failures) <= 2 /\ safetyNow <= 1 /\ \A i \in DOMAIN failures : failures[i].referenceIds = References
\* The requests are checked with an extension that is paired before the Goal is stored, and with
\* contacts that grow old before it is revised.
SettledFirst == (identities # {} \/ goalRevision = 0) /\ (contact # "old" \/ goalRevision <= 1)
\* Recommendations ("review") and recovery reviews ("recovery") are two files, explored apart.
MCRules == {[version |-> 1, threshold |-> 2, window |-> w] : w \in {1, 2}}
MCEntries == {[kind |-> "quarantine", memory |-> 1, sound |-> TRUE],
              [kind |-> "recovery", memory |-> 2, sound |-> FALSE]}

MCInit ==
    /\ CaptureInit /\ ChatInit /\ PairingInit /\ InboxInit /\ ApiInit /\ StoreInit
    /\ LauncherInit /\ DevInit /\ ReviewInit /\ SafetyInit
    /\ focus \in Parts
    /\ focus = "captures" \/ cases[KnownCase] = "none"
    /\ focus = "inbox" \/ \A o \in Owners : goal[o] = 1
    /\ ~pairingOptional /\ (focus = "launcher" \/ (hermesWorks /\ paired))
    /\ focus \in {"review", "recovery"} \/ policy = 1
    /\ focus \in {"safety", "advice"} \/ rule.window = 1
MCNext ==
    /\ UNCHANGED focus
    /\ focus # "captures" => UNCHANGED captureVars
    /\ focus # "chat" => UNCHANGED chatVars
    /\ focus # "pairing" => UNCHANGED pairingVars
    /\ focus # "inbox" => UNCHANGED findVars
    /\ focus # "api" => UNCHANGED apiVars
    /\ focus # "file" => UNCHANGED fileVars
    /\ focus # "launcher" => UNCHANGED launcherVars
    /\ focus # "dev" => UNCHANGED devVars
    /\ focus \notin {"review", "recovery"} => UNCHANGED reviewVars
    /\ focus \notin {"safety", "advice"} => UNCHANGED safetyVars
    /\ \/ focus = "captures" /\ CaptureNext
       \/ focus = "chat" /\ ChatNext
       \/ focus = "pairing" /\ PairingNext
       \/ focus = "inbox" /\ InboxNext
       \/ focus = "api" /\ ApiNext /\ SettledFirst'
       \/ focus = "file" /\ StoreNext
       \/ focus = "launcher" /\ LauncherNext
       \/ focus = "dev" /\ DevNext
       \/ focus = "review" /\ (Evaluation \/ World) /\ UNCHANGED reviews
       \/ focus = "recovery" /\ (Recovery \/ World) /\ UNCHANGED <<references, evaluating, recommendations>>
       \/ focus = "safety" /\ SafetyNext /\ ShortList'
       \/ focus = "advice" /\ SafetyNext /\ UNCHANGED <<storedAdvice, reading>>

(* The actors of a kind are interchangeable, and named alike here. *)
Symmetry == Permutations(Connections)

MCSpec == MCInit /\ [][MCNext]_mcVars
=============================================================================
