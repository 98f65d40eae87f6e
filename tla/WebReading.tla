------------------------------ MODULE WebReading ------------------------------
(***************************************************************************)
(* Finding and reading public pages (packages/connectors/src): a search    *)
(* result page is parsed into candidates, and the verifier reads the       *)
(* candidates one after the other with WebPageFetcher: look the host up,   *)
(* refuse private addresses, connect to the address that was checked,      *)
(* follow redirects with the same checks, retry what is transient, all     *)
(* under one timer per attempt.  The search client is exported by the      *)
(* package for whoever looks for candidates; here its results are them.    *)
(*                                                                         *)
(* A URL is a record: its scheme ("web", "other" or "user" for one with    *)
(* credentials), its host kind ("name", "literal", "localhost").  What the *)
(* resolver and the servers answer is the environment's choice, and two    *)
(* lookups of one name may differ.                                         *)
(***************************************************************************)
EXTENDS Integers, FiniteSets, Sequences, SequencesExt

CONSTANTS
    ResultPages,          \* search result pages: sequences of links [url, wrapped, inner, titled]
    Targets,        \* URLs a redirect may name
    Lookups,        \* what a lookup may answer: sets of addresses
    LiteralOf,      \* per literal host: its address
    MaxResults,     \* normalizeLimit
    MaxRedirects,   \* 5 in the code
    Retries         \* 1 in the code

ASSUME WebReadingBounds ==
    /\ MaxRedirects \in Nat /\ Retries \in Nat /\ MaxResults \in Nat \ {0}
    /\ \A page \in ResultPages : Len(page) \in Nat

VARIABLES
    pending,        \* candidates still to be read
    reading,           \* "search", "next", "lookup", "request", "done"
    url,            \* the URL of the present hop
    hops,           \* redirects followed in this attempt
    pinned,         \* the address the lookup was resolved to
    expired,        \* the timer of this attempt has aborted
    readFailures,       \* errors of the attempts of this read, in order
    reached,        \* addresses connected to so far
    readOutcomes        \* per candidate read: its URL, whether it is a document, and what it holds
webVars == <<pending, reading, url, hops, pinned, expired, readFailures, reached, readOutcomes>>

NoUrl == [scheme |-> "web", host |-> "none", kind |-> "name"]
NoAddress == [form |-> "v6", quad |-> <<0, 0, 0>>]

-----------------------------------------------------------------------------
(* Search results.                                                         *)

normalizeResultUrl(anchor) == IF anchor.wrapped THEN anchor.inner ELSE anchor.url
Usable(anchor) == anchor.titled /\ normalizeResultUrl(anchor).scheme = "web"
\* The first anchors of each target, up to the limit.
parseDuckDuckGoHtml(anchors) ==
    LET results[i \in 0..Len(anchors)] ==
            IF i = 0 THEN <<>>
            ELSE IF /\ Len(results[i - 1]) < MaxResults /\ Usable(anchors[i])
                    /\ normalizeResultUrl(anchors[i]) \notin ToSet(results[i - 1])
                 THEN Append(results[i - 1], normalizeResultUrl(anchors[i])) ELSE results[i - 1]
    IN results[Len(anchors)]

-----------------------------------------------------------------------------
(* Addresses.                                                              *)

\* Forms of IPv6 that carry an IPv4 address.
ipv4MappedFromAddress(address) == address.form \in {"mapped", "translated", "nat64", "compatible"}
isPublicAddress(address) ==
    LET a == address.quad[1] b == address.quad[2] c == address.quad[3]
    IN CASE address.form = "local6" -> FALSE
         [] address.form = "v6" -> TRUE
         [] ipv4MappedFromAddress(address) \/ address.form = "v4" ->
             /\ a \notin {0, 10, 127} /\ a < 224
             /\ ~(a = 100 /\ b \in 64..127) /\ ~(a = 169 /\ b = 254)
             /\ ~(a = 172 /\ b \in 16..31) /\ ~(a = 192 /\ b = 168)
             /\ ~(a = 192 /\ b = 0 /\ c = 0) /\ ~(a = 198 /\ b \in {18, 19})
         [] OTHER -> FALSE

\* What the retry rule finds in an error: words of a refusal, words of a passing network fault.
Refusals == {"scheme", "private", "redirects", "location", "exceeds", "coding"}
Mentions(error) ==
    CASE error = "private" -> {"refusal", "network"}
      [] error \in Refusals -> {"refusal"}
      [] error \in {"abort", "reset", "dnsAgain", "http503"} -> {"network"}
      [] OTHER -> {}
isTransientError(error) == "refusal" \notin Mentions(error) /\ "network" \in Mentions(error)

-----------------------------------------------------------------------------

WebInit ==
    /\ reading = "search" /\ pending = <<>> /\ url = NoUrl /\ hops = 0 /\ pinned = NoAddress /\ expired = FALSE
    /\ readFailures = <<>> /\ reached = {} /\ readOutcomes = <<>>

SearchWeb(page) ==
    /\ reading = "search" /\ reading' = "next" /\ pending' = parseDuckDuckGoHtml(page)
    /\ UNCHANGED <<url, hops, pinned, expired, readFailures, reached, readOutcomes>>

\* One attempt: fetchOnce from the candidate's own URL, with a timer of its own.
BeginAttempt(candidate) == reading' = "lookup" /\ url' = candidate /\ hops' = 0 /\ pinned' = NoAddress /\ expired' = FALSE

ReadNext ==
    /\ reading = "next" /\ pending # <<>>
    /\ BeginAttempt(Head(pending)) /\ readFailures' = <<>>
    /\ UNCHANGED <<pending, reached, readOutcomes>>
ReadsDone ==
    /\ reading = "next" /\ pending = <<>> /\ reading' = "done"
    /\ UNCHANGED <<pending, url, hops, pinned, expired, readFailures, reached, readOutcomes>>

\* The read is over: the outcome is recorded and the loop goes on with the next candidate.
Settle(outcome) ==
    /\ readOutcomes' = Append(readOutcomes, outcome) /\ pending' = Tail(pending) /\ reading' = "next"
    /\ UNCHANGED <<url, hops, pinned, expired>>
\* An attempt ended with an error, or with a status worth another attempt.
AttemptFails(error) ==
    /\ readFailures' = Append(readFailures, error)
    /\ IF isTransientError(error) /\ Len(readFailures) < Retries
       THEN BeginAttempt(Head(pending)) /\ UNCHANGED <<pending, readOutcomes>>
       ELSE Settle([ok |-> FALSE, url |-> url, holds |-> error])

\* resolvePublicHttpUrl.
Addresses(answer) == IF url.kind = "literal" THEN {LiteralOf[url.host]} ELSE answer
Admits(answer) == Addresses(answer) # {} /\ \A a \in Addresses(answer) : isPublicAddress(a)
Lookup(answer) ==
    /\ reading = "lookup"
    /\ IF url.scheme # "web" THEN AttemptFails("scheme") /\ UNCHANGED reached
       ELSE IF url.kind = "localhost" \/ ~Admits(answer) THEN AttemptFails("private") /\ UNCHANGED reached
       ELSE /\ \E a \in Addresses(answer) : pinned' = a
            /\ reading' = "request"
            /\ UNCHANGED <<pending, url, hops, expired, readFailures, reached, readOutcomes>>
LookupFails(error) ==
    /\ reading = "lookup" /\ url.scheme = "web" /\ url.kind = "name"
    /\ AttemptFails(error) /\ UNCHANGED reached

\* Connecting and answering: the timer may have fired before or while the server is silent.
Connects == reading = "request" /\ ~expired /\ reached' = reached \cup {pinned}
Redirect(to) ==
    /\ Connects
    /\ IF hops = MaxRedirects THEN AttemptFails("redirects")
       ELSE reading' = "lookup" /\ url' = to /\ hops' = hops + 1 /\ UNCHANGED <<pending, pinned, expired, readFailures, readOutcomes>>
BadAnswer(error) == Connects /\ AttemptFails(error)

\* The verifier keeps a page that answered well, with text, that is not a check page.
Bodies == {"text", "empty", "challenge"}
IsDocument(status, body) == status = 200 /\ body = "text"
AnswerReader(status, body) ==
    /\ Connects
    /\ IF status = 503 /\ Len(readFailures) < Retries THEN AttemptFails("http503")
       ELSE Settle([ok |-> IsDocument(status, body), url |-> url, holds |-> body]) /\ UNCHANGED readFailures
AbortRead == reading = "request" /\ expired /\ AttemptFails("abort") /\ UNCHANGED reached

\* Mutant: the timer is cleared once the host is resolved.
TimerFires_lookupOnly ==
    /\ reading = "lookup" /\ ~expired /\ expired' = TRUE
    /\ UNCHANGED <<pending, reading, url, hops, pinned, readFailures, reached, readOutcomes>>
ReadTimesOut ==
    /\ reading \in {"lookup", "request"} /\ ~expired /\ expired' = TRUE
    /\ UNCHANGED <<pending, reading, url, hops, pinned, readFailures, reached, readOutcomes>>

WebNext ==
    \/ \E page \in ResultPages : SearchWeb(page)
    \/ ReadNext \/ ReadsDone \/ AbortRead \/ ReadTimesOut
    \/ reading = "lookup" /\ \E answer \in Lookups : Lookup(answer)
    \/ \E error \in {"dnsAgain", "dnsUnknown"} : LookupFails(error)
    \/ reading = "request" /\ \E to \in Targets : Redirect(to)
    \/ \E error \in {"location", "reset", "exceeds", "coding", "binary"} : BadAnswer(error)
    \/ \E status \in {200, 404, 503}, body \in Bodies : AnswerReader(status, body)

(* The reader's own steps happen, lookups are answered and timers fire; no *)
(* fairness is asked of the servers.                                       *)
WebFairness ==
    /\ WF_webVars(\E page \in ResultPages : SearchWeb(page)) /\ WF_webVars(ReadNext) /\ WF_webVars(ReadsDone)
    /\ WF_webVars((\E answer \in Lookups : Lookup(answer)) \/ (\E error \in {"dnsAgain", "dnsUnknown"} : LookupFails(error)))
    /\ WF_webVars(ReadTimesOut) /\ WF_webVars(AbortRead)
WebSpec == WebInit /\ [][WebNext]_webVars /\ WebFairness

-----------------------------------------------------------------------------

(* The Kernel connects to public addresses only, at every hop of every     *)
(* attempt, whatever the resolver says from one lookup to the next and     *)
(* wherever a server redirects to.                                         *)
OnlyPublicIsReached == \A a \in reached : isPublicAddress(a)

(* A refusal is final: no attempt follows one, so a name that resolved to  *)
(* a private address is not tried again until it resolves to another.      *)
RefusalIsFinal ==
    /\ \A i \in DOMAIN readFailures : readFailures[i] \in Refusals => i = Len(readFailures) /\ reading \in {"next", "done"}
    /\ Len(readFailures) <= Retries + 1

(* Every search result is one the reader accepts: none is refused for its  *)
(* form when it is read.                                                   *)
ResultsCanBeRead ==
    \A i \in DOMAIN pending : pending[i].scheme = "web"

(* Reading pages is safe: only public addresses are reached, a refusal is  *)
(* not tried again, results are readable.                                  *)
ReadsAreSafe == OnlyPublicIsReached /\ RefusalIsFinal /\ ResultsCanBeRead

(* Reading comes to an end though servers may never answer.                *)
ReadsEnd == reading # "search" ~> reading = "done"

(* Reading pages is safe, and no server holds it up.                       *)
ReadingIsSafe == []ReadsAreSafe /\ ReadsEnd
==============================================================================
