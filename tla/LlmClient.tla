------------------------------ MODULE LlmClient ------------------------------
(***************************************************************************)
(* One call of llmComplete (lib/llm/index.ts): the choice of the provider, *)
(* the classification of what went wrong, and the loop of retries.         *)
(*                                                                         *)
(* The message of an error is the set of marks classifyError and the       *)
(* back-off look for in it, and the seconds of its "retry in" hint.        *)
(***************************************************************************)
EXTENDS Naturals, FiniteSets

CONSTANTS
    Messages,          \* the errors a request may end with, see Message
    MaxSchemaRetries   \* opts.retries, 3 by default

MaxTransientRetries == 3
MaxTransientWait == 60000

\* "day" is any of the marks of a daily quota, "429" of a rate limit, "503" of
\* an outage or a network failure, "json" of an answer of the wrong form.
Message == [marks : SUBSET {"day", "429", "503", "json"}, hint : Nat]

LlmAssumption == Messages \subseteq Message /\ MaxSchemaRetries \in Nat

VARIABLES
    llmAt,              \* "call", "asking", "waiting", "returned" or "thrown"
    schemaAttempt, transientRetries,
    lastError,          \* the message of the last error; a retry note quotes it
    wait,               \* the time of the pending timer
    requests, waited    \* history: requests sent, time spent waiting

llmVars == <<llmAt, schemaAttempt, transientRetries, lastError, wait, requests, waited>>

-----------------------------------------------------------------------------
(* Definitions *)

\* getProvider: LLM_PROVIDER, trimmed and in lower case.
Aliases == [gemini |-> {"", "gemini", "google"},
            githubModels |-> {"github-models", "github", "gh-models", "githubmodels"}]

Providers(name) == {p \in DOMAIN Aliases : name \in Aliases[p]}  \* {}: it throws

\* classifyError.  A daily quota that names a time to retry is a short one.
BugClassifyError(m) ==
    IF "429" \in m.marks \/ "503" \in m.marks THEN "transient"
    ELSE IF "day" \in m.marks THEN "daily-quota"
    ELSE IF "json" \in m.marks THEN "schema" ELSE "fatal"
ClassifyError(m) ==
    IF "day" \in m.marks /\ m.hint = 0 THEN "daily-quota"
    ELSE IF {"429", "503"} \cap m.marks # {} THEN "transient"
    ELSE IF "json" \in m.marks THEN "schema" ELSE "fatal"

AtMost(x, y) == IF x < y THEN x ELSE y

\* The hint and one second more, or 5 s doubled with every retry; 60 s at most.
BugBackoff(m, n) == IF m.hint > 0 THEN m.hint * 1000 + 1000 ELSE 5000 * 2^n
Backoff(m, n) ==
    AtMost(IF m.hint > 0 THEN m.hint * 1000 + 1000 ELSE 5000 * 2^n, MaxTransientWait)

Unknown == [marks |-> {}, hint |-> 0]

LlmInit ==
    /\ llmAt = "call" /\ schemaAttempt = 0 /\ transientRetries = 0
    /\ lastError = Unknown /\ wait = 0 /\ requests = 0 /\ waited = 0

-----------------------------------------------------------------------------
(* Steps *)

\* The head of the loop: it asks again, or the answers were never valid.
Ask ==
    /\ llmAt = "call" /\ schemaAttempt < MaxSchemaRetries
    /\ llmAt' = "asking" /\ requests' = requests + 1
    /\ UNCHANGED <<schemaAttempt, transientRetries, lastError, wait, waited>>

GiveUpOnSchema ==
    /\ llmAt = "call" /\ schemaAttempt >= MaxSchemaRetries
    /\ llmAt' = "thrown"
    /\ UNCHANGED <<schemaAttempt, transientRetries, lastError, wait, requests, waited>>

Answered ==
    /\ llmAt = "asking" /\ llmAt' = "returned"
    /\ UNCHANGED <<schemaAttempt, transientRetries, lastError, wait, requests, waited>>

\* A daily quota and a fatal error end the call at once, and so does a
\* transient error after the last transient retry.  The transient retries of a
\* call are counted over all of its schema attempts.
BugRetries(n) == 0
Retries(n) == n + 1

Failed ==
    /\ llmAt = "asking"
    /\ \E m \in Messages :
         LET class == ClassifyError(m)
             again == class = "transient" /\ transientRetries < MaxTransientRetries IN
         /\ lastError' = m
         /\ llmAt' = CASE again -> "waiting" [] class = "schema" -> "call" [] OTHER -> "thrown"
         /\ schemaAttempt' = schemaAttempt + (IF class = "schema" THEN 1 ELSE 0)
         /\ transientRetries' = IF again THEN Retries(transientRetries) ELSE transientRetries
         /\ wait' = IF again THEN Backoff(m, transientRetries) ELSE 0
    /\ UNCHANGED <<requests, waited>>

Waited ==
    /\ llmAt = "waiting"
    /\ llmAt' = "call" /\ wait' = 0 /\ waited' = waited + wait
    /\ UNCHANGED <<schemaAttempt, transientRetries, lastError, requests>>

LlmNext == Ask \/ GiveUpOnSchema \/ Answered \/ Failed \/ Waited

-----------------------------------------------------------------------------
(* Properties *)

\* Whatever mixture of errors the provider answers with, a call of llmComplete
\* sends at most one request per schema attempt and three more, waits three
\* minutes at most, and asks nothing more of a provider whose daily quota is
\* used up or that refused the request itself.
CallBudgetHolds ==
    /\ requests <= MaxSchemaRetries + MaxTransientRetries
    /\ waited + wait <= MaxTransientRetries * MaxTransientWait
    /\ "day" \in lastError.marks /\ lastError.hint = 0 => llmAt = "thrown"
=============================================================================
