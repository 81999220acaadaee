---------------------------- MODULE LearningLoop ----------------------------
(***************************************************************************)
(* The rejection-learning loop of lib/agent/learning: the poller of pull   *)
(* request states (pr-state-poller.ts), which the monitor worker starts    *)
(* from cron and the route poll-prs on demand, and the recorder of         *)
(* rejections (rejection-recorder.ts), which the poller and the route      *)
(* rejections call.  Recall models who reads the records.                  *)
(*                                                                         *)
(* Polls and requests overlap.  Every action is the code between two       *)
(* awaits; the database and GitHub change in between.                      *)
(***************************************************************************)
EXTENDS Naturals, Sequences, FiniteSets

CONSTANTS
  PRs,         \* pull requests
  Rows,        \* Issue rows with a prUrl
  RowPR,       \* the pull request of a row
  RowScan,     \* the scan of a row
  RowDep,      \* what readDepName makes of a row's diagnosis, None if unreadable
  RowToken,    \* does the encryptedPat of the row's scan decrypt?
  Crons,       \* calls of pollPrStates by cron, of all rows
  Routes,      \* calls of the route, of all rows or of those of a scan
  Clients,     \* callers of POST /api/rejections
  Kinds,       \* the values of changeType
  MaxReopens,  \* bound: how often a closed pull request is opened again
  Faults,      \* what may go wrong
  None         \* no value

AllFaults ==
  { "github",    \* a request to GitHub fails
    "database",  \* a write is rejected
    "crash" }    \* the process of a poll dies

Deps == {RowDep[r] : r \in Rows} \ {None}
Scans == {RowScan[r] : r \in Rows}

ASSUME RowsAssumption ==
  /\ IsFiniteSet(Rows)
  /\ RowPR \in [Rows -> PRs]
  /\ DOMAIN RowDep = Rows /\ DOMAIN RowScan = Rows
  /\ RowToken \in [Rows -> BOOLEAN]
ASSUME NoneAssumption == None \notin PRs \union Kinds \union {"pr-merged", "pr-rejected"}
ASSUME ActorsAssumption ==
  /\ Crons \intersect (Routes \union Clients) = {}
  /\ Routes \intersect Clients = {}
ASSUME BoundsAssumption == MaxReopens \in Nat
ASSUME FaultsAssumption == Faults \subseteq AllFaults

VARIABLES
  github,    \* the state of every pull request on GitHub
  reopens,   \* how often each was opened again
  wasClosed, \* history: the pull requests that were closed unmerged at some time
  status,    \* Issue.status of the rows
  patterns,  \* RejectionPattern, in the order of createdAt
  pc,        \* where every poller and client is suspended
  todo,      \* the rows a poll has selected and not yet treated
  bucket,    \* the rows of the pull request it is treating
  outcome,   \* the status it is going to write
  input,     \* what a recorder was called with
  existing,  \* the row its search has found
  overlap    \* history: pull requests that two recorders recorded at once

pollVars == <<todo, bucket, outcome>>
recordVars == <<input, existing, overlap, patterns>>
githubVars == <<github, reopens, wasClosed>>
vars == <<githubVars, status, pc, pollVars, recordVars>>

Pollers == Crons \union Routes
Recorders == Pollers \union Clients
Resolved == {"pr-merged", "pr-rejected"}
Input == [pr : PRs, dep : Deps, change : Kinds \union {None}]
NoInput == [pr |-> None, dep |-> None, change |-> None]

TypeOK ==
  /\ github \in [PRs -> {"open", "merged", "closed"}]
  /\ reopens \in [PRs -> 0 .. MaxReopens]
  /\ wasClosed \subseteq PRs
  /\ status \in [Rows -> {"absent", "pr-opened"} \union Resolved]
  /\ patterns \in Seq(Input)
  /\ pc \in [Recorders -> {"idle", "next", "fetch", "find", "write", "resolve"}]
  /\ todo \in [Pollers -> SUBSET Rows]
  /\ bucket \in [Pollers -> SUBSET Rows]
  /\ outcome \in [Pollers -> Resolved \union {None}]
  /\ input \in [Recorders -> Input \union {NoInput}]
  /\ existing \in [Recorders -> Nat]
  /\ \A a \in Recorders : existing[a] <= Len(patterns)
  /\ overlap \subseteq PRs

Init ==
  /\ github = [g \in PRs |-> "open"]
  /\ reopens = [g \in PRs |-> 0]
  /\ wasClosed = {}
  /\ status = [r \in Rows |-> "absent"]
  /\ patterns = <<>>
  /\ pc = [a \in Recorders |-> "idle"]
  /\ todo = [p \in Pollers |-> {}]
  /\ bucket = [p \in Pollers |-> {}]
  /\ outcome = [p \in Pollers |-> None]
  /\ input = [a \in Recorders |-> NoInput]
  /\ existing = [a \in Recorders |-> 0]
  /\ overlap = {}

(***************************************************************************)
(* Maintainers, and the scans that link rows to pull requests.             *)
(***************************************************************************)

\* Merge, close and reopen of a pull request on GitHub.
MergePR(g) ==
  /\ github[g] = "open"
  /\ github' = [github EXCEPT ![g] = "merged"]
  /\ UNCHANGED <<reopens, wasClosed, status, pc, pollVars, recordVars>>

ClosePR(g) ==
  /\ github[g] = "open"
  /\ github' = [github EXCEPT ![g] = "closed"]
  /\ wasClosed' = wasClosed \union {g}
  /\ UNCHANGED <<reopens, status, pc, pollVars, recordVars>>

ReopenPR(g) ==
  /\ github[g] = "closed" /\ reopens[g] < MaxReopens
  /\ github' = [github EXCEPT ![g] = "open"]
  /\ reopens' = [reopens EXCEPT ![g] = @ + 1]
  /\ UNCHANGED <<wasClosed, status, pc, pollVars, recordVars>>

\* PERSIST of a scan: the row of a pull request it has opened or found open.
LinkRow(r) ==
  /\ status[r] = "absent"
  /\ status' = [status EXCEPT ![r] = "pr-opened"]
  /\ UNCHANGED <<githubVars, pc, pollVars, recordVars>>

(***************************************************************************)
(* pollPrStates                                                            *)
(***************************************************************************)

Selected == {r \in Rows : status[r] = "pr-opened"}

RowsOf(s) == {r \in Rows : RowScan[r] = s}
Scopes(p) == {Rows} \union (IF p \in Routes THEN {RowsOf(s) : s \in Scans} ELSE {})

\* The query for unresolved rows, of all scans or of one.
StartPoll(p) ==
  /\ pc[p] = "idle"
  /\ \E scope \in Scopes(p) :
       todo' = [todo EXCEPT ![p] = Selected \intersect scope]
  /\ pc' = [pc EXCEPT ![p] = "next"]
  /\ UNCHANGED <<githubVars, status, bucket, outcome, recordVars>>

\* Wants the token of every row.
BugNextUrl(p, g) ==
  /\ pc[p] = "next"
  /\ LET rows == {r \in todo[p] : RowPR[r] = g} IN
     /\ rows # {}
     /\ todo' = [todo EXCEPT ![p] = @ \ rows]
     /\ IF \A r \in rows : RowToken[r]
        THEN /\ bucket' = [bucket EXCEPT ![p] = rows]
             /\ pc' = [pc EXCEPT ![p] = "fetch"]
        ELSE UNCHANGED <<bucket, pc>>
  /\ UNCHANGED <<githubVars, status, outcome, recordVars>>

\* The rows of one pull request are treated together; any of their tokens
\* serves.  Without one the pull request is skipped.
NextUrl(p, g) ==
  /\ pc[p] = "next"
  /\ LET rows == {r \in todo[p] : RowPR[r] = g} IN
     /\ rows # {}
     /\ todo' = [todo EXCEPT ![p] = @ \ rows]
     /\ IF \E r \in rows : RowToken[r]
        THEN /\ bucket' = [bucket EXCEPT ![p] = rows]
             /\ pc' = [pc EXCEPT ![p] = "fetch"]
        ELSE UNCHANGED <<bucket, pc>>
  /\ UNCHANGED <<githubVars, status, outcome, recordVars>>

UrlOf(p) == RowPR[CHOOSE r \in bucket[p] : TRUE]

\* Takes whatever is not open for a rejection.
BugClassify(state) == IF state = "open" THEN None ELSE "pr-rejected"

\* classifyPrState
Classify(state) ==
  CASE state = "open" -> None
    [] state = "merged" -> "pr-merged"
    [] state = "closed" -> "pr-rejected"

\* The answer of GitHub.  A rejection is recorded before the rows are
\* resolved, for the dependency of the first row, if that can be read; the
\* query has no order, so any row may come first.
Fetch(p) ==
  /\ pc[p] = "fetch"
  /\ LET state == Classify(github[UrlOf(p)]) IN
     /\ outcome' = [outcome EXCEPT ![p] = state]
     /\ \E first \in bucket[p] :
          IF state = "pr-rejected" /\ RowDep[first] # None
          THEN /\ input' = [input EXCEPT ![p] =
                      [pr |-> UrlOf(p), dep |-> RowDep[first], change |-> None]]
               /\ pc' = [pc EXCEPT ![p] = "find"]
          ELSE /\ pc' = [pc EXCEPT ![p] = IF state = None THEN "next" ELSE "resolve"]
               /\ UNCHANGED input
     /\ bucket' = IF state = None THEN [bucket EXCEPT ![p] = {}] ELSE bucket
  /\ UNCHANGED <<githubVars, status, todo, existing, overlap, patterns>>

\* The iteration for a pull request is over, by its end or by the catch block.
Leave(p) ==
  /\ pc' = [pc EXCEPT ![p] = "next"]
  /\ bucket' = [bucket EXCEPT ![p] = {}]
  /\ outcome' = [outcome EXCEPT ![p] = None]
  /\ input' = [input EXCEPT ![p] = NoInput]
  /\ existing' = [existing EXCEPT ![p] = 0]

FetchFails(p) ==
  /\ "github" \in Faults
  /\ pc[p] = "fetch"
  /\ Leave(p)
  /\ UNCHANGED <<githubVars, status, todo, overlap, patterns>>

\* updateMany on the rows the poll had selected, whatever they say by now.
Resolve(p) ==
  /\ pc[p] = "resolve"
  /\ status' = [r \in Rows |-> IF r \in bucket[p] THEN outcome[p] ELSE status[r]]
  /\ Leave(p)
  /\ UNCHANGED <<githubVars, todo, overlap, patterns>>

ResolveRejected(p) ==
  /\ "database" \in Faults
  /\ pc[p] = "resolve"
  /\ Leave(p)
  /\ UNCHANGED <<githubVars, status, todo, overlap, patterns>>

FinishPoll(p) ==
  /\ pc[p] = "next" /\ todo[p] = {}
  /\ pc' = [pc EXCEPT ![p] = "idle"]
  /\ UNCHANGED <<githubVars, status, pollVars, recordVars>>

\* The process dies; what was not written is forgotten.
Crash(p) ==
  /\ "crash" \in Faults
  /\ pc[p] # "idle"
  /\ pc' = [pc EXCEPT ![p] = "idle"]
  /\ todo' = [todo EXCEPT ![p] = {}]
  /\ bucket' = [bucket EXCEPT ![p] = {}]
  /\ outcome' = [outcome EXCEPT ![p] = None]
  /\ input' = [input EXCEPT ![p] = NoInput]
  /\ existing' = [existing EXCEPT ![p] = 0]
  /\ UNCHANGED <<githubVars, status, overlap, patterns>>

(***************************************************************************)
(* recordRejection                                                         *)
(***************************************************************************)

\* "Mark as rejected" on the card of an issue, or another client of the route.
\* The page sends no changeType.
StartClick(c) ==
  /\ pc[c] = "idle"
  /\ \E r \in Rows, change \in Kinds \union {None} :
       /\ status[r] # "absent" /\ RowDep[r] # None
       /\ input' = [input EXCEPT ![c] =
                     [pr |-> RowPR[r], dep |-> RowDep[r], change |-> change]]
  /\ pc' = [pc EXCEPT ![c] = "find"]
  /\ UNCHANGED <<githubVars, status, pollVars, existing, overlap, patterns>>

Recorded(g) == {i \in DOMAIN patterns : patterns[i].pr = g}

\* Recorders between the search and the write for a pull request.
Writing(g) == {b \in Recorders : pc[b] = "write" /\ input[b].pr = g}

\* Creates without a search.
BugFindExisting(a) ==
  /\ pc[a] = "find"
  /\ pc' = [pc EXCEPT ![a] = "write"]
  /\ UNCHANGED <<githubVars, status, pollVars, input, existing, overlap, patterns>>

\* findFirst on the prUrl.
FindExisting(a) ==
  /\ pc[a] = "find"
  /\ LET g == input[a].pr IN
     /\ \E i \in IF Recorded(g) = {} THEN {0} ELSE Recorded(g) :
          existing' = [existing EXCEPT ![a] = i]
     /\ overlap' = IF Writing(g) = {} THEN overlap ELSE overlap \union {g}
  /\ pc' = [pc EXCEPT ![a] = "write"]
  /\ UNCHANGED <<githubVars, status, pollVars, input, patterns>>

\* Update of the record found, or a new one.
WriteRecord(a) ==
  /\ pc[a] = "write"
  /\ patterns' = IF existing[a] = 0 THEN Append(patterns, input[a])
                 ELSE [patterns EXCEPT ![existing[a]] = input[a]]
  /\ existing' = [existing EXCEPT ![a] = 0]
  /\ input' = [input EXCEPT ![a] = NoInput]
  /\ pc' = [pc EXCEPT ![a] = IF a \in Pollers THEN "resolve" ELSE "idle"]
  /\ UNCHANGED <<githubVars, status, pollVars, overlap>>

\* Swallows the error of the recorder and resolves the rows.
BugWriteRejected(a) ==
  /\ "database" \in Faults
  /\ pc[a] = "write"
  /\ pc' = [pc EXCEPT ![a] = IF a \in Pollers THEN "resolve" ELSE "idle"]
  /\ input' = [input EXCEPT ![a] = NoInput]
  /\ existing' = [existing EXCEPT ![a] = 0]
  /\ UNCHANGED <<githubVars, status, pollVars, overlap, patterns>>

WriteRejected(a) ==
  /\ "database" \in Faults
  /\ pc[a] = "write"
  /\ \/ a \in Pollers /\ Leave(a)
     \/ /\ a \in Clients
        /\ pc' = [pc EXCEPT ![a] = "idle"]
        /\ input' = [input EXCEPT ![a] = NoInput]
        /\ existing' = [existing EXCEPT ![a] = 0]
        /\ UNCHANGED <<bucket, outcome>>
  /\ UNCHANGED <<githubVars, status, todo, overlap, patterns>>

(***************************************************************************)
(* The specification                                                       *)
(***************************************************************************)

PollStep(p) ==
  \/ \E g \in PRs : NextUrl(p, g)
  \/ Fetch(p) \/ Resolve(p) \/ FinishPoll(p)
  \/ FindExisting(p) \/ WriteRecord(p)

Failure(a) ==
  \/ WriteRejected(a)
  \/ a \in Pollers /\ (FetchFails(a) \/ ResolveRejected(a) \/ Crash(a))

Environment ==
  \/ \E g \in PRs : MergePR(g) \/ ClosePR(g) \/ ReopenPR(g)
  \/ \E r \in Rows : LinkRow(r)

Next ==
  \/ Environment
  \/ \E p \in Pollers : StartPoll(p) \/ PollStep(p)
  \/ \E c \in Clients : StartClick(c) \/ FindExisting(c) \/ WriteRecord(c)
  \/ \E a \in Recorders : Failure(a)

Spec == Init /\ [][Next]_vars

\* Cron starts a poll again and again, the event loop goes on, and no operation
\* fails every time.  Strong fairness, since a failure or the end of the process
\* takes the poll away from the step that did not happen.
FairSpec ==
  /\ Spec
  /\ \A p \in Crons :
       /\ WF_vars(StartPoll(p)) /\ WF_vars(FinishPoll(p))
       /\ \A g \in PRs : SF_vars(NextUrl(p, g))
       /\ SF_vars(Fetch(p)) /\ SF_vars(FindExisting(p))
       /\ SF_vars(WriteRecord(p)) /\ SF_vars(Resolve(p))

(***************************************************************************)
(* Properties                                                              *)
(***************************************************************************)

\* What a row says happened to its pull request did happen, at the end or at
\* some time: polls that overlap, fail or die never make up an outcome.
ResolutionsAreTrue ==
  \A r \in Rows :
    /\ status[r] = "pr-merged" => github[RowPR[r]] = "merged"
    /\ status[r] = "pr-rejected" => RowPR[r] \in wasClosed

Readable(g) == \A r \in Rows : RowPR[r] = g => RowDep[r] # None

\* A row that is resolved as rejected is never polled again, so its lesson must
\* be on record by then: record first, resolve later, in every failure.
NoLessonLost ==
  \A r \in Rows :
    status[r] = "pr-rejected" /\ Readable(RowPR[r]) => Recorded(RowPR[r]) # {}

\* The record of a pull request is found again and updated by polls that are
\* repeated after a failure and by users.  There is a second one only where two
\* recorders were between search and creation at once.
DuplicatesNeedOverlap ==
  \A g \in PRs : Cardinality(Recorded(g)) > 1 => g \in overlap

\* Every pull request that is closed and stays closed is learned from: its rows
\* that have a token are resolved, although polls fail and die in between.
EveryCloseIsLearned ==
  \A r \in Rows :
    RowToken[r] =>
      (status[r] = "pr-opened" /\ github[RowPR[r]] = "closed"
         ~> status[r] \in Resolved \/ github[RowPR[r]] # "closed")
=============================================================================
