----------------------------- MODULE ScanRunner -----------------------------
(***************************************************************************)
(* The life of a scan inside one server process: lib/agent/runner.ts,      *)
(* lib/agent/phases/submit.ts and the routes that start, stream and cancel *)
(* a scan (app/api/scans).                                                 *)
(*                                                                         *)
(* runScan is an async function, so one call runs without interruption     *)
(* from one await to the next and every await is a point where the other   *)
(* scans of the process, the cancel route, the stream route, a timer or a  *)
(* crash may come in between.  pc[s] names the await scan s is suspended   *)
(* at; one action is one stretch of code between two awaits that matter.   *)
(*                                                                         *)
(* All the scans target the same repository, the case in which they        *)
(* interfere: they share the set of its open Mendel pull requests.         *)
(***************************************************************************)
EXTENDS Naturals, FiniteSets

CONSTANTS
  Scans,       \* scan ids
  Deps,        \* the stale dependencies a scan of the repository may report
  MaxDeps,     \* MAX_DEPS, the dependencies one scan works on
  Clients,     \* browsers that stream a scan's events
  SlugPrefix,  \* <<d, e>>: "mendel/deps/<slug of d>" occurs in e's branch names
  Faults,      \* the failures of the environment that may happen
  None         \* no dependency, no pull request, no scan

AllFaults ==
  { "db",      \* a database write rejects
    "reset",   \* the git reset between two dependencies fails
    "lost",    \* GitHub opens a pull request but the answer is lost
    "crash" }  \* the server process dies

ASSUME MaxDepsAssumption == MaxDeps \in Nat \ {0}
ASSUME SlugAssumption == /\ SlugPrefix \subseteq Deps \X Deps
                         /\ \A d \in Deps : <<d, d>> \in SlugPrefix
ASSUME FaultAssumption == Faults \subseteq AllFaults
ASSUME NoneAssumption == None \notin Scans \union Deps \union
                           [dep : Deps, by : Scans, content : SUBSET Deps]

VARIABLES
  status,         \* Scan.status in the database, "none" before the row exists
  issues,         \* Issue rows: the dependency and the pull request it links
  pc,             \* where the runScan call of a scan is suspended
  todo,           \* dependencies the per-dependency loop has still to take
  cur,            \* the dependency of the current iteration
  tree,           \* dependencies whose patch is in the scan's working tree
  link,           \* prUrl of the current iteration
  opened,         \* the counter prsOpened
  emitters,       \* keys of the global map scanEmitters
  cancelledScans, \* the global set of the same name
  told,           \* the terminal event the scan has emitted
  listening,      \* the scan whose emitter a client's stream listens to
  prs,            \* Mendel pull requests of the repository, on GitHub
  closed          \* those of them that have been merged or closed since

dbVars     == <<status, issues>>
runnerVars == <<pc, todo, cur, tree, link, opened>>
busVars    == <<emitters, cancelledScans, told, listening>>
vars       == <<dbVars, runnerVars, busVars, prs, closed>>

PullRequest == [dep : Deps, by : Scans, content : SUBSET Deps]
Issue       == [scan : Scans, dep : Deps, pr : PullRequest \union {None}]

Terminal == {"completed", "failed", "cancelled"}
LoopBody == {"diagnose", "patch", "verify", "submit", "push", "persist", "merge"}
Running  == {"starting", "preflight", "detect", "sandbox", "loop", "wrapup",
             "completing"} \union LoopBody
Settling == {"failing", "cancelling"}
Idle     == {"none", "gone", "dead"}
PCs      == {"queued", "grace"} \union Idle \union Running \union Settling

TypeOK ==
  /\ status \in [Scans -> {"none", "queued", "running"} \union Terminal]
  /\ issues \subseteq Issue
  /\ pc \in [Scans -> PCs]
  /\ todo \in [Scans -> SUBSET Deps]
  /\ cur \in [Scans -> Deps \union {None}]
  /\ \A s \in Scans : pc[s] \in LoopBody => cur[s] \in Deps
  /\ \A s \in Scans : pc[s] = "merge" => link[s] # None
  /\ tree \in [Scans -> SUBSET Deps]
  /\ link \in [Scans -> PullRequest \union {None}]
  /\ opened \in [Scans -> Nat]
  /\ emitters \subseteq Scans
  /\ cancelledScans \subseteq Scans
  /\ told \in [Scans -> {"none", "done", "error"}]
  /\ listening \in [Clients -> Scans \union {None}]
  /\ prs \subseteq PullRequest
  /\ closed \subseteq PullRequest

Init ==
  /\ status = [s \in Scans |-> "none"]
  /\ issues = {}
  /\ pc = [s \in Scans |-> "none"]
  /\ todo = [s \in Scans |-> {}]
  /\ cur = [s \in Scans |-> None]
  /\ tree = [s \in Scans |-> {}]
  /\ link = [s \in Scans |-> None]
  /\ opened = [s \in Scans |-> 0]
  /\ emitters = {}
  /\ cancelledScans = {}
  /\ told = [s \in Scans |-> "none"]
  /\ listening = [c \in Clients |-> None]
  /\ prs = {}
  /\ closed = {}
-----------------------------------------------------------------------------
(***************************************************************************)
(* Helpers.                                                                *)
(***************************************************************************)
Goto(s, from, to) == /\ pc[s] = from
                     /\ pc' = [pc EXCEPT ![s] = to]

\* The stream route does not close its stream on an error event.
BugAnnounceOpenEnded(s, event) ==
  /\ told' = [told EXCEPT ![s] = event]
  /\ listening' = [c \in Clients |->
                     IF listening[c] = s /\ event = "done"
                     THEN None ELSE listening[c]]

\* emit of a terminal event: every stream that listens forwards it and closes.
Announce(s, event) ==
  /\ told' = [told EXCEPT ![s] = event]
  /\ listening' = [c \in Clients |->
                     IF listening[c] = s THEN None ELSE listening[c]]

\* The finally block: the cancel flag and the checkout go, the emitter stays.
Finally(s) ==
  /\ cancelledScans' = cancelledScans \ {s}
  /\ tree' = [tree EXCEPT ![s] = {}]
  /\ UNCHANGED emitters

\* On the ways out that fail the event comes first, then the row.
EmitError(s) ==
  /\ pc' = [pc EXCEPT ![s] = "failing"]
  /\ Announce(s, "error")
  /\ UNCHANGED <<dbVars, todo, cur, tree, link, opened, emitters,
                 cancelledScans, prs, closed>>

\* Open pull requests that the pre-flight search for dependency d returns.
ExistingPRs(d) == {p \in prs \ closed : <<d, p.dep>> \in SlugPrefix}

PatchOf(s) == [dep |-> cur[s], by |-> s, content |-> tree[s]]
-----------------------------------------------------------------------------
(***************************************************************************)
(* Broken variants of definitions of this module, each the bug a small     *)
(* change of the code could introduce.  None is part of Next: a property   *)
(* is worth checking if it fails once a definition is replaced by one of   *)
(* these.                                                                  *)
(***************************************************************************)

\* The reset between two dependencies is forgotten.
BugTakeDepNoReset(s) ==
  /\ Goto(s, "loop", "diagnose")
  /\ s \notin cancelledScans
  /\ \E d \in todo[s] :
       /\ cur' = [cur EXCEPT ![s] = d]
       /\ todo' = [todo EXCEPT ![s] = @ \ {d}]
  /\ link' = [link EXCEPT ![s] = None]
  /\ UNCHANGED <<dbVars, tree, opened, busVars, prs, closed>>

\* prUrl is declared outside the loop and keeps its last value.
BugTakeDepKeepsLink(s) ==
  /\ Goto(s, "loop", "diagnose")
  /\ s \notin cancelledScans
  /\ \E d \in todo[s] :
       /\ cur' = [cur EXCEPT ![s] = d]
       /\ todo' = [todo EXCEPT ![s] = @ \ {d}]
  /\ tree' = [tree EXCEPT ![s] = {}]
  /\ UNCHANGED <<dbVars, link, opened, busVars, prs, closed>>

\* throwIfCancelled is not called at the top of the loop.
BugTakeDepIgnoresCancel(s) ==
  /\ Goto(s, "loop", "diagnose")
  /\ \E d \in todo[s] :
       /\ cur' = [cur EXCEPT ![s] = d]
       /\ todo' = [todo EXCEPT ![s] = @ \ {d}]
  /\ tree' = [tree EXCEPT ![s] = {}]
  /\ link' = [link EXCEPT ![s] = None]
  /\ UNCHANGED <<dbVars, opened, busVars, prs, closed>>

\* prUrl is kept for reused pull requests only.
BugOpenPRUnlinked(s) ==
  /\ Goto(s, "push", "persist")
  /\ prs' = prs \union {PatchOf(s)}
  /\ opened' = [opened EXCEPT ![s] = @ + 1]
  /\ UNCHANGED <<dbVars, todo, cur, tree, link, busVars, closed>>

\* The event is sent before the row is written.
BugDoneBeforeRow(s) ==
  /\ \/ Goto(s, "detect", "completing")
     \/ Goto(s, "wrapup", "completing")
  /\ Announce(s, "done")
  /\ UNCHANGED <<dbVars, todo, cur, tree, link, opened, emitters,
                 cancelledScans, prs, closed>>

\* isCancel is true of every exception.
BugSettleCancelled(s) ==
  /\ pc[s] \in Settling
  /\ pc' = [pc EXCEPT ![s] = "grace"]
  /\ status' = [status EXCEPT ![s] = "cancelled"]
  /\ Finally(s)
  /\ UNCHANGED <<issues, todo, cur, link, opened, told, listening, prs, closed>>

\* The catch block writes the error message and leaves the status.
BugSettleKeepsStatus(s) ==
  /\ pc[s] \in Settling
  /\ pc' = [pc EXCEPT ![s] = "grace"]
  /\ Finally(s)
  /\ UNCHANGED <<dbVars, todo, cur, link, opened, told, listening, prs, closed>>

\* The timer deletes nothing.
BugExpireKeepsEmitter(s) ==
  /\ Goto(s, "grace", "gone")
  /\ UNCHANGED <<dbVars, todo, cur, tree, link, opened, busVars, prs, closed>>
-----------------------------------------------------------------------------
(***************************************************************************)
(* Starting a scan.                                                        *)
(***************************************************************************)

\* POST /api/scans has written the row.
CreateScan(s) ==
  /\ Goto(s, "none", "queued")
  /\ status' = [status EXCEPT ![s] = "queued"]
  /\ UNCHANGED <<issues, todo, cur, tree, link, opened, busVars, prs, closed>>

\* The synchronous prefix of runScan registers the emitter.
LaunchScan(s) ==
  /\ Goto(s, "queued", "starting")
  /\ emitters' = emitters \union {s}
  /\ UNCHANGED <<dbVars, todo, cur, tree, link, opened, cancelledScans, told,
                 listening, prs, closed>>

MarkRunning(s) ==
  /\ Goto(s, "starting", "preflight")
  /\ status' = [status EXCEPT ![s] = "running"]
  /\ UNCHANGED <<issues, todo, cur, tree, link, opened, busVars, prs, closed>>

\* The token can push or fork, the repository is cloned at its base commit
\* and an adapter is ready for its language.
PassPreflight(s) ==
  /\ Goto(s, "preflight", "detect")
  /\ UNCHANGED <<dbVars, todo, cur, tree, link, opened, busVars, prs, closed>>

\* Some dependencies are stale; the scan will work on the first MAX_DEPS.
FindStaleDeps(s) ==
  /\ Goto(s, "detect", "sandbox")
  /\ \E queue \in SUBSET Deps \ {{}} :
       /\ Cardinality(queue) <= MaxDeps
       /\ todo' = [todo EXCEPT ![s] = queue]
  /\ UNCHANGED <<dbVars, cur, tree, link, opened, busVars, prs, closed>>

\* Docker runs and the image has the tools the repository needs.
PassReadiness(s) ==
  /\ Goto(s, "sandbox", "loop")
  /\ UNCHANGED <<dbVars, todo, cur, tree, link, opened, busVars, prs, closed>>
-----------------------------------------------------------------------------
(***************************************************************************)
(* The per-dependency loop.                                                *)
(***************************************************************************)

\* Top of an iteration, a cancel is pending: throwIfCancelled consumes the
\* flag and throws, the catch block emits the error.
ThrowIfCancelled(s) ==
  /\ Goto(s, "loop", "cancelling")
  /\ todo[s] # {}
  /\ s \in cancelledScans
  /\ cancelledScans' = cancelledScans \ {s}
  /\ Announce(s, "error")
  /\ UNCHANGED <<dbVars, todo, cur, tree, link, opened, emitters, prs, closed>>

\* Top of an iteration otherwise: take the next dependency and reset the
\* working tree to the base commit; a failed reset is only logged.
TakeDep(s) ==
  /\ Goto(s, "loop", "diagnose")
  /\ s \notin cancelledScans
  /\ \E d \in todo[s] :
       /\ cur' = [cur EXCEPT ![s] = d]
       /\ todo' = [todo EXCEPT ![s] = @ \ {d}]
  /\ \/ tree' = [tree EXCEPT ![s] = {}]
     \/ "reset" \in Faults /\ UNCHANGED tree
  /\ link' = [link EXCEPT ![s] = None]
  /\ UNCHANGED <<dbVars, opened, busVars, prs, closed>>

Diagnose(s) ==
  /\ Goto(s, "diagnose", "patch")
  /\ UNCHANGED <<dbVars, todo, cur, tree, link, opened, busVars, prs, closed>>

Patch(s) ==
  /\ Goto(s, "patch", "verify")
  /\ tree' = [tree EXCEPT ![s] = @ \union {cur[s]}]
  /\ UNCHANGED <<dbVars, todo, cur, link, opened, busVars, prs, closed>>

\* No file could be patched: on to the next dependency, nothing is persisted.
SkipUnpatched(s) ==
  /\ Goto(s, "patch", "loop")
  /\ UNCHANGED <<dbVars, todo, cur, tree, link, opened, busVars, prs, closed>>

\* Phases A, B and C, the score, the threshold and the contribution gate: the
\* patch may be submitted ...
Verify(s) ==
  /\ Goto(s, "verify", "submit")
  /\ UNCHANGED <<dbVars, todo, cur, tree, link, opened, busVars, prs, closed>>

\* ... or not: the install failed, or a gate says no.
SkipSubmission(s) ==
  /\ Goto(s, "verify", "persist")
  /\ UNCHANGED <<dbVars, todo, cur, tree, link, opened, busVars, prs, closed>>

\* submitDraftPR finds an open pull request and returns it as the result.
ReuseExistingPR(s) ==
  /\ Goto(s, "submit", "persist")
  /\ \E p \in ExistingPRs(cur[s]) : link' = [link EXCEPT ![s] = p]
  /\ UNCHANGED <<dbVars, todo, cur, tree, opened, busVars, prs, closed>>

\* It finds none: fork if needed, commit and push a branch of its own.
PushBranch(s) ==
  /\ Goto(s, "submit", "push")
  /\ ExistingPRs(cur[s]) = {}
  /\ UNCHANGED <<dbVars, todo, cur, tree, link, opened, busVars, prs, closed>>

OpenPR(s) ==
  /\ Goto(s, "push", "persist")
  /\ prs' = prs \union {PatchOf(s)}
  /\ link' = [link EXCEPT ![s] = PatchOf(s)]
  /\ opened' = [opened EXCEPT ![s] = @ + 1]
  /\ UNCHANGED <<dbVars, todo, cur, tree, busVars, closed>>

\* submitDraftPR rejects, which is only logged; the pull request may exist
\* all the same when it is the answer of the last call that was lost.
SubmitFails(s) ==
  /\ \/ Goto(s, "submit", "persist") /\ UNCHANGED prs
     \/ Goto(s, "push", "persist") /\ UNCHANGED prs
     \/ /\ "lost" \in Faults
        /\ Goto(s, "push", "persist")
        /\ prs' = prs \union {PatchOf(s)}
  /\ UNCHANGED <<dbVars, todo, cur, tree, link, opened, busVars, closed>>

\* The Issue row; with a pull request at hand the auto-merge gate follows.
Persist(s) ==
  /\ Goto(s, "persist", IF link[s] = None THEN "loop" ELSE "merge")
  /\ issues' = issues \union {[scan |-> s, dep |-> cur[s], pr |-> link[s]]}
  /\ UNCHANGED <<status, todo, cur, tree, link, opened, busVars, prs, closed>>

PersistFails(s) ==
  /\ "db" \in Faults
  /\ Goto(s, "persist", "loop")
  /\ UNCHANGED <<dbVars, todo, cur, tree, link, opened, busVars, prs, closed>>

\* runAutoMergeFor returns or rejects, after up to a day of dwell: it may have
\* merged the pull request.
AutoMergeGate(s) ==
  /\ Goto(s, "merge", "loop")
  /\ \/ UNCHANGED closed
     \/ closed' = closed \union {link[s]}
  /\ UNCHANGED <<dbVars, todo, cur, tree, link, opened, busVars, prs>>

\* The loop ends without looking at the cancel flag; the package rows and the
\* summary are written before the scan is.
LeaveLoop(s) ==
  /\ Goto(s, "loop", "wrapup")
  /\ todo[s] = {}
  /\ UNCHANGED <<dbVars, todo, cur, tree, link, opened, busVars, prs, closed>>
-----------------------------------------------------------------------------
(***************************************************************************)
(* The end of a scan.                                                      *)
(***************************************************************************)

\* Nothing is stale, or the loop is over: the row is written first ...
WriteCompleted(s) ==
  /\ \/ Goto(s, "detect", "completing")
     \/ Goto(s, "wrapup", "completing")
  /\ status' = [status EXCEPT ![s] = "completed"]
  /\ UNCHANGED <<issues, todo, cur, tree, link, opened, busVars, prs, closed>>

\* ... and once the write has resolved, the event goes out.
AnnounceDone(s) ==
  /\ Goto(s, "completing", "grace")
  /\ Announce(s, "done")
  /\ Finally(s)
  /\ UNCHANGED <<dbVars, todo, cur, link, opened, prs, closed>>

\* An early refusal: no right to push or fork, no adapter or one that is not
\* ready, no lookup that succeeded, a sandbox without the tools.
Refuse(s) ==
  /\ pc[s] \in {"preflight", "detect", "sandbox"}
  /\ EmitError(s)

\* An exception reaches the catch block of runScan.
Fail(s) ==
  /\ \/ pc[s] \in {"preflight", "detect", "sandbox", "diagnose", "patch", "verify"}
     \/ "db" \in Faults /\ pc[s] \in {"starting", "wrapup"}
  /\ EmitError(s)

\* The row gets its terminal status, or the rejected write is swallowed.
Settle(s) ==
  /\ pc[s] \in Settling
  /\ pc' = [pc EXCEPT ![s] = "grace"]
  /\ \/ status' = [status EXCEPT ![s] =
                     IF pc[s] = "cancelling" THEN "cancelled" ELSE "failed"]
     \/ "db" \in Faults /\ UNCHANGED status
  /\ Finally(s)
  /\ UNCHANGED <<issues, todo, cur, link, opened, told, listening, prs, closed>>

\* The timer of the finally block, 30 s later.
ExpireEmitter(s) ==
  /\ Goto(s, "grace", "gone")
  /\ emitters' = emitters \ {s}
  /\ UNCHANGED <<dbVars, todo, cur, tree, link, opened, cancelledScans, told,
                 listening, prs, closed>>
-----------------------------------------------------------------------------
(***************************************************************************)
(* The routes and the process.                                             *)
(***************************************************************************)

\* POST /api/scans/[id]/cancel; without an emitter it answers 404.
RequestCancel(s) ==
  /\ s \in emitters
  /\ cancelledScans' = cancelledScans \union {s}
  /\ UNCHANGED <<dbVars, runnerVars, emitters, told, listening, prs, closed>>

\* GET /api/scans/[id]/stream; without an emitter the stream closes at once.
OpenStream(c, s) ==
  /\ listening[c] = None
  /\ s \in emitters
  /\ listening' = [listening EXCEPT ![c] = s]
  /\ UNCHANGED <<dbVars, runnerVars, emitters, cancelledScans, told, prs, closed>>

CloseStream(c) ==
  /\ listening[c] # None
  /\ listening' = [listening EXCEPT ![c] = None]
  /\ UNCHANGED <<dbVars, runnerVars, emitters, cancelledScans, told, prs, closed>>

\* A maintainer merges or closes a pull request on GitHub.
ClosePR(p) ==
  /\ closed' = closed \union {p}
  /\ UNCHANGED <<dbVars, runnerVars, busVars, prs>>

\* The process dies and starts again: the registries are empty, the database
\* and GitHub are as they were, and no code looks for interrupted scans.
Crash ==
  /\ "crash" \in Faults
  /\ \E s \in Scans : pc[s] \notin Idle
  /\ pc' = [s \in Scans |-> IF pc[s] \in Idle THEN pc[s] ELSE "dead"]
  /\ emitters' = {}
  /\ cancelledScans' = {}
  /\ listening' = [c \in Clients |-> None]
  /\ UNCHANGED <<dbVars, todo, cur, tree, link, opened, told, prs, closed>>

\* One await of runScan resolves or rejects.
RunnerStep(s) ==
  \/ MarkRunning(s) \/ PassPreflight(s) \/ FindStaleDeps(s) \/ PassReadiness(s)
  \/ ThrowIfCancelled(s) \/ TakeDep(s) \/ Diagnose(s)
  \/ Patch(s) \/ SkipUnpatched(s) \/ Verify(s) \/ SkipSubmission(s)
  \/ ReuseExistingPR(s) \/ PushBranch(s) \/ OpenPR(s) \/ SubmitFails(s)
  \/ Persist(s) \/ PersistFails(s) \/ AutoMergeGate(s) \/ LeaveLoop(s)
  \/ WriteCompleted(s) \/ AnnounceDone(s)
  \/ Refuse(s) \/ Fail(s) \/ Settle(s)

Next ==
  \/ \E s \in Scans : \/ CreateScan(s) \/ LaunchScan(s)
                      \/ RunnerStep(s) \/ ExpireEmitter(s)
                      \/ RequestCancel(s)
  \/ \E c \in Clients : CloseStream(c) \/ \E s \in Scans : OpenStream(c, s)
  \/ \E p \in prs \ closed : ClosePR(p)
  \/ Crash

Spec == Init /\ [][Next]_vars

(***************************************************************************)
(* The event loop runs what is ready and every await of a scan is settled  *)
(* at last: network calls, containers and timers all end.  Nobody has to   *)
(* start a scan, to cancel one or to close a stream.                       *)
(***************************************************************************)
Fairness == \A s \in Scans : /\ WF_vars(LaunchScan(s))
                             /\ WF_vars(RunnerStep(s))
                             /\ WF_vars(ExpireEmitter(s))

FairSpec == Spec /\ Fairness
-----------------------------------------------------------------------------
(***************************************************************************)
(* Safety.                                                                 *)
(***************************************************************************)

\* What a client was told and what the database says never contradict each
\* other: "done" is announced only by a scan whose row says completed, a row
\* that says so never belongs to a scan that announced an error, and one that
\* says failed or cancelled always does.  Row and event are written in opposite
\* orders on the two ways out (completion, catch block).
TerminalAgreement ==
  \A s \in Scans :
    /\ told[s] = "done" => status[s] = "completed"
    /\ status[s] = "completed" => told[s] # "error"
    /\ status[s] \in {"failed", "cancelled"} => told[s] = "error"

\* A scan can be cancelled and streamed exactly while its runner lives: from
\* the first await to the end of the grace period it has an emitter, and after
\* the terminal event no stream opened before it is still waiting.
EmitterCoversRun ==
  \A s \in Scans :
    s \in emitters <=> pc[s] \in Running \union Settling \union {"grace"}

\* Isolation: a pull request carries the change of its own dependency only,
\* although all the dependencies of a scan are patched in one working tree.
CleanPRs == \A p \in prs : p.content = {p.dep}

\* The counter that ends up in Scan.prsOpened is the number of pull requests
\* the scan has really opened on GitHub, reused ones not counted.
PrsOpenedExact ==
  \A s \in Scans : opened[s] = Cardinality({p \in prs : p.by = s})

\* No pull request escapes the database: once the runner is past the
\* iteration that opened it an Issue row links it, so that the poller will
\* learn whether it is merged or rejected.
NoOrphanPR ==
  \A p \in prs : pc[p.by] # "persist" => \E i \in issues : i.pr = p

\* The pull request an Issue row links has a branch the search for the row's
\* dependency returns: none is left over from the iteration before, and none
\* belongs to a dependency whose slug does not contain this one.
LinksMatchTheSlug ==
  \A i \in issues : i.pr # None => <<i.dep, i.pr.dep>> \in SlugPrefix

\* The pull request an Issue row links is one for the row's dependency.  Not
\* true of the code: the search compares by containment.
IssueLinksOwnPR == \A i \in issues : i.pr # None => i.pr.dep = i.dep

\* The repository never has two open Mendel pull requests for a dependency.
OnePRPerDep == \A p, q \in prs \ closed : p.dep = q.dep => p = q
-----------------------------------------------------------------------------
(***************************************************************************)
(* Action properties.                                                      *)
(***************************************************************************)

\* While a cancel is pending the runner takes no further dependency, and the
\* flag is dropped only by the throw that ends the scan, by the end of the
\* scan or by the death of the process: it is never lost on the way.
PendingCancelStopsQueue ==
  [][\A s \in Scans : s \in cancelledScans =>
       /\ cur'[s] = cur[s]
       /\ s \in cancelledScans' \/ pc'[s] \in {"cancelling", "grace"} \union Idle]_vars

StaysAsItEnded(s) ==
  /\ told[s] # "none" => told'[s] = told[s]
  /\ status[s] \in Terminal => status'[s] = status[s]
  /\ {p \in prs' : p.by = s} = {p \in prs : p.by = s}
  /\ {i \in issues' : i.scan = s} = {i \in issues : i.scan = s}

\* After its terminal event, and once its row has a terminal status, a scan is
\* quiet: it opens no pull request and files no issue, its status is final and
\* so is its terminal event.
QuietAfterTerminal ==
  [][\A s \in Scans :
       told[s] # "none" \/ status[s] \in Terminal => StaysAsItEnded(s)]_vars

\* "no further phase advances" once a cancel is pending, so that the scan
\* delivers nothing any more.  Not true of the code: the flag is read at the top
\* of an iteration only.
NoDeliveryAfterCancel ==
  [][\A s \in Scans : s \in cancelledScans =>
       {p \in prs' : p.by = s} = {p \in prs : p.by = s}]_vars
-----------------------------------------------------------------------------
(***************************************************************************)
(* Refinement.  A stop request is pending while its flag is set and heeded *)
(* once the flag has made the runner throw.  The parts of a pull request   *)
(* that do not name its scan are its identity.                             *)
(***************************************************************************)
StopRequests == cancelledScans \union {s \in Scans : pc[s] = "cancelling"}

Lifecycle == INSTANCE ScanLifecycle WITH
               PRIds <- PullRequest,
               asked <- StopRequests,
               delivered <- {<<p.by, p>> : p \in prs}

\* Whatever fails and whoever interferes, the runner keeps the promises of
\* ScanLifecycle: in particular only a scan somebody asked to stop ends as
\* cancelled, and nothing is delivered after the terminal event.
LifecycleSpec == Lifecycle!Spec
-----------------------------------------------------------------------------
(***************************************************************************)
(* Liveness.                                                               *)
(***************************************************************************)

\* A scan that is accepted gets a terminal status.
EveryScanSettles ==
  \A s \in Scans : status[s] \in {"queued", "running"} ~> status[s] \in Terminal

\* A stream opened before the scan's terminal event ends.
EarlyStreamsEnd ==
  \A s \in Scans, c \in Clients :
    (listening[c] = s /\ told[s] = "none") ~> listening[c] # s

\* The registry of emitters does not grow: every emitter is dropped again.
EmittersReleased == \A s \in Scans : s \in emitters ~> s \notin emitters
=============================================================================
