# Mendel: a verification project

Mendel scans a repository for dependencies that are out of date, works out
which upgrades break it, patches the code, verifies the patch in a container
and opens a pull request. These TLA+ modules model the parts of it where
concurrency, failures and long chains of decisions make errors likely, and its
algorithms on manifests, patches, globs and releases. TLC checks them on small
instances; TLAPS proves the main invariants for every value of the constants.
Everything is translated from the sources; the table `map` of PROJECT.json
gives the lines behind every definition.

1. The system
2. Modules and how they correspond to the code
3. What the runs check
4. What is proved
5. Where code and documentation disagree
6. What is not modelled, and the plan

Paths are relative to the root of the repository.

---------------------------------------------------------------------------

## 1. The system

Three processes share one SQLite database: the Next.js server (pages, routes
and the scans they start), the monitor worker and the MCP server. All three run
scans. They also share the Docker daemon and a ledger file of the sandbox
cache. Inside a process everything runs on one event loop: code is
uninterrupted from one `await` to the next, and that is the grain of the
actions in the modules.

| Component | State | Operations | Interacts with | Hard part | What makes it correct |
|---|---|---|---|---|---|
| **Scan runner** (`lib/agent/runner.ts`) | Scan and Issue rows; the working tree; the global `scanEmitters` and `cancelledScans` | `runScan`: DETECT, then DIAGNOSE, PATCH, VERIFY, SUBMIT, PERSIST for up to three dependencies; `requestCancel` | every other component | two scans of one repository; a cancel at any await; a write that rejects after its effect; a crash | row and event agree; one end per scan; pull requests carry their own change; nothing after the end |
| **PR submission** (`phases/submit.ts`, `github/`) | branches and pull requests on GitHub | search, fork, push, create | runner | check-then-act against GitHub; a lost answer | the counter, the rows and GitHub tell one story |
| **Scan routes** (`app/api/scans`) | subscriptions to emitters | POST, stream, cancel, GET | runner's globals | a stream that comes late; a cancel without a scan | streams end |
| **Monitor worker** (`worker/monitor.ts`, `monitor/scheduler.ts`) | `tasks`, `inFlightCount`; MonitorSchedule and AgentLog rows | cron fires, start, signal; the route that edits schedules | starts scans | overlapping fires; stale rows; leaked slots | the cap, the gap, a complete log |
| **Confidence** (`confidence/`) | none | score of two signals; threshold; mode | runner | interplay of caps, buckets and averages | evidence is never overrated |
| **Eligibility** (`eligibility.ts`) | none | decide, gate | runner | ownership read once, used later | strangers get welcome pull requests only |
| **Auto-merge** (`automerge/`) | RepoSetting, Issue.autoMerge, AgentLog rows | envelope, gate, dwell, merge | runner, settings route, rejections | settings that change between reads | no merge outside the envelope; an audit row for every verdict |
| **Sandbox** (`sandbox/`) | Docker volumes; the ledger file | phases A, B, C; teardown; cache; eviction | runner, daemon | volumes shared by scans; an eviction nobody awaits | tests run on what was installed; the cap holds |
| **PR poller, rejections** (`learning/`) | RejectionPattern rows, Issue.status | poll, record, recall | cron, route, page, GitHub, auto-merge, prompts | overlapping polls; find-then-create; record and resolution are two writes | no outcome is made up, no rejection resolved without its record |
| **Scan view** (`hooks/use-scan-*.ts`) | page state from stream and row | subscribe, fetch, play back | routes | two sources that are written at different moments | cards show what was stored; the page settles |
| **Detection, diagnosis, signals** (`phases/`, `signals/`, `issue-link.ts`, `eligibility-preview.ts`) | none | registry, changelog, semantic diff, issue search | runner, LLM, scan form | registries that fail; exports of many forms | stale is told, changes are differences, the preview is what the gate decides |
| **Workspaces** (`workspace/`) | none | globs of five tools over a tree | runner | overlapping and excluding patterns | every declared package, resolved or reported |
| **Patching** (`patching/`) | files of the clone, list of patches, budget | blocks, retry, full-file regeneration, version bump | runner, LLM | partial matches, fallbacks, a budget across files | files and patches tell one story |
| **Language adapters** (`lang/`, `sandbox/*-executor.ts`) | none | manifests, ranges, staleness, analyzers | runner | line-by-line readers of structured files | nothing dropped or invented; a missing analyzer says so |
| **LLM client** (`llm/`) | none | call with two retry budgets | everything that prompts | mixed failures | the loop ends within both budgets |
| **GitHub delivery** (`github/`) | forks, branches, merges | pre-flight, fork, wait, push, pull request | runner | rights that change; lost answers | what passed the pre-flight can be delivered |
| **Rate limiter** (`lib/rate-limit.ts`) | one window per client | count, prune | routes | window boundaries | no more than twice the limit in any window |
| **Forms and their routes** (`scan/new`, `settings`, `connect`, `AutoMergePanel`, `MonitorPanel`, `api/validate-pat`, `api/*-schedules`, `api/repo-settings`) | form state; sessionStorage; rows | load, edit, acknowledge, save, start | routes | answers that arrive after the question changed | what is set is what was meant |
| **MCP server** (`mcp/`) | none of its own | tools of one to three queries | scans, inspections | queries without a transaction | answers are whole |
| **Inspection, evaluation** (`inspect.ts`, `eval/`, `scripts/eval.ts`) | one row per report; the baseline file | inspect, persist, compare | confidence | comparisons across releases | no claim beyond the evidence; no regression accepted |

PROJECT.json lists the components in full, with the files of each, and under
`hazards` what is hard to test in this code, line by line.

---------------------------------------------------------------------------

## 2. Modules and how they correspond to the code

### ScanRunner, ScanLifecycle

`ScanRunner` models the life of the scans of one repository inside one server
process. `pc[s]` names the await at which the call of `runScan` for scan `s` is
suspended; the actions follow the function from top to bottom:

    CreateScan, LaunchScan, MarkRunning   POST, first await, "running"
    PassPreflight .. PassReadiness        DETECT, sandbox ready
    TakeDep                               reset, cancel check, next dependency
    Diagnose, Patch, Verify               one await each, every outcome
    ReuseExistingPR, PushBranch, OpenPR   submitDraftPR
    Persist, AutoMergeGate                the Issue row and what follows it
    LeaveLoop, WriteCompleted, AnnounceDone
    Refuse, Fail, Settle                  early return, catch block
    ExpireEmitter                         the 30 s timer of the finally block

`RequestCancel`, `OpenStream` and `CloseStream` are the routes, `ClosePR` a
maintainer, `Crash` the death of the process. `Faults` selects what may go
wrong: a rejected database write, a failed `git reset`, a pull request whose
answer is lost, a crash. What the search on GitHub matches is the constant
`SlugPrefix`, since `findOpenPRsByHeadPattern` looks for containment.

`ScanLifecycle` is the abstract specification, what a user relies on: a scan is
accepted, begins, delivers pull requests, and ends once; it ends as cancelled
only if somebody asked for it; nothing is delivered after the end was said.
`LifecycleSpec` in `ScanRunner` is the refinement: a stop request is pending
while its flag is set and until the catch block has recorded it, and what is
delivered is what is open on GitHub in the scan's name.

Abstracted: the log, the token budget, workspaces (one list of dependencies
for a scan), and the reasons of outcomes. Every await may end in every way the
code handles.

### MonitorWorker

`Trigger` is the cron callback; a fire then goes `ReadRow`, `Skip` or `Launch`
(the decision and `inFlightCount++`, without an await in between), `LogStart`,
`CreateScanRow`, `RunScan`, `RecordFire`, or the catch block `RecordError`,
`LogError` with the `finally` that gives the slot back. A call that returns is
`over`; one that rejects is `rejected`, or `leaked` if it held a slot. node-cron does not wait
for the previous call, so fires of one schedule overlap. `PutSchedule` and
`DeleteSchedule` are the settings route, in another process. `Disturbances`
selects rejected operations, unreadable tokens, deletions and signals.
`RunScan` has a single outcome because `runScan` resolves whatever happens.

### Confidence, SubmissionPolicy

`Confidence` is `score.ts` and `threshold.ts` as operators on sets of symbols:
the score of a symbol from the signals that flag it, the rounded average, the
caps for failed verification and boot, the ceiling of the language adapter,
bucket and submission mode. `SubmissionPolicy` puts them where the runner uses
them: it takes one upgrade after another through signals, installation, test,
boot, score, the gates of eligibility and threshold, the pull request, the
Issue row and the auto-merge gate, while the user saves settings or records
rejections and, as a disturbance, push access changes. The three outcomes of
the sandbox are nondeterministic here; `ScanRunner` says when they happen,
`Sandbox` on what volumes.

### Sandbox

A job is one verification. Phase A looks for a cache volume of the lockfile's
key (`CheckCache`), prepares a volume, and installs (`StartInstall`,
`FinishInstall`, `InstallFails`); phases B and C (`RunTest`, `RunSmoke`) and
the teardown use the volume named after the scan. A fresh install starts
`evictCacheIfNeeded`, a second task of the job with its own control state `ev`:
list, sizes and plan, one `docker volume rm` after another, and the ledger
written back as it was read. The daemon is external: `docker run` creates what
it mounts, `docker volume rm` refuses what is mounted. A volume holds nothing,
an unfinished install, an earlier scan's tree or the tree of a job; the key of
a job is a free choice at the start, so jobs have equal, different or no
lockfiles. Cache keys are numbers since volumes used at the same time are
ordered by name. `Total`, the sum of sizes, is the number of the bytes in the
volumes: a cardinality, so that the proofs can use what is known of finite sets.

### LearningLoop, Recall

`LearningLoop` has pollers (cron and route) and clients of the route
`rejections`. A poll selects rows (`StartPoll`), takes them by pull request
(`NextUrl`), asks GitHub (`Fetch`, `FetchFails`), records a rejection
(`FindExisting`, `WriteRecord`: the search and the creation are two awaits) and
writes the rows (`Resolve`). Pull requests are closed, reopened and merged
meanwhile. `Faults` selects failing requests, rejected writes and crashes; a
failure leaves the rows of that pull request for the next poll, as
the catch block of the code does. `Recall` is who reads the records: exact and similar recall, limits, backfill
of embeddings, and the prompt.

### ScanView

The runner is reduced to the events it emits and the writes between them; the
client is the state of the two hooks and of the page: the current EventSource
(`conn`, `wire`), what it has received (`entries`, `done`), the one GET made at
the end (`get`, `snap`) and the cancel button. `Cards`, `Phase` and `Pose` are
the view model, a fold over the entries that the row replaces when the stream
had nothing. A page may open at any stage, lose its stream, leave and come back.
`home` is the process that runs the scan: the emitter is in its memory, so the
stream route, which is in the server, finds none for a scan of the monitor
worker or the MCP server, and answers that it is done.

`view` keeps the fold of the entries received, which the code computes anew at
every render; the type invariant says that it is a view and not how it was
computed.

### Parts, MCParts

`Parts` puts together the modules below except `Readers` and `Algorithms`, names
the state, the assumptions and the specification of each (`LlmSpec`, `RateSpec`
and so on) and states what they promise; `PartsProofs` proves it, and
`ReaderProofs` what `Readers` promises. They share no state, so one run checks
them all: `MCParts` extends `Parts` and `Readers`, gives small values to the
constants, and its first state chooses a part, which alone moves. `OnlyPanel`,
`OnlyForm` and their like begin with one part, to find out what is not true of it
(section 5). `Algorithms` is one more part. `HostLimits` declares the limits on hosts that `ScanForm`,
`Verdicts` and `Readers` share.

| Module | Code | State and actions |
|---|---|---|
| `LlmClient` | `llm/index.ts` | the loop of `llmComplete`: ask, answer, error, wait |
| `RateLimiter` | `rate-limit.ts` | windows per preset and address, a clock, the pruning timer |
| `AutoMergePanel` | the panel and `api/repo-settings` | loads and saves under way, the form, the tick; as history, the repository shown when the box was ticked (`acked`) and whether the answer of a save has replaced the editor since (`displaced`) |
| `MonitorSchedules` | the panel and `api/monitor-schedules` | tabs whose PUT reads, then writes |
| `TokenSession` | connect and settings pages, `api/validate-pat` | the stored token, requests under way, tokens GitHub knows |
| `ScanForm` | `scan/new` | the debounced preview, the box, hosts, the POST |
| `McpServer` | `mcp/tools.ts` | calls between their queries, lists with any status filter, scans that write meanwhile |
| `ForkDelivery` | `github/index.ts`, `phases/submit.ts` | pre-flight, fork, polls, push, pull request, merge; GitHub's own changes |
| `Patching` | the PATCH phase of `runner.ts`, `patching/` | the ranked files, disk, patches, spending |
| `Readers` | the loops of `lang/`, `phases/detect.ts`, `search-replace.ts`, `workspace/detect.ts`, `iptables-allowlist.ts` | the lines read so far and the local variables of the loop; one step takes a line, or expands a pattern |
| `Verdicts` | the decisions of `Toolchain`, `Languages`, `Signals`, `Recall`, `Reports` and `Governance` | one step puts a question of any size |
| `Algorithms` | the other pure modules | one step picks a computation and its input |

The properties of the pure modules compare each result with a definition of what
it should be. What the code computes in a loop over something it is given,
`Readers` models as that loop: `Languages`, `Blocks`, `Toolchain` and `Workspace`
define what one round does to the local variables (`PyLine`, `ParseLine`,
`AddHost`, `ExpandNext`), and `Readers` runs the rounds. A file may end after any
line, so every state is one in which a reader returns, and an invariant of the
loop is a statement about its results. `Verdicts` states what a question may be
(`Question`: any set of files, any number of candidate paths, issues or
rejections, any finite set of symbols, any outcome of a container). `MCParts`
has short lines and small questions (`McLines`, `McQuestions`); `ReaderProofs`
and `PartsProofs` answer for all. `Algorithms` enumerates bounded inputs for the
rest, which is folds over what the code itself has made:

| Module | Code | Data |
|---|---|---|
| `Languages` | `lang/`, `phases/detect.ts` | lines as records; versions as sequences of numbers |
| `Signals` | `signals/` | exports as name, signature and form; tags as sequences |
| `Blocks` | `patching/search-replace.ts`, `full-file.ts` | texts over two characters, a space and a line end |
| `Governance` | `eligibility-preview.ts`, `issue-link.ts`, `eligibility.ts` | files as absent, clean, flagged or a directory; issues |
| `Recall` | `learning/rejection-recall.ts`, `embedding.ts` | tables of up to three records, short vectors |
| `IssueView` | `issue-vm.ts`, `confidence/summary.ts`, the row written by `runner.ts` | outcomes of one upgrade, columns that fail to parse |
| `Workspace` | `workspace/detect.ts` | trees of five directories; globs of three shapes |
| `Toolchain` | `sandbox/detect.ts`, `smoke.ts`, `executor.ts`, the language executors | sets of files and scripts; what a run printed and how it ended |
| `Reports` | `inspect.ts`, `api/inspect`, `eval/`, `scripts/eval.ts` | two symbols; benches of up to two results |

Each module says in its comments which state stands for what. The definitions
whose names begin with `Bug` are mutants: the form a plausible error would give
to the definition that follows them; no specification uses them. PROJECT.json
lists one for each property of a passing run; the others violate the same
properties, each in its own part. A comment "Not true of the code" marks a
property that somebody may expect, that a document even states, and that the
code does not have: section 5.

---------------------------------------------------------------------------

## 3. What the runs check

A run instantiates an `MC` module. Eight runs pass; the other four are expected to
end in a violation, each of one property that a document or a comment of
the repository states and the code does not have. The bounds below are the
smallest at which the interesting case happens; each property of a passing run
has a mutant that violates it within the same bounds.

| Run | Instance | Shows |
|---|---|---|
| `scan_single` | one scan, three dependencies of which two are taken, the slug of one the beginning of another's, one client; crash, rejected writes, lost answers | row and terminal event agree (`TerminalAgreement`); a pull request carries its own change (`CleanPRs`); an Issue row links only to a pull request that the search returns for its dependency, its own or that of a longer slug (`LinksMatchTheSlug`); a pending cancel lets no further dependency start (`PendingCancelStopsQueue`); refinement of `ScanLifecycle` |
| `scan_live` | two scans of one repository, one dependency, one client, maintainers who close pull requests, failing resets, fairness | every open pull request is linked by a row (`NoOrphanPR`), reused ones included; every accepted scan settles, every stream opened before the terminal event ends, every emitter is released |
| `monitor` | cap 1, two fires, gap 2, all disturbances, fairness | the cap (`ConcurrencyCap`); a slot is lost only by a fire whose start row could not be written (`SlotsHeld`); a call that returns has logged its decision (`EveryDecisionLogged`); no scan without its log row (`NoUnloggedScan`); the gap after a recorded success (`GapAfterSuccess`); every fire ends |
| `submission_gate` | two symbols, coverages on both sides of 80, thresholds 40 and 70, ceilings high and medium, two bumps, rejected operations | five invariants on scores, gates and the audit trail |
| `sandbox_cache` | two jobs, three keys of sizes 1, 2, 4 and a cap of 3; failing installs and docker commands | the cap at rest (`CapAtRest`), no needless removal (`FrugalEviction`) |
| `learning_loop` | two rows of one pull request, one of them without a readable token, one cron, one route, one client, one reopening, all faults, fairness | no outcome is made up (`ResolutionsAreTrue`); no row is resolved as rejected before its lesson is on record (`NoLessonLost`); a second record needs two recorders at once (`DuplicatesNeedOverlap`); every close that lasts is learned (`EveryCloseIsLearned`) |
| `scan_view` | two dependencies, one visit, two events on their way, a scan of the server or of another process, failing requests and writes, fairness | a pull request stands on the card of its dependency, although the event names none (`PrOnItsCard`); a page that has read the row shows every Issue row there will be, if the server runs the scan or the scan was over when the row was read (`SettledPageIsComplete`); a page opened in time settles (`EarlyPageSettles`) |
| `parts` | see `MCParts` and the inputs in `Algorithms`; readers of two to six lines | the table below |
| `scan_cancel_between_phases`, `scan_duplicate_pr`, `sandbox_install`, `safe_upgrades_merge` | minimal | violations, section 5 |

The properties of `parts` are conjunctions over its modules:

| Property | Says |
|---|---|
| `BudgetsHold` | however errors are mixed, a call to the model sends and waits no more than its two budgets allow and asks nothing after a refusal for the day; no client gets more than twice a limit into a window, wherever the window begins |
| `SettingsAreMeant` | a save that enables auto-merge was acknowledged since the last load, and for the repository it writes unless the answer of an earlier save has replaced the editor since; no PUT, between its read and its write or after, leaves a schedule without a token; no token is kept that GitHub did not accept; an answered preview is about the repository in the input, and the hosts posted are hosts the route takes |
| `DeliveryIsPossible` | a scan that passed the pre-flight is denied delivery only after a change at GitHub, or through the fork: GitHub refuses to create one for a token that has the scope, or the one that is there cannot be written; nothing is pushed to a fork that was not seen; what is reported as merged is merged |
| `PatchesAreExact` | at every step the patches are the files that differ, within the budget |
| `AnswersAreWhole` | although scans write between the queries of a call: a scan shown as completed is shown with all of its issues; a page that is not full holds every row that has matched its filter since the call; the total counts at least the rows that have |
| `RecordsAreShown` | a prompt tells exact rejections from similar ones; the page shows the stored outcome and the summary adds up; the comparison of releases is transitive and lets no failing fixture through |
| `VerdictsAreEarned` | commands fit the repository; phase B passes only if what it ran passed, phase C only after a ready phrase, also one that a crash follows, or a clean exit in time; the output of an analyzer is one it printed and a diff without one says so; the most specific adapter is taken; what is behind a version is behind every later one; every file that imports a symbol is listed for it, whatever it calls it; a version is bumped in its own entry; recall stays with the dependency, its limits and its order when rows change between its two queries; an inspection claims no more than a verified scan of the same evidence would; preview and gate agree unless the preview says it is degraded; a degraded one never says owned against the gate, and blocked against it only if the read of the repository failed; an issue is linked whenever one names the dependency or is about dependencies at large, and the linked one has the letters of the name in its text or is such an umbrella issue |
| `ListsAreRead` | the dependencies read are those the manifest declares (of pyproject.toml all but those below an extra of the same array, of Cargo.toml those of the table [dependencies]), the packages of a workspace those the patterns cover, the blocks of an answer those that stand in it, and every host is accepted or rejected with a reason; what is told stale is behind, and what is behind is told, or counted as unresolved, where the adapter compares numbers (not for Go, nor for marked ranges of Rust) |
| `ChangesAreExact` | removed, changed and deprecated are differences of the export maps, notes are of later releases; a block is applied where its text occurs exactly once, and read back as it was prompted |

Why these bounds are enough. *Scans*: a hand-over of the working tree needs two
iterations of one scan, the race between search and creation two scans; a third
dependency makes the choice of two real. *Monitor*: a cap of one makes the
second fire see it; the clock only has to reach the gap, which is two so that a
fire can come too early; the proofs cover every cap and number of fires. *Scores*: the average
matters from two symbols on, and each comparison of the code has a value on
each side of it. *Sandbox*: two jobs can share a volume or compete for the cap,
and the third volume makes an eviction choose; with sizes 1, 2, 4 and a cap of
3 a plan may have none, one or two volumes, and one tree is larger than the cap. *Learning*: three recorders make
every pair of kinds overlap; two rows tell the first of a group from the rest;
a reopening lets a slow poll be overtaken. *View*: `pr` names no dependency, so
two cards; two events under way let a read overtake them. *Parts*: two tabs,
calls or repositories are the least that interfere; steps of the panel are bounded
by nine, what two loads, a change, a tick, two saves and their answers take; lists
are asked for with no status and with one that rows enter and leave; windows of the
limiter by three of them in a row. *Verdicts*: two candidates, issues or
versions are the least of which one is first; each comparison meets its boundary.
*Readers*: four lines let each kind of line stand before, inside and after a
section; a block of an answer takes five and the line of its path, two patterns
are the least that overlap, and four hosts exceed the cap of the instance.
*Algorithms*: two edits, exports or releases are the least that collide, and each
comparison meets its boundary. Symmetry is used where the properties of a run do not name a member of
the permuted set and none of them is a liveness property; in `parts` that is the
set of calls of the MCP server.

Deadlock is not checked where the modelled system really stops: all scans,
fires or jobs are over.

**Fairness.** `FairSpec` of `ScanRunner` assumes that what is ready runs and
that every await of a scan ends: calls to GitHub and the LLM end or fail,
containers have timeouts in `executor.ts`, and the timer fires. Nobody is
assumed to start a scan, cancel one, open or close a stream. `FairSpec` of
`MonitorWorker` assumes the same of the awaits of a fire; that `runScan` ends is
what `EveryScanSettles` shows in the other module. Both are weak fairness of
the steps of each scan or fire, since no step is disabled by another's.
`FairSpec` of `LearningLoop` assumes that cron starts polls for ever and that no
operation fails every time: strong fairness, because a failure or the end of
the process takes the poll away from the step that did not happen. The route
and the clients are not assumed to run. `FairSpec` of `ScanView` assumes that
the runner ends (`EveryScanSettles`), that events are delivered and requests
answered, with success or not; the user need not do anything.

**Limits of single properties.** `scan_live` leaves out the crash and the
rejected write of the status, after which no scan settles, and the lost answer,
after which nobody knows of the pull request. `CleanPRs` is
checked without failing resets, `ForeignPRsWelcome` without a change of access.
`SettledPageIsComplete`, `SettingsAreMeant`,
`DeliveryIsPossible`, `AnswersAreWhole`, `VerdictsAreEarned` and `ListsAreRead`
state their exceptions, as the tables above say, and `SlotsHeld` and
`LinksMatchTheSlug` do so too. The agreement of preview and gate is limited to
repositories without a directory in the place of a governance file.
`EveryCloseIsLearned` is about rows whose token decrypts, `NoLessonLost` about
pull requests whose rows name their dependency, `EarlyPageSettles` about pages that
keep their stream. `WorkspaceIsWhole` and its like leave out the forms that
section 5 names. `CapAtRest` excludes failed installs, listings and removals,
`FrugalEviction` evictions that another one overlaps. Each of these limits marks a place where
the code does not have the property; section 5 says what happens there.

---------------------------------------------------------------------------

## 4. What is proved

TLAPS checks the following for all scans, dependencies, fires, symbols, keys,
jobs and bounds, from the named ASSUMEs of the modules only. A theorem that
needs more has it as its hypothesis.

**ScanRunnerProofs.** `IInv` is `TypeOK`, `PhaseInv` and `TerminalAgreement`.
The agreement of row and event is not inductive alone: the catch block emits
the event first and writes the row later, a completing scan the other way
round, so `PhaseInv` says what row and event are at each `pc`. From `IInv`
follow type correctness, `TerminalAgreement`, `EmitterCoversRun`,
`QuietAfterTerminal`, `PendingCancelStopsQueue` and the refinement of
`ScanLifecycle`, step by step (`RefineInit`, `RefineStep`), all of them with
every fault. `CleanPRs` is proved if resets do not fail (its invariant follows
the working tree through an iteration); `PrsOpenedExact` if no answer is lost
(the counter is a cardinality, with lemmas on adding to finite sets);
`NoOrphanPR` if no write is rejected, no answer lost and the process survives.
`LinksMatchTheSlug` is proved for every relation of slugs; `IssueLinksOwnPR` would
need that no slug is the beginning of another, and is not claimed.

**MonitorWorkerProofs.** `CapInv` is the books of the slots: `inFlight` is the
number of fires that hold one or have lost one. It gives `TypeOK` (the counter
never goes below zero) and `ConcurrencyCap`. `Books` says of each place where a
fire may stand whether it was launched and whether it is logged, so that a slot
without a holder is one without a start row (`SlotsHeld`). `NoUnloggedScan` and
`EveryDecisionLogged` follow along the steps of a call. All of this holds with
every disturbance. `GapAfterSuccess` follows from `GapInv`: a
row's `lastFired` is not older than any success recorded in it, and a fire that
was triggered after a success has seen it, or a later one, when it decides.

**SubmissionPolicyProofs.** For every finite set of symbols
the rounded average is between 48 and 90 (`BaseScoreRange`, by bounds on sums
and quotients), at most 75 when neither signal reports a breaking change, and
not lowered by agreement (`AgreementRaisesScore`). The invariant of the gates
ties the stored score, pull request, verdict and audit row to the inputs they
were computed from, at each `pc`; with the facts about scores it gives all nine
properties of the module that hold, `AutoMergeNeverFires` among them. `StandardIsVerified`
assumes a threshold above 50.

**SandboxProofs.** `CapAtRest` speaks of the end only. On the way to it `CapIsSeenTo` holds: as long as nothing
has failed and no fresh install is in progress or waits for its listing, some
eviction has listed every volume that holds anything, or has a plan after which
the cache fits the cap or only its own volume is left. It is established by the
last listing, kept by planning (`PlanLeavesTheCap`: look at the least recently
used candidate that is not in the plan) and by the removals of anybody.
`FrugalEviction` needs `PlanIsNeeded`: with all volumes gone that come before
one in the plan, the cache is still over the cap; installs only add to it
(`PhaseSizes`). The only arithmetic of sums is that volumes which hold no more
bytes are no larger (`NoMoreBytes`).

**ScanViewProofs.** Type correctness by one lemma per event, since an event is
folded into the view. `PrOnItsCard` follows from an invariant about the events
of the runner, which are at every moment a beginning of those of one scan: `pr`
comes after the card of its dependency and before the next. From the order in
which rows are written and the last event is sent follows `SettledPageIsComplete`:
in the server the emitter lives until the last row is written, and elsewhere a row
that is no longer running was written after all of them.

**PartsProofs.** The budgets of a call (`CallBudgets`): requests and waits are
bounded by the two counters of retries. `RateHolds`: admissions within a window
are counted by at most two of the limiter's own windows, since a pruned one has
ended (`WindowsHold`, `Forgotten`, `Counting`). The forms: a preview and
a token are about what is shown, since an answer carries what it was asked; a tick
is about the repository shown when the box was ticked, and stays so until a load
clears it or the answer of a save replaces the editor under it (`displaced`).
`DeliveryIsPossible`: what the pre-flight saw is still true or has changed
since (`Possible`); that GitHub will create a fork it has not seen, only guessed
from the scope of the token. `PatchesAreTheDiff`: a file not yet taken is untouched, and
disk and patches tell the same story at every await of one file. Answers of the
MCP server: the issues of a scan only grow and
its status moves one way, so a scan read as completed has all of them; of a list,
what has matched since the call was there at both queries. `Verdicts`: `First` is the index SelectInSeq returns
(`FirstIndex`, from the well-foundedness of Nat); a read of the preview fails or
tells the first candidate on disk (`FetchedIsOnDisk`), so that preview and gate
decide from the same facts if no read fails (`PreviewAgrees`). A recall reads the table twice and
others write in between; the rows of the first query are distinct since a finite
set of numbers has a strictly descending listing (`RowsAreListed`, by counting
the elements above each), those of the second are not among them, and a row keeps
its dependency, so that the two end to end are what `RecallsAreOfTheDep` says. An
inspection has the base score of its evidence, a number since the sets are finite
(`ScoreIsNumber`), or the cap (`InspectionsAreModest`). A file that imports a
symbol has its local name among its identifiers, so the index over all files
lists it (`SitesAreListed`). There is one lemma for each other kind of question.
Two assumptions: questions have the form of `Question`, their type, and the
ranked files are distinct, as the set `seen` of `runner.ts:615` makes them.

**ReaderProofs.** `ListsAreRead` speaks of the result of a loop, and one step of
the loop cannot be shown to keep it: whether the next line counts depends on
variables the property does not mention. So each reader has an invariant that
says what its variables hold of the lines read so far. For requirements.txt that
is `ReadsLast` (each name has the range of the last line that declares it); a
Pipfile adds that `in` tells whether the last header is [packages]; pyproject.toml
what mode and buffer hold of the array under way; go.mod which block is open, if
any; Cargo.toml whether [dependencies] is above. An answer has the hardest one
(`AnswerInv`): the blocks in the list stand in the text one after another, all
above the line at which the block now open began; that block is so far what
stands below it, and its path the last line above it; in a well-formed answer
every complete block is among them. Of the hosts as many were accepted and
rejected as there were entries, and those accepted are distinct; of a workspace
the directories seen are those of the patterns expanded so far. `ReaderInv` has
the case of the kind at hand, one lemma per loop shows that a round keeps it
(`ReaderStep`), and `ListsAreRead` follows. The proof assumes of the lines only
their form (`FormOf`), and of a repository that its directories are a tree
(`Repo`).

**LearningLoopProofs.** `IInv` adds to the properties what a poll holds at each
`pc` (`PollInv`): its rows are of one pull request, the outcome was true of it
when fetched, and at `resolve` the rejection is on record. Others cannot undo
that (`World`: merged stays merged, `wasClosed` grows, a record keeps its pull
request). It gives `TypeOK`, `ResolutionsAreTrue` and `NoLessonLost` with every
fault; `DuplicatesNeedOverlap` follows from `SingleInv`, by which a pull request
without overlap has at most one record and one writer, and a writer that will
create has seen no record.

**Checked by a proof alone**, since a proof covers every instance: type
correctness of the six modules that have a type invariant of their own,
`EmitterCoversRun`, `QuietAfterTerminal`, `PrsOpenedExact`, `FloorNeverReached`,
`StandardIsVerified`, `AutoMergeNeverFires`.

**Only model-checked**: the liveness properties (`EveryScanSettles`,
`EarlyStreamsEnd`, `EmittersReleased`, `EveryFireEnds`, `EveryCloseIsLearned`,
`EarlyPageSettles`), since fairness and ENABLED are out of the prover's reach;
and `ChangesAreExact` and `RecordsAreShown`: they compare sums, selections and
concatenations over sequences that one call makes and consumes (windows of a
text, tables of exports, counts of a summary), and what those are for inputs of
every size would need induction over data, which the provers cannot do. A loop
over an input escapes that only because it can be run as the steps of a
specification, as in `Readers`.

---------------------------------------------------------------------------

## 5. Where code and documentation disagree

With a run that shows it; the lines that the code contradicts are quoted under
`findings` in PROJECT.json:

- `sandbox_install` (`TestsSeeTheInstall`): phase A of a repository with a lockfile
  installs into the cache volume and returns its name; phases B and C mount
  `volumeName(...)` (`runner.ts:698`), which Docker then creates empty. A TypeScript
  repository fails its type check, a JavaScript one passes unseen, since only
  `typecheckPassed` counts.
- `scan_cancel_between_phases` (`NoDeliveryAfterCancel`): a cancel takes effect at
  the top of the next iteration only, not at the next phase. A scan cancelled
  during DIAGNOSE goes on to patch, verify, push and open its pull request.
- `scan_duplicate_pr` (`OnePRPerDep`): two scans of one repository both find no
  pull request and both open one.
- `safe_upgrades_merge` (`SafeUpgradesMerge`): the envelope asks for silent signals
  and a score of 90, and silent signals score 75 at most (`score.ts:322`): no
  upgrade is ever merged, although `README.md:65` promises it for the safe ones.
  That none is, is proved (`AutoMergeNeverFires`).

With a formula in a module, under a comment "Not true of the code" or, for
`CleanPRs` and `ForeignPRsWelcome`, as a run checks it but with one more fault. TLC
finds each of them violated when it stands in the place of the properties in the
configuration named here, with the change in brackets:

| Formula | Configuration | What the code does |
|---|---|---|
| `IssueLinksOwnPR` | `ScanRunner_single` | the match by containment links the pull request of `react-dom` to `react` (`github/index.ts:129`) |
| `CleanPRs` | `ScanRunner_single` (add "reset" to `Faults`) | a failed `git reset` is logged and the next pull request contains the patch of the dependency before (`runner.ts:499`) |
| `UnverifiedIsDraft` | `SubmissionPolicy_gate` | with a threshold from 40 to 50 an upgrade whose verification failed is opened ready for review (`threshold.ts:45`) |
| `ForeignPRsWelcome` | `SubmissionPolicy_gate` (add "access" to `Disturbances`) | push access lost during a scan makes `submitDraftPR` open a fork pull request under the rules for the user's own repositories (`submit.ts:169`) |
| `HitsArePopulated` | `Sandbox_cache` | a cache volume that exists is a hit, also while its install is running or after it failed (`executor.ts:133`) |
| `ActiveVolumesStay` (a PROPERTY) | `Sandbox_cache` | an eviction keeps the volume of its own scan only and removes that of another one between two of its phases (`cache-eviction.ts:279`) |
| `NoVolumeIsLeft` | `Sandbox_cache` | teardown is in the success branch of phase A only (`runner.ts:743`, against `provider.ts:88`), so failed installs without a lockfile leave their volumes |
| `FinishedPageIsComplete` | `ScanView_page` | the server has no emitter for a scan of the monitor worker or the MCP server and tells the page that it is done (`stream/route.ts:33`); the page reads the row once and never shows what is stored later |
| `FailedRendersError` | `ScanView_page` | the runner sends the error before it writes the row, and the page reads the row as soon as the error has ended its stream: a failed scan is shown as DONE (`runner.ts:1020`, against `use-scan-view.ts:206`) |
| `EnablingIsMeant` | `Parts` (`OnlyPanel`) | the answer to a save that arrives after another load replaces the form, and the tick given for the other repository then enables the first (`AutoMergePanel.tsx:129`) |
| `AckIsInformed` | `Parts` (`OnlyForm`) | typing clears neither the preview nor the box: a box ticked under the preview of one repository is posted with the next (`scan/new/page.tsx:210`) |
| `PreviewIsOfThisRepo` | `Parts` (`OnlyForm`) | a preview request that is lost leaves the preview of the repository before (`:197`) |
| `TotalShowsOverflow` | `Parts` (`OnlyMcp`) | `total` and rows of a list are of two moments (`tools.ts:170`), and a full page may miss a scan that the total does not tell of |
| `PreflightKeepsItsWord` | `Parts` (`OnlyFork`) | the pre-flight guesses from the scopes of the token that it may fork, and GitHub refuses after the analysis (`github/index.ts:378`); `ensureFork` also reuses a fork it cannot push to (`:357`) |
| `NotOkIsNotMerged` | `Parts` (`OnlyFork`) | a merge whose answer is lost is reported as refused (`github/index.ts:507`) |
| `CrashesAreNoBoots` | `Parts` (`OnlyVerdicts`) | an app that prints a ready line and then fails has booted (`smoke.ts:151`, against `:142`) |
| `FailedReadsAreUnknown` | `Parts` (`OnlyVerdicts`) | a preview that could not read a file keeps its default and decides all the same (`eligibility-preview.ts:184`, against `:15`) |
| `LinksNameTheDep` | `Parts` (`OnlyVerdicts`) | an issue is linked when its text contains the name of the dependency anywhere, and is closed with the pull request (`issue-link.ts:35`, against `:21`) |
| `RejectionsBlock` | `Parts` (`OnlyVerdicts`) | rejections found by polling have no change type and never reach rule five of the envelope (`runner-glue.ts:232`, against `TRD.md:537`); an update resets it as well (`rejection-recorder.ts:104`) |
| `AllStaleAreTold` | `Parts` (`OnlyReaders`) | Go dependencies are never stale (`go.ts:279`), and Rust ranges with a mark are not either (`rust.ts:427`) |
| `AllItemsAreRead` | `Parts` (`OnlyReaders`) | the array of pyproject.toml ends at the bracket of an extra (`python.ts:152`, against `:12`) |
| `AllTablesAreRead` | `Parts` (`OnlyReaders`) | tables `[dependencies.name]` of Cargo.toml are dropped (`rust.ts:131`, against `:128`) |

`OnlyPanel` and its like take the place of `Spec` after SPECIFICATION. As long as
the tests mount another volume than the cache's, what is said of hits and
evictions does not reach a test.

Seen while modelling, without a formula of its own. *Scans and monitor*:

- The write of the start row stands outside the try block (`monitor.ts:190`): when
  it rejects, the slot is lost for the life of the worker (the exception in
  `SlotsHeld`).
- A stream opened in the 30 s after the terminal event finds an emitter that
  will not emit again, and never ends (`stream/route.ts:52`).
- `lastFiredAt` is written after a successful scan only, so two fires of a
  schedule can be closer than MIN_GAP_SECONDS (`monitor.ts:215`,
  `scheduler.ts:17`); `GapAfterSuccess` is what remains.
- A crash leaves rows queued or running for ever.
- A failed scan counts as a successful fire, since `runScan` never rejects
  (`monitor.ts:211`); a token that cannot be decrypted leaves no log row
  (`:188`); the signal handler exits without waiting for writes (`:96`);
  schedules are read at start-up only (`:91`).
- The tier "skip" of the threshold cannot be reached: no score is below 48.
- The key of a cache volume does not contain package.json, which the patch changes,
  and a hit may be evicted before it is mounted. An eviction writes back the ledger
  it read before its Docker commands, and loses the stamps of the scans in between
  (`cache-eviction.ts:286`); failed installs grow the cache without an eviction.

*Page and forms*:

- `notFound()` for an unknown scan throws inside a promise whose catch swallows
  it (`use-scan-view.ts:171`); a page opened in the 30 s after the end stays
  "live".
- A token revoked while its save is pending is stored again
  (`settings/page.tsx:203`).
- Typing in the scan form while a scan is starting enables the button again:
  two scans (`scan/new/page.tsx:313`).
- `PUT` of a schedule reads and writes without a transaction
  (`monitor-schedules/.../route.ts:144`): it stores again what another tab has
  deleted or replaced.
- At the very end of a window the limiter refuses and says to retry after 0
  seconds (`rate-limit.ts:52`).

*Learning and GitHub*:

- `classifyPollError` never says "network" (`github/index.ts:538`).
- A directory named CONTRIBUTING.md is a file for the gate and none for the
  preview.

*Patching and views*:

- A second block in a row without a line for its path is dropped, and so is
  one that is not closed (`search-replace.ts:85`); a SEARCH of blanks matches an
  empty line; a block whose fuzzy match leaves an empty file is counted as failed
  (`:159`).
- Full-file regeneration shows the model 8000 characters and writes the answer
  as the whole file (`full-file.ts:119`, `:137`).
- The version bump rewrites every `"name": "value"` of that name, and a manifest
  without the entry counts as patched (`full-file.ts:59`, `runner.ts:648`).
- The diff of an issue is always one of package.json with "^latest", also for
  other languages and pinned versions (`issue-vm.ts:56`).
- Equal versions are refused with 400 where the route's comment says 422
  (`inspect/route.ts:11`, `:57`; `EqualVersionsAre422`).
- The bench accepts a release that has dropped a fixture which passed
  (`scoring.ts:178` asks for that; `NoFixtureIsDropped`).

*Manifests and signals*:

- The header of an array of tables of Cargo.toml, `[[bin]]`, is none for the parser
  (`rust.ts:130`): the lines below it count as entries of the section above it;
  a poetry table without a version is skipped (`python.ts:190`).
- Tags of releases are compared as strings, without an upper bound
  (`changelog.ts:67`).
- A new version that cannot be parsed reads as one whose exports were all
  removed (`semantic-diff.ts:717`); two aliases of one name in a file are mixed
  up (`:743`); a download that outlives its timeout recreates the directory
  that was removed (`:159`); a coverage of 99.5 is shown as 100.

*Workspaces and tools*:

- Unindented items and flow lists of pnpm-workspace.yaml are dropped in silence
  (`detect.ts:74`, `:93`); a pattern with a trailing slash lists a package twice
  (`:179`); there may be no package at all, against `:48`.
- "already at" contains "ready at" (`smoke.ts:49`); `bin: null` throws (`:105`).
- Without tsconfig and tests verification passes although nothing was checked
  (`README.md:65`); jest without a script is a runner without a command; npm
  repositories run `npx exec vitest run` (`sandbox/detect.ts:98`).

---------------------------------------------------------------------------

## 6. What is not modelled, and the plan

Left out for good: rendering, build files, firewall scripts and images, texts
of prompts and pull requests (wording), the protocols of registries, providers
and MCP (external; their outcomes are inputs of the models), the TypeScript
parser and checker, embeddings beyond their comparison, the grammar of cron,
and the gate scripts, which print a report for a person.

Left out so far: the rows of a workspace's packages in one scan, the dwell of
the auto-merge gate (never reached), setup.py beyond its presence, the joining of
the dependencies of several Python manifests (`python.ts:285`; the first one that
names a dependency decides), `docker system df`.

To come, in proofs: the application of SEARCH/REPLACE blocks to a text
(`Blocks!ApplyBlocks`) as a loop in the manner of `Readers`, with the invariant
that the text so far differs from the original in the blocks applied; the same
for the export tables of `Signals`; and that a chain of accepted releases has
accepted ends (`Reports!BenchIsHonest`) for every bench.
