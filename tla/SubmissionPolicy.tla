-------------------------- MODULE SubmissionPolicy --------------------------
(***************************************************************************)
(* What a scan decides about one upgrade after another: verification,      *)
(* score, threshold and eligibility gates, the pull request and the        *)
(* auto-merge gate (runner.ts from VERIFY to PERSIST, eligibility.ts,      *)
(* automerge/policy.ts and automerge/runner-glue.ts).                      *)
(*                                                                         *)
(* The upgrades of a scan are handled one at a time.  Between any two      *)
(* awaits the user may save the settings of the repository or record a     *)
(* rejection, and the owner of the repository may change who can push.     *)
(***************************************************************************)
EXTENDS Confidence

CONSTANTS
  Symbols,      \* exported symbols of the dependency
  Coverages,    \* values of coveragePercent of a diff that ran
  Thresholds,   \* values of options.confidenceThreshold
  Ceilings,     \* the maxBucket of the language adapters
  BumpKinds,    \* results of classifyVersionBump
  BreakTypes,   \* changeType of a breaking change of the changelog
  Floors,       \* values of autoMergeConfidenceFloor
  Disturbances  \* what else may happen: "db", "access"

ASSUME SymbolsAssumption    == IsFiniteSet(Symbols)
ASSUME CoveragesAssumption  == Coverages \subseteq Percent
ASSUME ThresholdsAssumption == Thresholds \subseteq Nat
ASSUME CeilingsAssumption   == Ceilings \subseteq Buckets
ASSUME BumpKindsAssumption  ==
  BumpKinds \subseteq {"patch", "minor", "major", "prerelease", "unknown"}
ASSUME FloorsAssumption       == Floors \subseteq Percent
ASSUME DisturbancesAssumption == Disturbances \subseteq {"db", "access"}

VARIABLES
  pc,          \* the await the runner is suspended at
  scan,        \* what is fixed when the scan starts
  dep,         \* bump kind and change type of the upgrade
  changelog,   \* symbols the changelog flags
  diff,        \* result of the semantic diff
  installed,   \* Phase A succeeded
  verified,    \* verificationPassed
  smoke,       \* smokePassed
  score,       \* the confidence score
  pr,          \* the pull request prUrl leads to
  issue,       \* the Issue row exists
  seen,        \* the RepoSetting row the gate read
  verdict,     \* the rules the upgrade breaks, as evaluated
  audit,       \* the automerge.verdict row of AgentLog
  outcome,     \* Issue.autoMerge
  dbFailed,    \* a write for this upgrade was rejected
  setting,     \* the RepoSetting row
  rejections,  \* changeTypes of the RejectionPattern rows of the dependency
  push         \* the account can push to the repository

signalVars == <<dep, changelog, diff>>
verifyVars == <<installed, verified, smoke>>
gateVars   == <<seen, verdict, audit, outcome>>
worldVars  == <<setting, rejections, push>>
vars == <<pc, scan, signalVars, verifyVars, score, pr, issue, gateVars,
          dbFailed, worldVars>>

ChangeTypes == BreakTypes \union {"version-bump"}

NoScore == [overall |-> 0, bucket |-> "none"]
NoDep   == [bump |-> "none", changeType |-> "none"]
NoPR    == [kind |-> "none", draft |-> FALSE, fork |-> FALSE]
NoRow   == [enabled |-> FALSE, floor |-> 90]
Unset   == {"unset"}

PRs      == [kind : {"none", "existing", "opened"}, draft : BOOLEAN,
             fork : BOOLEAN]
Settings == [enabled : BOOLEAN, floor : Percent]

PCs == {"idle", "signals", "patched", "installed", "tested", "score",
        "submit", "persist", "setting", "history", "log", "dwell", "store",
        "done"}
-----------------------------------------------------------------------------
(***************************************************************************)
(* Contribution eligibility.                                               *)
(***************************************************************************)
Eligibility == [decision : {"owned", "external", "blocked"},
                canOpenPRs : BOOLEAN]

DecideEligibility(owns, automated, redFlag, ack) ==
  IF owns THEN [decision |-> "owned", canOpenPRs |-> TRUE]
  ELSE IF automated \/ redFlag
       THEN [decision |-> "blocked", canOpenPRs |-> FALSE]
  ELSE [decision |-> "external", canOpenPRs |-> ack]

\* An external repository gets drafts as well.
BugGateAllows(eligibility, mode) ==
  /\ mode # "skip"
  /\ eligibility.canOpenPRs

GateAllows(eligibility, mode) ==
  /\ mode # "skip"
  /\ \/ eligibility.decision = "owned"
     \/ /\ eligibility.decision # "blocked"
        /\ eligibility.canOpenPRs
        /\ mode = "standard"
        /\ verified

(***************************************************************************)
(* The auto-merge policy.  A rule of evaluateAutoMerge pushes its reason   *)
(* when it does not hold; Reasons are the names of those that do not.      *)
(***************************************************************************)
SemanticBreaks(d) == d.broken

\* computeSignalsAgree: deprecations are no breaking changes here.
SignalsAgree == diff.ran /\ changelog = SemanticBreaks(diff)

EffectiveFloor(floor) ==
  LET hard == IF floor >= 90 THEN floor ELSE 90
      user == ResolveThreshold(scan.threshold)
  IN IF user >= hard THEN user ELSE hard

\* hasRejectionHistory: a row for this dependency and kind of change.
HasHistory == dep.changeType \in rejections

Envelope ==
  [ enabled       |-> seen.enabled,
    mergeRights   |-> scan.owns,
    allowedBump   |-> dep.bump \in {"patch", "minor"},
    noChangelog   |-> changelog = {},
    diffRan       |-> diff.ran,
    noDiffBreaks  |-> SemanticBreaks(diff) = {},
    signalsAgree  |-> SignalsAgree,
    aboveFloor    |-> score.overall >= EffectiveFloor(seen.floor),
    highBucket    |-> score.bucket = "high",
    verified      |-> verified,
    booted        |-> smoke = "booted",
    noHistory     |-> ~HasHistory ]

Rules == {"enabled", "mergeRights", "allowedBump", "noChangelog", "diffRan",
          "noDiffBreaks", "signalsAgree", "aboveFloor", "highBucket",
          "verified", "booted", "noHistory"}

\* Signals that agree are enough, whatever they agree on.
BugReasons == {rule \in Rules \ {"noChangelog", "noDiffBreaks"} :
                 ~Envelope[rule]}

Reasons == {rule \in Rules : ~Envelope[rule]}
-----------------------------------------------------------------------------
TypeOK ==
  /\ pc \in PCs
  /\ scan \in [threshold : Nat, ceiling : Buckets, owns : BOOLEAN,
               eligibility : Eligibility]
  /\ dep.bump \in BumpKinds \union {"none"}
  /\ dep.changeType \in ChangeTypes \union {"none"}
  /\ changelog \in SUBSET Symbols
  /\ diff \in Diff(Symbols)
  /\ installed \in BOOLEAN
  /\ verified \in BOOLEAN
  /\ smoke \in Smoke
  /\ score.overall \in Percent
  /\ score.bucket \in Buckets \union {"none"}
  /\ pr \in PRs
  /\ issue \in BOOLEAN
  /\ seen \in Settings
  /\ verdict \in SUBSET Rules
  /\ audit \in (SUBSET Rules) \union {Unset}
  /\ outcome \in (SUBSET Rules) \union {Unset}
  /\ dbFailed \in BOOLEAN
  /\ setting \in Settings
  /\ rejections \in SUBSET ChangeTypes
  /\ push \in BOOLEAN

Init ==
  /\ pc = "idle"
  /\ scan = [threshold |-> 70, ceiling |-> "high", owns |-> FALSE,
             eligibility |-> DecideEligibility(FALSE, FALSE, FALSE, FALSE)]
  /\ dep = NoDep
  /\ changelog = {}
  /\ diff = NoDiff
  /\ installed = FALSE
  /\ verified = FALSE
  /\ smoke = "none"
  /\ score = NoScore
  /\ pr = NoPR
  /\ issue = FALSE
  /\ seen = NoRow
  /\ verdict = {}
  /\ audit = Unset
  /\ outcome = Unset
  /\ dbFailed = FALSE
  /\ setting = NoRow
  /\ rejections = {}
  /\ push \in BOOLEAN

Goto(from, to) == pc = from /\ pc' = to
-----------------------------------------------------------------------------
(***************************************************************************)
(* The scan.                                                               *)
(***************************************************************************)
\* The capability pre-flight and assessContributionEligibility: ownership
\* is what the account could push to at this moment.
StartScan ==
  /\ Goto("idle", "signals")
  /\ \E threshold \in Thresholds, ceiling \in Ceilings,
        automated, redFlag, ack \in BOOLEAN :
       scan' = [threshold   |-> threshold,
                ceiling     |-> ceiling,
                owns        |-> push,
                eligibility |->
                  DecideEligibility(push, automated, redFlag, ack)]
  /\ UNCHANGED <<signalVars, verifyVars, score, pr, issue, gateVars,
                 dbFailed, worldVars>>

\* The changelog and the semantic diff, in parallel; one that fails returns
\* the empty list, or null.  A symbol that is broken and newly deprecated
\* counts as broken.  The rejections are those of this dependency.
CollectSignals ==
  /\ Goto("signals", "patched")
  /\ changelog' \in SUBSET Symbols
  /\ \/ diff' = NoDiff
     \/ \E broken \in SUBSET Symbols, c \in Coverages :
          \E deprecated \in SUBSET (Symbols \ broken) :
            diff' = [ran |-> TRUE, broken |-> broken,
                     deprecated |-> deprecated, coverage |-> c]
  /\ \E bump \in BumpKinds, type \in BreakTypes :
       dep' = [bump |-> bump,
               changeType |-> IF changelog' = {} THEN "version-bump"
                                                 ELSE type]
  /\ rejections' \in SUBSET ChangeTypes
  /\ UNCHANGED <<scan, verifyVars, score, pr, issue, gateVars, dbFailed,
                 setting, push>>

\* The loop goes on with the next upgrade when no file could be patched.
NoPatches ==
  /\ Goto("patched", "done")
  /\ UNCHANGED <<scan, signalVars, verifyVars, score, pr, issue, gateVars,
                 dbFailed, worldVars>>

\* Phase A.
RunInstall ==
  /\ \/ Goto("patched", "installed") /\ installed' = TRUE
     \/ Goto("patched", "score") /\ UNCHANGED installed
  /\ UNCHANGED <<scan, signalVars, verified, smoke, score, pr, issue,
                 gateVars, dbFailed, worldVars>>

\* Phase B.
RunTest ==
  /\ \/ Goto("installed", "tested") /\ verified' = TRUE
     \/ Goto("installed", "score") /\ UNCHANGED verified
  /\ UNCHANGED <<scan, signalVars, installed, smoke, score, pr, issue,
                 gateVars, dbFailed, worldVars>>

\* Phase C, for a verified patch: not asked for or not attempted, or tried.
RunSmoke ==
  /\ Goto("tested", "score")
  /\ smoke' \in Smoke
  /\ UNCHANGED <<scan, signalVars, installed, verified, score, pr, issue,
                 gateVars, dbFailed, worldVars>>

\* The score, the threshold and the eligibility gate, without an await.
ScoreAndGate ==
  LET confidence ==
        CalculateConfidence(changelog, diff, verified, smoke, scan.ceiling)
      mode == ChooseSubmissionMode(confidence.overall, scan.threshold)
  IN /\ pc = "score"
     /\ score' = confidence
     /\ pc' = IF installed /\ GateAllows(scan.eligibility, mode)
              THEN "submit"
              ELSE "persist"
     /\ UNCHANGED <<scan, signalVars, verifyVars, pr, issue, gateVars,
                    dbFailed, worldVars>>

\* submitDraftPR links an open pull request of this dependency, opens a new
\* one, through a fork if the account cannot push now, or throws.
SubmitDraftPR ==
  /\ Goto("submit", "persist")
  /\ \/ \E draft, fork \in BOOLEAN :
          pr' = [kind |-> "existing", draft |-> draft, fork |-> fork]
     \/ pr' = [kind |-> "opened",
               draft |-> ChooseSubmissionMode(score.overall, scan.threshold)
                           = "draft",
               fork |-> ~push]
     \/ UNCHANGED pr
  /\ UNCHANGED <<scan, signalVars, verifyVars, score, issue, gateVars,
                 dbFailed, worldVars>>

\* The Issue row; without a pull request there is nothing to merge.
PersistIssue ==
  /\ pc = "persist"
  /\ issue' = TRUE
  /\ pc' = IF pr.kind = "none" THEN "done" ELSE "setting"
  /\ UNCHANGED <<scan, signalVars, verifyVars, score, pr, gateVars,
                 dbFailed, worldVars>>
-----------------------------------------------------------------------------
(***************************************************************************)
(* The auto-merge gate, runAutoMergeFor.                                   *)
(***************************************************************************)
\* gatherAutoMergeInput reads the row of the repository first ...
ReadSetting ==
  /\ Goto("setting", "history")
  /\ seen' = setting
  /\ UNCHANGED <<scan, signalVars, verifyVars, score, pr, issue, verdict,
                 audit, outcome, dbFailed, worldVars>>

\* The log row is written on the way to a merge only.
BugEvaluate ==
  /\ pc = "history"
  /\ verdict' = Reasons
  /\ pc' = IF Reasons = {} THEN "log" ELSE "store"
  /\ UNCHANGED <<scan, signalVars, verifyVars, score, pr, issue, seen, audit,
                 outcome, dbFailed, worldVars>>

\* ... then the rejections, and the policy is evaluated.
Evaluate ==
  /\ Goto("history", "log")
  /\ verdict' = Reasons
  /\ UNCHANGED <<scan, signalVars, verifyVars, score, pr, issue, seen, audit,
                 outcome, dbFailed, worldVars>>

\* The log row; a merge would begin its dwell time here.
LogVerdict ==
  /\ pc = "log"
  /\ audit' = verdict
  /\ pc' = IF verdict = {} THEN "dwell" ELSE "store"
  /\ UNCHANGED <<scan, signalVars, verifyVars, score, pr, issue, seen,
                 verdict, outcome, dbFailed, worldVars>>

\* persistTerminalOutcome of a skipped merge.
StoreOutcome ==
  /\ Goto("store", "done")
  /\ outcome' = verdict
  /\ UNCHANGED <<scan, signalVars, verifyVars, score, pr, issue, seen,
                 verdict, audit, dbFailed, worldVars>>

\* A query of the Issue row or of the gate rejects: it is logged, and the
\* loop goes on.
DatabaseRejects ==
  /\ "db" \in Disturbances
  /\ pc \in {"persist", "setting", "history", "log", "store"}
  /\ pc' = "done"
  /\ dbFailed' = TRUE
  /\ UNCHANGED <<scan, signalVars, verifyVars, score, pr, issue, gateVars,
                 worldVars>>

\* The next upgrade of this scan, or the end of the scan.  The loop body
\* declares everything about an upgrade anew.
NextUpgrade ==
  /\ \/ Goto("done", "signals")
     \/ Goto("done", "idle")
  /\ dep' = NoDep
  /\ changelog' = {}
  /\ diff' = NoDiff
  /\ installed' = FALSE
  /\ verified' = FALSE
  /\ smoke' = "none"
  /\ score' = NoScore
  /\ pr' = NoPR
  /\ issue' = FALSE
  /\ seen' = NoRow
  /\ verdict' = {}
  /\ audit' = Unset
  /\ outcome' = Unset
  /\ dbFailed' = FALSE
  /\ UNCHANGED <<scan, worldVars>>
-----------------------------------------------------------------------------
(***************************************************************************)
(* What others do meanwhile.                                               *)
(***************************************************************************)
\* PUT /api/repo-settings creates or replaces the row.
SaveSetting ==
  /\ \E enabled \in BOOLEAN, floor \in Floors :
       setting' = [enabled |-> enabled, floor |-> floor]
  /\ UNCHANGED <<pc, scan, signalVars, verifyVars, score, pr, issue,
                 gateVars, dbFailed, rejections, push>>

\* POST /api/rejections for this dependency.
RecordRejection ==
  /\ \E type \in ChangeTypes : rejections' = rejections \union {type}
  /\ UNCHANGED <<pc, scan, signalVars, verifyVars, score, pr, issue,
                 gateVars, dbFailed, setting, push>>

\* On GitHub the account becomes, or ceases to be, a collaborator.
ChangeAccess ==
  /\ "access" \in Disturbances \/ pc = "idle"
  /\ push' = ~push
  /\ UNCHANGED <<pc, scan, signalVars, verifyVars, score, pr, issue,
                 gateVars, dbFailed, setting, rejections>>

Next ==
  \/ StartScan \/ CollectSignals \/ NoPatches
  \/ RunInstall \/ RunTest \/ RunSmoke
  \/ ScoreAndGate \/ SubmitDraftPR \/ PersistIssue
  \/ ReadSetting \/ Evaluate \/ LogVerdict \/ StoreOutcome
  \/ DatabaseRejects \/ NextUpgrade
  \/ SaveSetting \/ RecordRejection \/ ChangeAccess

Spec == Init /\ [][Next]_vars
-----------------------------------------------------------------------------
(***************************************************************************)
(* Properties.                                                             *)
(***************************************************************************)
Scored == score # NoScore

\* The bucket shown with a score is the one of the number shown, and never
\* above the ceiling of the adapter: caps and ceiling change both together.
BucketMatchesScore ==
  Scored => /\ score.bucket = BucketFromScore(score.overall)
            /\ scan.ceiling # "high" => score.bucket # "high"
            /\ scan.ceiling = "low" => score.bucket = "low"

\* An upgrade that was not verified, or did not boot, is in the low bucket,
\* however much its signals agree (README: "regardless of detection
\* confidence"); that holds for a failed install too.
FailedEvidenceIsLow ==
  Scored /\ (~verified \/ smoke = "failed") => score.bucket = "low"

\* The floor of the submission gate is never reached: whatever the signals
\* say, no score is below it and no upgrade is skipped for its score.
FloorNeverReached == Scored => score.overall >= SubmissionFloor

\* Confirming a changelog symbol in the semantic diff never lowers a score.
AgreementNeverHurts ==
  Scored /\ diff.ran =>
    \A s \in changelog \ Flagged(diff) :
      CalculateConfidence(
        changelog, [diff EXCEPT !.broken = @ \union {s}],
        verified, smoke, scan.ceiling).overall >= score.overall

\* A pull request that is opened ready for review has passed its tests and
\* did not fail to boot, if the threshold is above the cap.
StandardIsVerified ==
  /\ pr.kind = "opened"
  /\ ~pr.draft
  /\ scan.threshold > VerifyFailCap
  => installed /\ verified /\ smoke # "failed"

\* "PR will open as Draft with verification warning" when the tests of Phase B
\* have failed.  Not true of the code, whose threshold may be below the cap of an
\* unverified upgrade.
UnverifiedIsDraft ==
  pr.kind = "opened" /\ installed /\ ~verified => pr.draft

\* A pull request from a fork, so into a repository of others, is one that
\* was agreed to, is verified and is no draft (eligibility.ts: "Never a
\* low-confidence draft on a stranger's repo").  Not true of the code if push
\* access is lost between the gate and the submission.
ForeignPRsWelcome ==
  pr.kind = "opened" /\ pr.fork =>
    /\ scan.eligibility.decision = "external"
    /\ scan.eligibility.canOpenPRs
    /\ verified
    /\ ~pr.draft

\* What the code does instead of SafeUpgradesMerge below: no upgrade is ever
\* merged, since without a breaking change in either signal at most deprecations
\* are scored, and the score stays below the floor of 90.
AutoMergeNeverFires ==
  /\ pc \in {"log", "store"} => verdict # {}
  /\ pc # "dwell"

\* The outcome stored with an issue has its log row, with the same reasons,
\* and a gate none of whose queries was rejected leaves both.
VerdictIsAudited ==
  /\ outcome # Unset => audit = outcome
  /\ pc = "done" /\ pr.kind # "none" /\ ~dbFailed =>
       issue /\ outcome # Unset

\* "Auto-merge the safe ones": the safest upgrades there are, opted in, patch or
\* minor, both signals complete and silent, tested and booted, never rejected,
\* nothing stricter configured, pass the envelope and are merged.  Not true of
\* the code, see AutoMergeNeverFires.
SafeUpgradesMerge ==
  /\ pc = "log"
  /\ seen.enabled /\ scan.owns /\ EffectiveFloor(seen.floor) = 90
  /\ dep.bump \in {"patch", "minor"}
  /\ changelog = {} /\ Flagged(diff) = {}
  /\ diff.ran /\ diff.coverage >= CoverageHigh
  /\ verified /\ smoke = "booted" /\ scan.ceiling = "high"
  /\ rejections = {}
  => verdict = {}
=============================================================================
