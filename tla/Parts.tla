------------------------------- MODULE Parts --------------------------------
(***************************************************************************)
(* The parts of Mendel that share no state with one another, ten with a    *)
(* state and the verdicts, which have none, and what each of them promises.*)
(* MCParts checks them on small instances, PartsProofs proves the promises.*)
(***************************************************************************)
EXTENDS HostLimits, Sequences

CONSTANTS
    Messages, MaxSchemaRetries,                             \* LlmClient
    Presets, Window, Ips, MaxClock,                         \* RateLimiter
    PanelRepos, Floors, MaxPanelSteps,                      \* AutoMergePanel
    Tabs, Pats, MaxScheduleSteps,                           \* MonitorSchedules
    Tokens, MaxTokenSteps,                                  \* TokenSession
    FormRepos, Verdict, Hosts, SavedHosts, MaxFormSteps,    \* ScanForm
    Calls, Asked, PageSize, MaxScans, Issues,               \* McpServer
    MaxPolls, MaxChanges,                                   \* ForkDelivery
    RankedFiles, FileKind, IssueBudget, FileEstimate,
    BlocksCost,                                             \* Patching
    Questions                                               \* Verdicts

VARIABLES
    llmAt, schemaAttempt, transientRetries, lastError, wait, requests, waited,
    clock, store, admitted,
    settings, picked, form, ack, loads, puts, acked, displaced, clicks,
    schedule, tab, call, moves,
    stored, field, hasToken, info, asked, live, proven, taps,
    typed, preview, job, loading, agreed, agreedTo, tier2, status, posts, page, keys,
    scans, calls,
    hub, delivery, capability, target, polls, changes,
    queue, at, attempt, disk, patches, spent,
    task

Llm == INSTANCE LlmClient
Rate == INSTANCE RateLimiter
Panel == INSTANCE AutoMergePanel
Schedules == INSTANCE MonitorSchedules
Session == INSTANCE TokenSession
Form == INSTANCE ScanForm
Mcp == INSTANCE McpServer
Fork == INSTANCE ForkDelivery
Patch == INSTANCE Patching
Judge == INSTANCE Verdicts

\* What the parts assume of their constants.
ASSUME PartsAssumption ==
    /\ Llm!LlmAssumption /\ Rate!RateAssumption /\ Panel!PanelAssumption
    /\ Schedules!ScheduleAssumption /\ Session!TokenAssumption /\ Form!FormAssumption
    /\ Mcp!McpAssumption /\ Fork!ForkAssumption /\ Patch!PatchingAssumption
    /\ Judge!VerdictAssumption

llmState == <<llmAt, schemaAttempt, transientRetries, lastError, wait, requests, waited>>
rateState == <<clock, store, admitted>>
panelState == <<settings, picked, form, ack, loads, puts, acked, displaced, clicks>>
schedulesState == <<schedule, tab, call, moves>>
sessionState == <<stored, field, hasToken, info, asked, live, proven, taps>>
formState == <<typed, preview, job, loading, agreed, agreedTo, tier2, status, posts, page, keys>>
mcpState == <<scans, calls>>
forkState == <<hub, delivery, capability, target, polls, changes>>
patchState == <<queue, at, attempt, disk, patches, spent>>

LlmSpec == Llm!LlmInit /\ [][Llm!LlmNext]_llmState
RateSpec == Rate!RateInit /\ [][Rate!RateNext]_rateState
PanelSpec == Panel!PanelInit /\ [][Panel!PanelNext]_panelState
SchedulesSpec == Schedules!ScheduleInit /\ [][Schedules!ScheduleNext]_schedulesState
SessionSpec == Session!TokenInit /\ [][Session!TokenNext]_sessionState
FormSpec == Form!FormInit /\ [][Form!FormNext]_formState
McpSpec == Mcp!McpInit /\ [][Mcp!McpNext]_mcpState
ForkSpec == Fork!ForkInit /\ [][Fork!ForkNext]_forkState
PatchSpec == Patch!Init /\ [][Patch!Next]_patchState
VerdictSpec == Judge!VerdictInit /\ [][Judge!VerdictNext]_task

-----------------------------------------------------------------------------
(* What each part promises; see its module. *)

\* No mixture of errors makes a call to the model send or wait more than its
\* budget (lib/llm/index.ts), and no client gets more than twice the limit of a
\* preset into a window of time (rate-limit.ts).
BudgetsHold == Llm!CallBudgetHolds /\ Rate!RateHolds

\* What is set is what was meant: auto-merge is turned on for the repository
\* whose settings were seen and, but for a late answer, acknowledged, no schedule is stored without a
\* token, no token is shown that GitHub did not accept, and the form of a scan
\* shows the preview of the repository in it and posts hosts the server takes
\* (the settings, monitor and scan pages).
SettingsAreMeant ==
    /\ Panel!SavesAreAcknowledged
    /\ Schedules!SchedulesCanFire
    /\ Session!OnlyProvenTokens
    /\ Form!PreviewsAreFresh
    /\ Form!PostedHostsFit

\* A scan that passed the pre-flight is denied its delivery only by a change
\* at GitHub meanwhile, or when the pre-flight went by the scopes of the token
\* alone and these promised too much, and no branch is pushed to a fork GitHub
\* has not provisioned yet (lib/github/index.ts).
DeliveryIsPossible == Fork!DeliveryIsPossible

\* At every step of the PATCH phase the patches of an issue are the files that
\* differ, within its budget (runner.ts, lib/agent/patching/index.ts).
PatchesAreExact == Patch!PatchesAreTheDiff

\* An answer of the MCP server is whole although its queries are no snapshot
\* (lib/mcp/tools.ts).
AnswersAreWhole == Mcp!AnswersAreWhole

\* No verdict without its evidence: see Verdicts (lib/sandbox, lib/agent/lang,
\* eligibility-preview.ts, issue-link.ts).
VerdictsAreEarned == Judge!VerdictsAreEarned
=============================================================================
