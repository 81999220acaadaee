---------------------------- MODULE ForkDelivery ----------------------------
(***************************************************************************)
(* How a branch reaches the repository (lib/github/index.ts and            *)
(* submitDraftPR in phases/submit.ts): the pre-flight that decides whether *)
(* the token can deliver at all, and, a scan later, the choice between     *)
(* upstream and fork, the fork and the wait for it, the push, the pull     *)
(* request, and its merge.  GitHub changes in between as its users like,   *)
(* and its answers may get lost.                                           *)
(***************************************************************************)
EXTENDS Naturals

CONSTANTS
    MaxPolls,    \* 15, in ensureFork
    MaxChanges   \* bounds what happens at GitHub on its own

ForkAssumption == MaxPolls \in Nat /\ MaxChanges \in Nat

VARIABLES
    hub,        \* GitHub: rights of the token, state of the fork, pull request
    delivery,   \* how far the scan is
    capability, \* what the pre-flight answered
    target,     \* where the branch was pushed
    polls, changes

forkVars == <<hub, delivery, capability, target, polls, changes>>

\* "other": a repository of the same name that is no fork of upstream; GitHub
\* then names the new fork differently.
ForkStates == {"none", "other", "provisioning", "ready"}
Hub == [push : BOOLEAN, scope : BOOLEAN, mayFork : BOOLEAN, fork : ForkStates,
        forkPush : BOOLEAN, pr : {"none", "open", "merged"}]

\* Whether GitHub creates a fork is not what the scopes of the token say: some
\* tokens without that header may fork, and a repository or its owner may forbid
\* it to one with the scope.
ForkInit ==
    /\ hub \in {h \in Hub : h.pr = "none" /\ h.fork # "provisioning"}
    /\ delivery = "preflight" /\ capability = "none" /\ target = "none"
    /\ polls = 0 /\ changes = 0

Go(to) == delivery' = to
Unchanged == UNCHANGED <<hub, capability, target, polls, changes>>

-----------------------------------------------------------------------------
(* Steps *)

\* assessSubmitCapability and decideSubmitCapability.
BugDecideSubmitCapability(push, forkPushable, canFork) ==
    IF push THEN "direct" ELSE "fork"
DecideSubmitCapability(push, forkPushable, canFork) ==
    IF push THEN "direct" ELSE IF forkPushable \/ canFork THEN "fork" ELSE "blocked"

Preflight ==
    /\ delivery = "preflight"
    /\ capability' = DecideSubmitCapability(hub.push, hub.fork = "ready" /\ hub.forkPush, hub.scope)
    /\ Go(IF capability' = "blocked" THEN "refused" ELSE "scan")
    /\ UNCHANGED <<hub, target, polls, changes>>

\* The scan has a patch; submitDraftPR asks again whether it may push.
CanPush ==
    /\ delivery = "scan"
    /\ target' = IF hub.push THEN "upstream" ELSE "fork"
    /\ Go(IF hub.push THEN "push" ELSE "fork")
    /\ UNCHANGED <<hub, capability, polls, changes>>

\* ensureFork: an existing fork is reused without asking for the push right.
ReuseFork == delivery = "fork" /\ hub.fork = "ready" /\ Go("push") /\ Unchanged

CreateFork ==
    /\ delivery = "fork" /\ hub.fork \in {"none", "other"} /\ hub.mayFork
    /\ hub' = [hub EXCEPT !.fork = "provisioning", !.forkPush = TRUE]
    /\ Go("poll") /\ polls' = 0
    /\ UNCHANGED <<capability, target, changes>>

ForkDenied ==
    /\ delivery = "fork" /\ hub.fork \in {"none", "other"} /\ ~hub.mayFork
    /\ Go("denied") /\ Unchanged

Ready == hub.fork = "ready"

Poll ==
    /\ delivery = "poll" /\ polls < MaxPolls
    /\ polls' = polls + 1 /\ Go(IF Ready THEN "push" ELSE "poll")
    /\ UNCHANGED <<hub, capability, target, changes>>

\* "Final attempt - let a genuine failure throw rather than silently proceed."
BugLastPoll == "push"
LastPoll == IF Ready THEN "push" ELSE "failed"

GiveUpPolling == delivery = "poll" /\ polls = MaxPolls /\ Go(LastPoll) /\ Unchanged

PushBranch ==
    /\ delivery = "push"
    /\ Go(IF (target = "upstream" /\ hub.push) \/ (target = "fork" /\ hub.forkPush)
          THEN "pushed" ELSE "denied")
    /\ Unchanged

\* createDraftPR opens the pull request upstream; the answer may get lost.
OpenPR ==
    /\ delivery = "pushed"
    /\ hub' = [hub EXCEPT !.pr = "open"]
    /\ delivery' \in {"opened", "failed"}
    /\ UNCHANGED <<capability, target, polls, changes>>

\* mergePullRequest: no error of the request is told from a refusal.
MergeRequest ==
    /\ delivery = "opened"
    /\ \/ /\ hub.pr = "open" /\ hub.push
          /\ hub' = [hub EXCEPT !.pr = "merged"]
          /\ delivery' \in {"merge ok", "merge not ok"}
       \/ hub' = hub /\ Go("merge not ok")
    /\ UNCHANGED <<capability, target, polls, changes>>

\* Any other request on the way rejects.
RequestFails ==
    /\ delivery \in {"preflight", "scan", "fork", "push", "pushed"}
    /\ Go("failed") /\ Unchanged

-----------------------------------------------------------------------------
(* GitHub *)

Provisioned ==
    /\ hub.fork = "provisioning" /\ hub' = [hub EXCEPT !.fork = "ready"]
    /\ UNCHANGED <<delivery, capability, target, polls, changes>>

RightsChange ==
    /\ changes < MaxChanges /\ changes' = changes + 1
    /\ \/ hub' = [hub EXCEPT !.push = ~@]
       \/ hub.fork = "ready" /\ hub' = [hub EXCEPT !.fork = "none"]
    /\ UNCHANGED <<delivery, capability, target, polls>>

ForkNext ==
    \/ Preflight \/ CanPush \/ ReuseFork \/ CreateFork \/ ForkDenied \/ Poll \/ GiveUpPolling
    \/ PushBranch \/ OpenPR \/ MergeRequest \/ RequestFails \/ Provisioned \/ RightsChange

-----------------------------------------------------------------------------
(* Properties *)

\* A scan that passed the pre-flight is denied the delivery only if something
\* changed at GitHub meanwhile, or if the pre-flight had nothing to go by but
\* the scopes of the token: GitHub then refuses the fork, or reuses one that is
\* there and that the token cannot push to.  A branch is pushed to a fork only
\* once GitHub has provisioned it, and what is reported as merged is merged.
DeliveryIsPossible ==
    /\ delivery = "denied" /\ changes = 0 =>
         /\ target = "fork" /\ hub.scope
         /\ ~hub.mayFork \/ (hub.fork = "ready" /\ ~hub.forkPush)
    /\ delivery = "push" /\ target = "fork" /\ changes = 0 => Ready
    /\ delivery = "merge ok" => hub.pr = "merged"

\* What the runner says of the pre-flight: "a token that can neither push nor
\* fork fails fast with one clear instruction - instead of cloning + installing
\* + analyzing for minutes and 403'ing at submit".  Not true of the code.
PreflightKeepsItsWord == delivery = "denied" => changes > 0

\* What the comment on MergePullRequestResult says: "ok=false: the merge call
\* failed AND the PR is NOT merged".
NotOkIsNotMerged == delivery = "merge not ok" => hub.pr # "merged"
=============================================================================
