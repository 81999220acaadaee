------------------------------ MODULE ScanForm ------------------------------
(***************************************************************************)
(* The form that starts a scan (app/(app)/scan/new/page.tsx): the debounced*)
(* eligibility preview of the repository typed into it, the box that       *)
(* acknowledges contributing to someone else's repository, the extra hosts *)
(* of the sandbox, and the POST.                                           *)
(*                                                                         *)
(* Typing a repository stands for an edit after which the parsed owner and *)
(* name differ.  The answer of the preview route is given by the verdict   *)
(* of the repository (Governance); it may be refused or lost.              *)
(***************************************************************************)
EXTENDS Naturals, Sequences, SequencesExt

CONSTANTS
    FormRepos,     \* what the input parses to
    Verdict,       \* repository |-> "owned", "external" or "blocked"
    Hosts,         \* hostnames Tier2HostSchema accepts
    Tier1Hosts,    \* the hosts every scan may reach, some of Hosts
    SavedHosts,    \* the default list of the settings page
    MaxHosts,      \* TIER2_MAX_HOSTS
    MaxFormSteps   \* bounds what the user does

Nothing == "nothing"

FormAssumption ==
    /\ Nothing \notin FormRepos
    /\ Verdict \in [FormRepos -> {"owned", "external", "blocked"}]
    /\ MaxHosts \in Nat
    /\ SavedHosts \in Seq(Hosts) /\ IsInjective(SavedHosts) /\ Len(SavedHosts) <= MaxHosts

VARIABLES
    typed,      \* what repoUrl parses to, or Nothing
    preview,    \* the repository the preview shown is about, or Nothing
    job,        \* the timer or fetch of the preview effect
    loading,    \* previewLoading
    agreed,     \* externalAck
    agreedTo,   \* history: the preview under which the box was ticked
    tier2,      \* tier2Hosts
    status,     \* "idle", "starting" or "error"
    posts,      \* the POSTs without an answer
    page,       \* "form", or "scan" once the router has left it
    keys

formVars == <<typed, preview, job, loading, agreed, agreedTo, tier2, status, posts, page, keys>>

NoJob == [stage |-> "none", repo |-> Nothing]
AckNeeded(r) == r # Nothing /\ Verdict[r] = "external"

FormInit ==
    /\ typed = Nothing /\ preview = Nothing /\ job = NoJob /\ loading = FALSE
    /\ agreed = FALSE /\ agreedTo = Nothing
    /\ tier2 = SavedHosts   \* readTier2Default, in an effect on mount
    /\ status = "idle" /\ posts = {} /\ page = "form" /\ keys = 0

Key == page = "form" /\ keys < MaxFormSteps /\ keys' = keys + 1

-----------------------------------------------------------------------------
(* Steps *)

\* The clean-up of the effect clears the timer or aborts the fetch, and the
\* effect starts a new timer.  What the preview shows stays until an answer
\* replaces it; only an input without a repository clears it.
BugCleanUp(j, r) == IF j.stage = "fetch" THEN j ELSE [stage |-> "timer", repo |-> r]
CleanUp(j, r) == IF r = Nothing THEN NoJob ELSE [stage |-> "timer", repo |-> r]

Type(r) ==
    /\ Key /\ typed # r
    /\ typed' = r /\ status' = "idle"
    /\ job' = CleanUp(job, r) /\ loading' = FALSE
    /\ preview' = IF r = Nothing THEN Nothing ELSE preview
    /\ UNCHANGED <<agreed, agreedTo, tier2, posts, page>>

\* 600 ms later.
Fetch ==
    /\ page = "form" /\ job.stage = "timer"
    /\ job' = [job EXCEPT !.stage = "fetch"] /\ loading' = TRUE
    /\ UNCHANGED <<typed, preview, agreed, agreedTo, tier2, status, posts, page, keys>>

\* The answer; a second effect unticks a box that cannot help any more.
BugUntick(r) == agreed
Untick(r) == agreed /\ AckNeeded(r)

Previewed ==
    /\ page = "form" /\ job.stage = "fetch"
    /\ preview' = job.repo /\ agreed' = Untick(job.repo)
    /\ job' = NoJob /\ loading' = FALSE
    /\ UNCHANGED <<typed, agreedTo, tier2, status, posts, page, keys>>

\* An answer that is not ok clears the preview, a lost one leaves the preview
\* of whatever repository was shown before.
PreviewFails ==
    /\ page = "form" /\ job.stage = "fetch"
    /\ preview' \in {Nothing, preview}
    /\ job' = NoJob /\ loading' = FALSE
    /\ UNCHANGED <<typed, agreed, agreedTo, tier2, status, posts, page, keys>>

TickBox ==
    /\ Key /\ typed # Nothing /\ AckNeeded(preview)
    /\ agreed' = ~agreed /\ agreedTo' = IF agreed THEN Nothing ELSE preview
    /\ UNCHANGED <<typed, preview, job, loading, tier2, status, posts, page>>

\* addHost and removeHost, whose filter takes one host out, for they differ; the
\* saved default is never written.
BugHostFits(h) == h \notin Tier1Hosts
HostFits(h) == h \notin Tier1Hosts /\ ~Contains(tier2, h) /\ Len(tier2) < MaxHosts

EditHosts ==
    /\ Key
    /\ \/ \E h \in Hosts : HostFits(h) /\ tier2' = Append(tier2, h)
       \/ \E i \in DOMAIN tier2 : tier2' = RemoveAt(tier2, i)
    /\ UNCHANGED <<typed, preview, job, loading, agreed, agreedTo, status, posts, page>>

\* handleScan.  The button is disabled while a scan is starting, and for a
\* blocked repository while its preview is shown; typing enables it again.
Start ==
    /\ Key /\ typed # Nothing /\ status # "starting"
    /\ preview # Nothing => Verdict[preview] # "blocked"
    /\ status' = "starting"
    /\ posts' = posts \cup
         {[nth |-> keys, repo |-> typed, ack |-> agreed, under |-> agreedTo, hosts |-> tier2]}
    /\ UNCHANGED <<typed, preview, job, loading, agreed, agreedTo, tier2, page>>

Started(p) ==
    /\ page' = "scan" /\ posts' = posts \ {p}
    /\ UNCHANGED <<typed, preview, job, loading, agreed, agreedTo, tier2, status, keys>>

NotStarted(p) ==
    /\ posts' = posts \ {p} /\ status' = "error"
    /\ UNCHANGED <<typed, preview, job, loading, agreed, agreedTo, tier2, page, keys>>

FormNext ==
    \/ \E r \in FormRepos \cup {Nothing} : Type(r)
    \/ Fetch \/ Previewed \/ PreviewFails \/ TickBox \/ EditHosts \/ Start
    \/ \E p \in posts : Started(p) \/ NotStarted(p)

-----------------------------------------------------------------------------
(* Properties *)

\* An answer that comes in is about the repository in the input at that
\* moment ("a fast typist never sees stale results overwrite fresh"), and no
\* box stays ticked under a preview for which it has no effect.
PreviewsAreFresh ==
    /\ job # NoJob => job.repo = typed
    /\ preview # Nothing /\ ~AckNeeded(preview) => ~agreed

\* No sequence of edits posts a list of hosts that the server would refuse, a
\* host twice, or one that every scan may reach anyway.
PostedHostsFit == \A p \in posts :
    /\ Len(p.hosts) <= MaxHosts /\ IsInjective(p.hosts)
    /\ ToSet(p.hosts) \cap (Tier1Hosts \ ToSet(SavedHosts)) = {}

\* What a page comment says: the acknowledgement posted with a repository was
\* given under the preview of that repository ("so the user's ack is informed,
\* not blind").
AckIsInformed == \A p \in posts : p.ack => p.under = p.repo

\* What a page comment says of a lost answer: "Network/abort - leave preview
\* null".  Once nothing is pending, a preview is that of the repository typed.
PreviewIsOfThisRepo == job = NoJob /\ preview # Nothing => preview = typed
=============================================================================
