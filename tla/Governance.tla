----------------------------- MODULE Governance -----------------------------
(***************************************************************************)
(* What a repository says of contributions: the gate of the scan, which    *)
(* reads the clone (lib/agent/eligibility.ts), its preview before the      *)
(* scan, which asks the GitHub API (eligibility-preview.ts and its route), *)
(* and the issues that already ask for an upgrade (issue-link.ts).         *)
(*                                                                         *)
(* A repository is a record: push (the token may push), and for each kind  *)
(* of governance file the sequence of what stands at its candidate paths.  *)
(* Of a file matters whether it matches one of RED_FLAGS.                  *)
(***************************************************************************)
EXTENDS Naturals, Sequences, FiniteSets, SequencesExt

Families == {"dependabot", "renovate", "contributing", "coc"}
Entries == {"absent", "clean", "flagged", "directory"}
None == "none"

-----------------------------------------------------------------------------
(* The gate of the scan *)

DecideEligibility(owns, automation, redFlag, ack) ==
    CASE owns -> [decision |-> "owned", canOpenPRs |-> TRUE]
      [] ~owns /\ (automation # None \/ redFlag) -> [decision |-> "blocked", canOpenPRs |-> FALSE]
      [] OTHER -> [decision |-> "external", canOpenPRs |-> ack]

\* existsSync: the first candidate with anything at its path.
FirstOnDisk(candidates) == SelectInSeq(candidates, LAMBDA e : e # "absent")

\* Reading a directory throws, which counts as no flag.
FindContributingRedFlag(candidates) ==
    LET i == FirstOnDisk(candidates)
    IN  i # 0 /\ candidates[i] = "flagged"

AssessContributionEligibility(repo, ack) ==
    LET automation == IF FirstOnDisk(repo.dependabot) # 0 THEN "dependabot"
                      ELSE IF FirstOnDisk(repo.renovate) # 0 THEN "renovate"
                      ELSE None
    IN  DecideEligibility(repo.push, automation, FindContributingRedFlag(repo.contributing), ack)

-----------------------------------------------------------------------------
(* The preview.  down: the reads GitHub fails, <<"repo", 0>>,              *)
(* <<"issues", 0>> or <<family, candidate>>.                               *)

\* A directory has no content and reads like a missing file.  A failed read
\* throws.  Mutant: it reads like a missing file too.
BugTryFetchFile(family, i, entry, down) ==
    IF <<family, i>> \in down \/ entry \in {"absent", "directory"} THEN None ELSE entry
TryFetchFile(family, i, entry, down) ==
    CASE <<family, i>> \in down -> "throws"
      [] <<family, i>> \notin down /\ entry \in {"absent", "directory"} -> None
      [] OTHER -> entry

\* The first candidate that is there, or throws on the way to it.
FirstExisting(repo, family, down) ==
    LET got == [i \in DOMAIN repo[family] |-> TryFetchFile(family, i, repo[family][i], down)]
        i == SelectInSeq(got, LAMBDA g : g # None)
    IN  IF i = 0 THEN None ELSE got[i]

\* What the five reads make of the repository; a failed one leaves its
\* default and degrades the preview.
DepAutomation(repo, down) ==
    LET dependabot == FirstExisting(repo, "dependabot", down)
        renovate == FirstExisting(repo, "renovate", down)
    IN  CASE dependabot = "throws" -> "throws"
          [] dependabot \notin {None, "throws"} -> "dependabot"
          [] dependabot = None /\ renovate = "throws" -> "throws"
          [] dependabot = None /\ renovate \notin {None, "throws"} -> "renovate"
          [] OTHER -> None

\* An issue as far as the two heuristics look at it: pull (it is a pull
\* request), label ("dependency" is one of the labels both know, "upgrade" one
\* that only the preview knows), intent and deps (the title matches UPGRADE_RE
\* and DEPS_WORD_RE of issue-link.ts), ask (it matches UPGRADE_TITLE of the
\* preview), text (the words of title and body).
PickLinkableIssue(issues) ==
    LET i == SelectInSeq(issues, LAMBDA s : ~s.pull /\ (s.label \in {"dependency", "upgrade"} \/ s.ask))
    IN  IF i = 0 THEN <<>> ELSE <<issues[i]>>

PreviewEligibility(repo, issues, down) ==
    LET owns == <<"repo", 0>> \notin down /\ repo.push
        read == DepAutomation(repo, down)
        contributing == FirstExisting(repo, "contributing", down)
        coc == FirstExisting(repo, "coc", down)
        automation == IF read = "throws" THEN None ELSE read
        redFlag == contributing = "flagged"
        listed == automation = None /\ ~redFlag
        without == DecideEligibility(owns, automation, redFlag, FALSE)
        with == DecideEligibility(owns, automation, redFlag, TRUE)
    IN  [decision |-> without.decision,
         canOpenPRsIfAcknowledged |-> with.canOpenPRs,
         ackNeeded |-> ~without.canOpenPRs /\ with.canOpenPRs,
         linkableIssue |-> IF listed /\ <<"issues", 0>> \notin down THEN PickLinkableIssue(issues) ELSE <<>>,
         degraded |-> \/ <<"repo", 0>> \in down
                      \/ "throws" \in {read, contributing, coc}
                      \/ listed /\ <<"issues", 0>> \in down]

\* The route: a bad body is refused; an error outside the reads, such as a
\* client that cannot be built, is an unknown decision.
Unknown == [decision |-> "unknown", canOpenPRsIfAcknowledged |-> FALSE, ackNeeded |-> FALSE,
            linkableIssue |-> <<>>, degraded |-> TRUE]
PreviewRoute(valid, reachable, repo, issues, down) ==
    CASE ~valid -> [status |-> 400]
      [] valid /\ ~reachable -> [status |-> 200, preview |-> Unknown]
      [] OTHER -> [status |-> 200, preview |-> PreviewEligibility(repo, issues, down)]

\* For a repository with no directory in the place of a governance file, the
\* preview is the decision the gate will make, unless it says it is degraded.
\* A degraded one never says owned against the gate, and says blocked against
\* it only when it could not read who owns the repository.  No issue is shown
\* beside blocked.
PreviewIsTheGate(repo, issues, down) ==
    LET p == PreviewRoute(TRUE, TRUE, repo, issues, down).preview
        gate(ack) == AssessContributionEligibility(repo, ack)
    IN  (\A f \in Families : "directory" \notin Range(repo[f])) =>
          /\ ~p.degraded =>
               /\ p.decision = gate(FALSE).decision
               /\ p.canOpenPRsIfAcknowledged = gate(TRUE).canOpenPRs
               /\ p.ackNeeded <=> gate(TRUE).canOpenPRs # gate(FALSE).canOpenPRs
          /\ p.decision = "owned" => gate(FALSE).decision = "owned"
          /\ p.decision = "blocked" /\ <<"repo", 0>> \notin down => ~gate(TRUE).canOpenPRs
          /\ p.linkableIssue # <<>> => ~p.linkableIssue[1].pull /\ p.decision # "blocked"

\* Not true of the code: a preview that could not read a file says that it
\* does not know (eligibility-preview.ts: "if any file fetch errors (404,
\* rate-limit, perms), we degrade to "unknown"").
DegradedIsUnknown(repo, issues, down) ==
    LET p == PreviewRoute(TRUE, TRUE, repo, issues, down).preview
    IN  p.degraded => p.decision = "unknown"

-----------------------------------------------------------------------------
(* The issue a pull request is linked to *)

\* hay.includes(depLower): words are sequences of letters, and a name is
\* found inside longer words.
Includes(text, name) ==
    \E w \in text : \E i \in 1..Len(w) : i + Len(name) - 1 <= Len(w)
                                          /\ SubSeq(w, i, i + Len(name) - 1) = name

\* labelHit, upgradeIntent, mentionsDep, aboutDeps.
LabelHit(i) == i.label = "dependency"
DepSpecific(i, name) == Includes(i.text, name) /\ (i.intent \/ LabelHit(i))
General(i) == (LabelHit(i) \/ i.deps) /\ (i.intent \/ LabelHit(i))

\* Mutant: the umbrella issue first.
BugPickIssueForDep(issues, name) ==
    LET specific == SelectInSeq(issues, LAMBDA i : DepSpecific(i, name))
        general == SelectInSeq(issues, General)
    IN  IF general # 0 THEN general ELSE specific
PickIssueForDep(issues, name) ==
    LET specific == SelectInSeq(issues, LAMBDA i : DepSpecific(i, name))
        general == SelectInSeq(issues, General)
    IN  IF specific # 0 THEN specific ELSE general

\* "Closes" ends the issue when the pull request is merged.
FormatIssueReference(owns) == IF owns THEN "Closes" ELSE "Addresses"

\* The issues that name the dependency and ask for an upgrade, and those about
\* dependencies at large.
Naming(issues, name) ==
    {i \in DOMAIN issues : name \in issues[i].text /\ (issues[i].intent \/ LabelHit(issues[i]))}
Umbrella(issues) == {i \in DOMAIN issues : LabelHit(issues[i]) \/ (issues[i].deps /\ issues[i].intent)}

\* No request is passed over and no other issue is linked: a link is made
\* whenever some issue names the dependency or is about dependencies at large;
\* the linked issue asks for an upgrade or has the label; it has the letters of
\* the dependency's name in its text whenever some issue names it, and is
\* otherwise the first umbrella issue or one with those letters.
LinkIsFound(issues, name) ==
    LET k == PickIssueForDep(issues, name)
        naming == Naming(issues, name)
        umbrella == Umbrella(issues)
    IN  /\ naming # {} => k # 0 /\ DepSpecific(issues[k], name)
        /\ k # 0 => issues[k].intent \/ LabelHit(issues[k])
        /\ umbrella # {} => k # 0
        /\ k # 0 /\ naming = {} /\ ~DepSpecific(issues[k], name) =>
             k = CHOOSE u \in umbrella : \A v \in umbrella : u <= v

\* Not true of the code: where an issue names this dependency, it is the one
\* that is linked.  A name is also found inside longer ones: the issue of
\* react-dom is taken for react.
LinkNamesDep(issues, name) ==
    Naming(issues, name) # {} => PickIssueForDep(issues, name) \in Naming(issues, name)
=============================================================================
