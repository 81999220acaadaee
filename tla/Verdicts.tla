------------------------------ MODULE Verdicts ------------------------------
(***************************************************************************)
(* The decisions Mendel takes on evidence it has read, each a computation  *)
(* of one step: which tools fit a repository, whether a phase of the       *)
(* sandbox passed, whether an analyzer has spoken, which adapter owns a    *)
(* repository, whether a version is behind, which files an upgrade         *)
(* affects, which rejections are recalled, what an inspection may claim,   *)
(* whether a pull request will be welcome and which issue it answers       *)
(* (Toolchain, Languages, Signals, Recall, Reports, Governance).           *)
(* One step puts one question; MCParts enumerates small ones, PartsProofs  *)
(* proves the verdicts for all.                                            *)
(***************************************************************************)
EXTENDS Integers, Sequences, FiniteSets

CONSTANTS Questions, Tier1Hosts, MaxHosts

VARIABLE task

Lang == INSTANCE Languages
Sig == INSTANCE Signals
Edit == INSTANCE Blocks
Rec == INSTANCE Recall
Rep == INSTANCE Reports
Gov == INSTANCE Governance
Tool == INSTANCE Toolchain WITH HostCap <- MaxHosts, Tier1 <- Tier1Hosts

NoTask == [kind |-> "none"]

-----------------------------------------------------------------------------
(* The questions: what can be read, of any size. *)

\* A repository as Toolchain and as Governance see it.
Locks == {"pnpm-lock.yaml", "yarn.lock", "package-lock.json"}
ToolRepo == [files : SUBSET STRING, content : [Locks -> Nat],
             manifest : {"absent", "malformed", "ok"}, runners : SUBSET {"vitest", "jest"},
             scripts : SUBSET STRING, bin : {"none", "string", "map"}, main : BOOLEAN]
GovRepo == [push : BOOLEAN, dependabot : Seq(Gov!Entries), renovate : Seq(Gov!Entries),
            contributing : Seq(Gov!Entries), coc : Seq(Gov!Entries)]
Reads == ({"repo", "issues"} \cup Gov!Families) \X Nat

Smoke == [enabled : BOOLEAN, command : STRING, pattern : STRING, timeout : Int]
Boot == [stdout : SUBSET DOMAIN Tool!PatternsIn, exitCode : Nat, seconds : Nat]
End == [killed : BOOLEAN, tsc : BOOLEAN, tests : BOOLEAN]
Docker == [up : BOOLEAN, image : BOOLEAN, builds : BOOLEAN,
           ends : {"JSON", "no JSON", "killed", "non-zero"}]
Analyzers == {"python", "go", "rust"}
Output == [thrown : BOOLEAN, removed : SUBSET STRING]
Name == Seq(STRING) \ {<<>>}
Issue == [pull : BOOLEAN, label : {"dependency", "upgrade", "other"}, intent : BOOLEAN, deps : BOOLEAN,
          ask : BOOLEAN, text : SUBSET Name]
Version == [mark : STRING, parts : Seq(Nat \cup {Lang!NaN})]

\* The files of the repository, by their paths, and the entries of a package.json.
Import == [pkg : STRING, imported : STRING, local : STRING]
Source == [path : STRING, parses : BOOLEAN, imports : SUBSET Import, idents : SUBSET STRING]
Sources == {R \in SUBSET Source : \A f, g \in R : f.path = g.path => f = g}
Entry == [key : STRING, op : STRING, version : STRING]

\* The rejections when the first query reads them, and when the second does:
\* others may have been recorded, and a change type may have been cleared.
Rejection == [dep : STRING \ {Rec!None}, change : STRING]
Recalled == {q \in [kind : {"recall"}, before : Seq(Rejection), after : Seq(Rejection),
                    dep : STRING, change : STRING, limit : Int] :
               /\ Len(q.before) <= Len(q.after)
               /\ \A r \in DOMAIN q.before : q.after[r].dep = q.before[r].dep}

\* What the signals of an inspection return, and the reports stored before.
Symbols == {S \in SUBSET STRING : IsFiniteSet(S)}
Changelog == [ok : BOOLEAN, result : Symbols]
Semantic == [ok : BOOLEAN, result : [ran : BOOLEAN, broken : Symbols, deprecated : Symbols, coverage : 0..100]]
Stored == Seq({<<>>} \cup [1..1 -> STRING])

Question ==
    [kind : {"tools"}, repo : ToolRepo, other : ToolRepo]
    \cup [kind : {"phases"}, repo : ToolRepo, smoke : Smoke, run : Boot, outcome : End]
    \cup [kind : {"analyzer"}, lang : Analyzers, before : Docker, after : Docker]
    \cup [kind : {"diff"}, lang : Analyzers, image : BOOLEAN, out : Output]
    \cup [kind : {"adapter"}, files : SUBSET STRING]
    \cup [kind : {"order"}, u : Version, v : Version, w : Version]
    \cup [kind : {"sites"}, repo : Sources, pkg : STRING, symbols : SUBSET STRING]
    \cup [kind : {"bump"}, entries : Seq(Entry), name : STRING, latest : STRING]
    \cup Recalled
    \cup [kind : {"inspection"}, pat : BOOLEAN, changelog : Changelog, diff : Semantic, rows : Stored,
          body : [valid : BOOLEAN, same : BOOLEAN], saves : BOOLEAN]
    \cup [kind : {"preview"}, repo : GovRepo, issues : Seq(Issue), down : SUBSET Reads]
    \cup [kind : {"link"}, issues : Seq(Issue), name : Name]

\* The questions put are of that form.
VerdictAssumption == Questions \subseteq Question

VerdictInit == task = NoTask

VerdictNext == task = NoTask /\ task' \in Questions

-----------------------------------------------------------------------------

\* No verdict without its evidence: the commands fit the repository; phase B
\* passes only if what it ran passed, phase C only after a ready phrase or a
\* clean exit in time; the output of an analyzer is one it printed; a diff
\* without the analyzer of the language says so; an adapter claims the
\* repositories of its language; what is behind a version is behind every later
\* one; every file that imports a symbol is listed for it; a bump changes one
\* version; the rejections recalled are of the dependency and each is told once;
\* an inspection claims no more than it analyzed; the preview announces what the
\* gate of the scan decides, within the limits PreviewIsTheGate names; and no
\* issue that asks for the upgrade is passed over (lib/sandbox, lib/agent,
\* rejection-recall.ts, inspect.ts, eligibility-preview.ts, issue-link.ts).
Earned(question) ==
    CASE question.kind = "tools" -> Tool!ToolsFit(question.repo, question.other)
      [] question.kind = "phases" ->
           Tool!PhasesAreHonest(question.repo, question.smoke, question.run, question.outcome)
      [] question.kind = "analyzer" -> Tool!OutputIsPrinted(question.lang, question.before, question.after)
      [] question.kind = "diff" -> Lang!DiffIsEarned(question.lang, question.image, question.out)
      [] question.kind = "adapter" -> Lang!AdapterOwnsRepo(question.files)
      [] question.kind = "order" -> Lang!BehindIsAnOrder(question.u, question.v, question.w)
      [] question.kind = "sites" -> Sig!AffectedFilesAreFound(question.repo, question.pkg, question.symbols)
      [] question.kind = "bump" -> Edit!BumpedExactly(question.entries, question.name, question.latest)
      [] question.kind = "recall" ->
           Rec!RecallIsOfTheDep(question.before, question.after, question.dep, question.change, question.limit)
      [] question.kind = "inspection" ->
           Rep!InspectionIsModest(question.pat, question.changelog, question.diff, question.rows,
                                  question.body, question.saves)
      [] question.kind = "preview" -> Gov!PreviewIsTheGate(question.repo, question.issues, question.down)
      [] question.kind = "link" -> Gov!LinkIsFound(question.issues, question.name)
      [] OTHER -> TRUE

VerdictsAreEarned == Earned(task)

-----------------------------------------------------------------------------
(* What the repository says of the verdicts and the code does not do. *)

\* Not true of the code: an app that ends with an error has not booted, whatever
\* it printed (smoke.ts, resolvePhaseCReason).
CrashesAreNoBoots == task.kind = "phases" => Tool!CrashIsNotBoot(task.repo, task.smoke, task.run)

\* Not true of the code: a preview with a failed read does not know
\* (eligibility-preview.ts).
FailedReadsAreUnknown ==
    task.kind = "preview" => Gov!DegradedIsUnknown(task.repo, task.issues, task.down)

\* Not true of the code: the linked issue is about this dependency where one is
\* (issue-link.ts).
LinksNameTheDep == task.kind = "link" => Gov!LinkNamesDep(task.issues, task.name)

\* Not true of the code: a dependency with a rejection on record is blocked
\* (automerge/runner-glue.ts).
RejectionsBlock ==
    task.kind = "recall" => Rec!RejectedDepsAreBlocked(task.before, task.dep, task.change)
=============================================================================
