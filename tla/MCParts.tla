------------------------------ MODULE MCParts -------------------------------
(***************************************************************************)
(* Small instances of Parts for TLC, with the pure algorithms beside them: *)
(* the first state chooses one part, and it alone moves.  A behavior of    *)
(* Spec so satisfies the specification of every part.                      *)
(***************************************************************************)
EXTENDS Parts, Readers, FiniteSets, SequencesExt, TLC

CONSTANTS call1, call2
CallsAreAlike == Permutations(Calls)

McMessages == {[marks |-> m, hint |-> h] : m \in {{}, {"day"}, {"503"}, {"json"}, {"day", "429"}},
                                            h \in {0, 20, 90}}
McPresets == [newScan |-> 1, api |-> 2]
McVerdict == [own |-> "owned", foreign |-> "external", foreign2 |-> "external", barred |-> "blocked"]
McSavedHosts == <<"cdn">>
McRankedFiles == <<"manifest", "big", "gone", "one", "two">>
McFileKind == [manifest |-> "manifest", big |-> "huge", gone |-> "missing", one |-> "small",
               two |-> "large"]

-----------------------------------------------------------------------------
(* Questions of a small size for the verdicts. *)

AtMost(S, n) == UNION {[1..k -> S] : k \in 0..n}

Locks == {"pnpm-lock.yaml", "yarn.lock", "package-lock.json"}
Files(files, content, manifest, runners, scripts, bin, main) ==
    [files |-> files, content |-> [l \in Locks |-> content], manifest |-> manifest,
     runners |-> runners, scripts |-> scripts, bin |-> bin, main |-> main]
LockRepos == {Files(f, c, "ok", {}, {}, "none", FALSE) : f \in SUBSET Locks, c \in 1..2}
ScriptRepos == {Files(t, 1, m, r, s, b, n) :
                  t \in {{}, {"tsconfig.json"}}, m \in {"absent", "malformed", "ok"},
                  r \in SUBSET {"vitest", "jest"},
                  s \in SUBSET {"start", "serve", "dev", "test"} \cup {{"no test"}, {"build"}},
                  b \in {"none", "map"}, n \in BOOLEAN}
BootRepos == {r \in ScriptRepos : r.manifest = "ok" /\ r.runners = {} /\ ~r.main /\ r.bin = "none"
                                  /\ r.scripts \in {{}, {"test"}, {"start", "test"}}}
Smokes == [enabled : BOOLEAN, command : {"none", "c"}, pattern : {"none", "mine"}, timeout : {0, 30, 900}]
Boots == [stdout : SUBSET {"listening", "already", "banner", "mine"}, exitCode : {0, 1}, seconds : {0, 20, 91}]
NoSmoke == [enabled |-> TRUE, command |-> "none", pattern |-> "none", timeout |-> 30]
Silent == [stdout |-> {}, exitCode |-> 0, seconds |-> 0]
Passing == [killed |-> FALSE, tsc |-> TRUE, tests |-> TRUE]

Analyzers == {"python", "go", "rust"}
Dockers == [up : BOOLEAN, image : BOOLEAN, builds : BOOLEAN, ends : {"JSON", "no JSON", "killed", "non-zero"}]
Markers == {"Cargo.toml", "Cargo.lock", "go.mod", "go.sum", "setup.py", "Pipfile",
            "package.json", "tsconfig.json"}
Versions == {[mark |-> "", parts |-> p] :
               p \in {<<1>>, <<1, 0>>, <<1, 3>>, <<1, 4>>, <<2, 0>>, <<2, 5>>, <<3, -1>>}}

Candidates == {"absent", "clean", "flagged", "directory"}
SmallGovRepos ==
    [push : BOOLEAN, dependabot : [1..2 -> {"absent", "clean"}], renovate : [1..1 -> {"absent", "clean"}],
     contributing : [1..2 -> Candidates], coc : [1..1 -> {"absent", "clean"}]]
FailedReads == ({"repo", "issues"} \X {0}) \cup ({"dependabot", "contributing"} \X (1..2))
               \cup ({"renovate", "coc"} \X {1})
\* A dependency, a longer word that contains its name, and another name.
Word == [dep |-> <<"m", "s">>, longer |-> <<"f", "o", "r", "m", "s">>, other |-> <<"m">>]
AnIssue(pull, label, intent, deps, ask, words) ==
    [pull |-> pull, label |-> label, intent |-> intent, deps |-> deps, ask |-> ask,
     text |-> {Word[w] : w \in words}]
OpenIssues == {AnIssue(FALSE, l, i, d, FALSE, w) : l \in {"dependency", "other"}, i, d \in BOOLEAN,
                                                  w \in {{}, {"dep"}, {"longer", "other"}}}
\* A title like "update all packages" has intent and ask, "upgrade dependencies"
\* intent and deps.
Listings == {<<>>, <<AnIssue(TRUE, "dependency", TRUE, FALSE, TRUE, {})>>,
             <<AnIssue(TRUE, "dependency", FALSE, FALSE, FALSE, {}),
               AnIssue(FALSE, "other", TRUE, FALSE, TRUE, {})>>,
             <<AnIssue(FALSE, "other", TRUE, TRUE, FALSE, {}),
               AnIssue(FALSE, "upgrade", FALSE, FALSE, FALSE, {})>>}

Imports == {[pkg |-> "p", imported |-> "f", local |-> l] : l \in {"f", "g"}}
           \cup {[pkg |-> "q", imported |-> "f", local |-> "g"], [pkg |-> "p", imported |-> "*", local |-> "g"]}
Source(path) == [path : {path}, parses : BOOLEAN, imports : SUBSET Imports, idents : SUBSET {"f", "g"}]
PkgEntries == [key : {"d", "e"}, op : {"", "^"}, version : {"1", "2"}]

\* A table, and what others have made of it before the second query.
Rejections == [dep : {"d", "e"}, change : {"removed", "none"}]
Meanwhile(table) ==
    {[i \in DOMAIN table |-> IF i = reset THEN [table[i] EXCEPT !.change = "none"] ELSE table[i]] \o added :
       reset \in 0..3, added \in AtMost(Rejections, 1)}
Recalls == UNION {[kind : {"recall"}, before : {table}, after : Meanwhile(table), dep : {"d"},
                   change : {"removed", "none"}, limit : 0..2] : table \in AtMost(Rejections, 3)}

Changelogs == [ok : {TRUE}, result : SUBSET {"s", "t"}] \cup [ok : {FALSE}, result : {{}}]
Semantics == [ok : BOOLEAN, result : [ran : {TRUE}, broken : SUBSET {"s", "u"}, deprecated : SUBSET {"t"},
                                     coverage : {79, 80}]]

McQuestions ==
    [kind : {"tools"}, repo : LockRepos \cup ScriptRepos, other : LockRepos]
    \cup [kind : {"phases"}, repo : BootRepos, smoke : Smokes, run : Boots, outcome : {Passing}]
    \cup [kind : {"phases"}, repo : ScriptRepos, smoke : {NoSmoke}, run : {Silent}, outcome : [killed : BOOLEAN, tsc : BOOLEAN, tests : BOOLEAN]]
    \cup [kind : {"analyzer"}, lang : Analyzers, before : Dockers, after : Dockers]
    \cup [kind : {"diff"}, lang : Analyzers, image : BOOLEAN,
          out : [thrown : BOOLEAN, removed : {{}, {"f"}}]]
    \cup [kind : {"adapter"}, files : SUBSET Markers]
    \cup [kind : {"order"}, u : Versions, v : Versions, w : Versions]
    \cup [kind : {"sites"}, repo : {{f, g} : f \in Source("x"), g \in Source("y")}, pkg : {"p"}, symbols : {{"f", "h"}}]
    \cup [kind : {"bump"}, entries : AtMost(PkgEntries, 2), name : {"d"}, latest : {"3"}]
    \cup Recalls
    \cup [kind : {"inspection"}, pat : BOOLEAN, changelog : Changelogs, diff : Semantics,
          rows : {<<<<>>, <<"earlier">>>>}, body : [valid : BOOLEAN, same : BOOLEAN], saves : BOOLEAN]
    \cup [kind : {"preview"}, repo : SmallGovRepos, issues : {<<AnIssue(FALSE, "dependency", TRUE, FALSE, TRUE, {})>>},
          down : {{}} \cup {{r} : r \in FailedReads}]
    \cup [kind : {"preview"}, repo : {r \in SmallGovRepos : "clean" \notin ToSet(r.contributing)},
          issues : Listings, down : {{}}]
    \cup [kind : {"link"}, issues : AtMost(OpenIssues, 2), name : {Word.dep}]

-----------------------------------------------------------------------------
(* Lines for the readers, and repositories with workspaces. *)

Ver(mark, parts) == [mark |-> mark, parts |-> parts]
One == Ver("^", <<1>>)

SmallDeps ==
    [types : {FALSE},
     range : {Ver(m, p) : m \in {"", "^", "v"}, p \in {<<1, 0>>, <<1, 3>>}}
             \cup {Ver("*", <<>>), Ver("workspace:", <<1>>)},
     latest : {Ver("", p) : p \in {<<1, 4>>, <<2, 0>>}},
     responses : {<<"ok">>, <<"429", "ok">>, <<"404">>, <<"only pre-release">>,
                  <<"5xx", "thrown", "429", "ok">>}]

\* A version of a Go module has a "v", in go.mod and in the proxy.
GoDeps == {[d EXCEPT !.range.mark = "v", !.latest.mark = "v"] : d \in {d \in SmallDeps : d.range.parts # <<>>}}

NamedLines(kinds, names) == [kind : kinds, name : names, range : {One, Ver("", <<2>>)}]

NoItem == <<>>
PyRange == Ver(">=", <<1>>)
AnItem(n, extras) == <<[name |-> n, extras |-> extras, range |-> PyRange]>>
PyLines ==
    [kind : {"section"}, name : {"project", "poetry", "poetry-dev"}, form : {""}, range : {One},
     items : {NoItem}, closes : {TRUE}]
    \cup [kind : {"array"}, name : {"l"}, form : {"string"}, range : {One},
          items : {NoItem, AnItem("a", TRUE)}, closes : BOOLEAN]
    \cup [kind : {"items"}, name : {""}, form : {""}, range : {One},
          items : {AnItem("b", TRUE), AnItem("c", FALSE)}, closes : BOOLEAN]
    \cup [kind : {"entry"}, name : {"python", "d"}, form : {"string", "no version"}, range : {One},
          items : {NoItem}, closes : {FALSE}]

GoLines ==
    [kind : {"require (", "replace (", ")", "replace"}, name : {"a"}, range : {One}, indirect : {FALSE}]
    \cup [kind : {"require", "item"}, name : {"a"}, range : {One, Ver("v", <<2>>)}, indirect : {FALSE}]
    \cup [kind : {"require", "item"}, name : {"i"}, range : {One}, indirect : {TRUE}]

CargoLines ==
    [kind : {"section"},
     name : {<<"package">>, <<"dependencies">>, <<"dev-dependencies">>, <<"workspace", "dependencies">>,
             <<"dependencies", "t">>, <<"dependencies", "dependencies", "t">>}]
    \cup [kind : {"string"}, name : {"a", "version"}, fields : {{"version"}}, range : {One}]
    \cup [kind : {"inline"}, name : {"b"}, range : {One},
          fields : {{"version"}, {"version", "git"}, {"workspace"}, {}}]
    \cup [kind : {"odd"}, name : {"o"}, fields : {{}}, range : {Ver("", <<>>)}]

G(shape, path, slash) == [shape |-> shape, path |-> path, slash |-> slash]
Stars == {G("star", <<"p">>, FALSE), G("dir", <<"q">>, FALSE)}
Patterns == Stars \cup {G("dir", <<"p", "a">>, FALSE), G("star", <<"q">>, FALSE), G("not", <<"p">>, FALSE),
                       G("dir", <<>>, FALSE), G("star", <<"p">>, TRUE), G("dir", <<"p", "a">>, TRUE)}
PnpmLines == [kind : {"packages:", "key"}, indented : {TRUE}, pattern : {G("not", <<>>, FALSE)}]
             \cup [kind : {"item"}, indented : BOOLEAN, pattern : Stars]

Trees == {[p \in {<<>>} |-> r] : r \in {"bare", "named", "malformed"}}
         \cup [{<<>>, <<"p">>, <<"p", "a">>, <<"p", "b">>, <<"q">>} -> {"named"}]
         \cup {(<<>> :> r @@ <<"p">> :> "bare" @@ <<"p", "a">> :> a @@ <<"p", "b">> :> b @@ <<"q">> :> q) :
                 r \in {"bare", "named"}, a \in {"named", "malformed"}, b \in {"bare", "named", "file"},
                 q \in {"file", "named"}}
Tree(dirs, pnpm, workspaces, lerna, markers) ==
    [dirs |-> dirs, pnpm |-> pnpm, workspaces |-> workspaces, lernaGlobs |-> lerna,
     lernaMalformed |-> FALSE, markers |-> markers]

Lernas == {<<>>, <<G("dir", <<"q">>, FALSE)>>}
Marks(lerna, marks) == marks \cup (IF lerna = <<>> THEN {} ELSE {"lerna.json"})
McRepos ==
    {Tree(d, FALSE, g, l, Marks(l, m)) :
        d \in Trees, g \in AtMost(Patterns, 1), l \in Lernas, m \in SUBSET {"nx.json", "turbo.json"}}
    \cup {Tree(d, FALSE, g, <<>>, {}) : d \in Trees, g \in [1..2 -> Patterns]}
    \cup {Tree(d, TRUE, <<G("dir", <<"q">>, FALSE)>>, <<>>, {}) : d \in Trees}

McLines ==
    [typescript |-> SmallDeps, python |-> SmallDeps, go |-> GoDeps, rust |-> SmallDeps]
    @@ "requirements.txt" :> NamedLines({"req", "skip"}, {"a", "b"})
    @@ "Pipfile" :> NamedLines({"section"}, {"packages", "dev-packages"}) \cup NamedLines({"entry"}, {"a", "b"})
    @@ "pyproject.toml" :> PyLines @@ "go.mod" :> GoLines @@ "Cargo.toml" :> CargoLines
    @@ [answer |-> {"SEARCH", "DIVIDER", "REPLACE", "blank", "fence", "f"},
        hosts |-> [host : {"registry", "h", "k", "l"}, valid : BOOLEAN],
        workspace |-> PnpmLines]
McMaxLines ==
    [typescript |-> 2, python |-> 2, go |-> 2, rust |-> 2, answer |-> 6, hosts |-> 4, workspace |-> 3]
    @@ [kind \in {"requirements.txt", "Pipfile", "pyproject.toml", "go.mod", "Cargo.toml"} |-> 4]

-----------------------------------------------------------------------------

VARIABLE part

Alg == INSTANCE Algorithms

Vars == <<llmState, rateState, panelState, schedulesState, sessionState, formState, mcpState, forkState, patchState, readerState, task>>

Parts == {"llm", "rate", "panel", "schedules", "session", "form", "mcp", "fork", "patch", "readers", "verdicts", "algorithms"}

Init ==
    /\ part \in Parts
    /\ Llm!LlmInit /\ Rate!RateInit /\ Panel!PanelInit /\ Schedules!ScheduleInit
    /\ Session!TokenInit /\ Form!FormInit /\ Mcp!McpInit /\ Patch!Init /\ Judge!VerdictInit /\ Alg!AlgInit
    /\ IF part = "fork" THEN TRUE
       ELSE hub = [push |-> TRUE, scope |-> TRUE, mayFork |-> TRUE, fork |-> "none",
                   forkPush |-> FALSE, pr |-> "none"]
    /\ Fork!ForkInit
    /\ IF part = "readers" THEN TRUE ELSE reader = [kind |-> "go.mod"]
    /\ ReaderInit

\* Everything but the part that moves.
Still(p) ==
    /\ part' = part
    /\ IF p = "llm" THEN TRUE ELSE UNCHANGED llmState
    /\ IF p = "rate" THEN TRUE ELSE UNCHANGED rateState
    /\ IF p = "panel" THEN TRUE ELSE UNCHANGED panelState
    /\ IF p = "schedules" THEN TRUE ELSE UNCHANGED schedulesState
    /\ IF p = "session" THEN TRUE ELSE UNCHANGED sessionState
    /\ IF p = "form" THEN TRUE ELSE UNCHANGED formState
    /\ IF p = "mcp" THEN TRUE ELSE UNCHANGED mcpState
    /\ IF p = "fork" THEN TRUE ELSE UNCHANGED forkState
    /\ IF p = "patch" THEN TRUE ELSE UNCHANGED patchState
    /\ IF p = "readers" THEN TRUE ELSE UNCHANGED readerState
    /\ IF p \in {"verdicts", "algorithms"} THEN TRUE ELSE UNCHANGED task

Next ==
    \/ part = "llm" /\ Llm!LlmNext /\ Still("llm")
    \/ part = "rate" /\ Rate!RateNext /\ Still("rate")
    \/ part = "panel" /\ Panel!PanelNext /\ Still("panel")
    \/ part = "schedules" /\ Schedules!ScheduleNext /\ Still("schedules")
    \/ part = "session" /\ Session!TokenNext /\ Still("session")
    \/ part = "form" /\ Form!FormNext /\ Still("form")
    \/ part = "mcp" /\ Mcp!McpNext /\ Still("mcp")
    \/ part = "fork" /\ Fork!ForkNext /\ Still("fork")
    \/ part = "patch" /\ Patch!Next /\ Still("patch")
    \/ part = "readers" /\ ReaderNext /\ Still("readers")
    \/ part = "verdicts" /\ Judge!VerdictNext /\ Still("verdicts")
    \/ part = "algorithms" /\ Alg!AlgNext /\ Still("algorithms")

Spec == Init /\ [][Next]_<<part, Vars>>

\* One part alone, for what is not true of it.
OnlyPanel == Init /\ part = "panel" /\ [][Next]_<<part, Vars>>
OnlyForm == Init /\ part = "form" /\ [][Next]_<<part, Vars>>
OnlyMcp == Init /\ part = "mcp" /\ [][Next]_<<part, Vars>>
OnlyFork == Init /\ part = "fork" /\ [][Next]_<<part, Vars>>
OnlyReaders == Init /\ part = "readers" /\ [][Next]_<<part, Vars>>
OnlyVerdicts == Init /\ part = "verdicts" /\ [][Next]_<<part, Vars>>

-----------------------------------------------------------------------------
(* What the algorithms promise; see Algorithms. *)

\* Reported changes are changes of the upgrade, and an edit block is applied as
\* it was written (lib/agent/signals, lib/agent/patching).
ChangesAreExact == Alg!ChangesAreExact

\* The recall and the pages show the records that were stored
\* (rejection-recall.ts, issue-vm.ts).
RecordsAreShown == Alg!RecordsAreShown

-----------------------------------------------------------------------------
(* What the repository says of a part and its code does not do; see the    *)
(* modules of the parts, and the end of Readers for the lists.             *)

\* The tick with which auto-merge is enabled was given for the repository that
\* is saved (AutoMergePanel.tsx).
EnablingIsMeant == Panel!EnablingIsMeant

\* The acknowledgement posted was given under the preview of the repository
\* posted (scan/new/page.tsx).
AckIsInformed == Form!AckIsInformed

\* A preview whose request is over is that of the repository typed
\* (scan/new/page.tsx).
PreviewIsOfThisRepo == Form!PreviewIsOfThisRepo

\* A total that is no more than the rows shown means that none is missing
\* (lib/mcp/tools.ts, mendel.scan.list).
TotalShowsOverflow == Mcp!TotalShowsOverflow

\* What passed the pre-flight is denied only after a change at GitHub
\* (runner.ts, assessSubmitCapability).
PreflightKeepsItsWord == Fork!PreflightKeepsItsWord

\* A merge reported as not done is not done (lib/github/index.ts,
\* mergePullRequest).
NotOkIsNotMerged == Fork!NotOkIsNotMerged

\* An app that ends with an error has not booted (smoke.ts).
CrashesAreNoBoots == Judge!CrashesAreNoBoots

\* A preview with a failed read does not know (eligibility-preview.ts).
FailedReadsAreUnknown == Judge!FailedReadsAreUnknown

\* The linked issue names this dependency where one does (issue-link.ts).
LinksNameTheDep == Judge!LinksNameTheDep

\* A dependency with a rejection on record is blocked
\* (automerge/runner-glue.ts).
RejectionsBlock == Judge!RejectionsBlock
=============================================================================
