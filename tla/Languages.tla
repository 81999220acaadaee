----------------------------- MODULE Languages -----------------------------
(***************************************************************************)
(* The language adapters (lib/agent/lang): which of them owns a            *)
(* repository, how each reads the declared dependencies from its           *)
(* manifests, asks its registry for the latest versions and tells the      *)
(* stale dependencies, and what its semantic diff is when the analyzer     *)
(* cannot run.                                                             *)
(*                                                                         *)
(* A manifest is a sequence of lines, a line is what the regular           *)
(* expressions of its parser tell apart.  A version or range is the mark   *)
(* before its first digit and the numbers between its dots.  The loop of a *)
(* parser is the operator of one line; Readers runs it.                    *)
(***************************************************************************)
EXTENDS Integers, Sequences, FiniteSets, SequencesExt, TLC

-----------------------------------------------------------------------------
(* Versions *)

NaN == -1

\* parseVersion: "^1.2", ">=1.2" and "v1.2" become "1.2", "*" becomes "".
ParseVersion(range) == [range EXCEPT !.mark = ""]

\* Number() of a dotted part: with the mark the first one is no number.
Major(v) == IF v.mark # "" THEN NaN ELSE IF v.parts = <<>> THEN 0 ELSE v.parts[1]
Minor(v) == IF Len(v.parts) < 2 THEN 0 ELSE v.parts[2]

BugIsSignificantlyBehind(from, to) ==
    /\ NaN \notin {Major(from), Major(to)}
    /\ Major(to) > Major(from) \/ Minor(to) > Minor(from) + 2
IsSignificantlyBehind(from, to) ==
    /\ NaN \notin {Major(from), Major(to)}
    /\ \/ Major(to) > Major(from)
       \/ /\ Major(to) = Major(from) /\ NaN \notin {Minor(from), Minor(to)}
          /\ Minor(to) > Minor(from) + 2

-----------------------------------------------------------------------------
(* Registries and stale dependencies *)

\* The first of so many responses that is no reason to ask again.
Final(responses, tries) ==
    LET final == {i \in 1..tries : /\ i <= Len(responses)
                                   /\ responses[i] \notin {"429", "5xx", "thrown"}}
    IN  IF final = {} THEN "thrown" ELSE responses[CHOOSE i \in final : \A j \in final : i <= j]

\* npm: a package that is not published, or has no version, is checked.
GetLatestVersion(responses) ==
    CASE Final(responses, 3) = "ok" -> "found"
      [] Final(responses, 3) \in {"404", "no version"} -> "none"
      [] OTHER -> "failed"

GetLatestPyPiVersion(responses) == IF Final(responses, 3) = "ok" THEN "found" ELSE "failed"

\* The Go proxy and crates.io are asked once.
LookupLatestGoVersion(responses) == IF Final(responses, 1) = "ok" THEN "found" ELSE "failed"

\* A crate without a stable version answers with its latest one.
LookupLatestCrateVersion(responses) ==
    IF Final(responses, 1) \in {"ok", "only pre-release"} THEN "found" ELSE "failed"

\* One dependency of the loop: what its lookup found, and the version it has.
Counted(res, found, dep, current) ==
    IF found = "failed" THEN [res EXCEPT !.failed = @ + 1]
    ELSE IF found = "found" /\ dep.range.parts # <<>> /\ IsSignificantlyBehind(current, dep.latest)
         THEN [res EXCEPT !.checked = @ + 1, !.stale = Append(@, dep)]
         ELSE [res EXCEPT !.checked = @ + 1]

\* Neither types nor links into the workspace, nor ranges without a version.
NpmSkips(dep) ==
    dep.types \/ dep.range.mark \in {"workspace:", "*", "latest"} \/ dep.range.parts = <<>>

BugNpmDep(res, dep) ==
    IF NpmSkips(dep) THEN res
    ELSE Counted(res, GetLatestVersion(dep.responses), dep, dep.range)
NpmDep(res, dep) ==
    IF NpmSkips(dep) THEN res
    ELSE Counted(res, GetLatestVersion(dep.responses), dep, ParseVersion(dep.range))

PyDep(res, dep) ==
    Counted(res, GetLatestPyPiVersion(dep.responses), dep, ParseVersion(dep.range))

\* Go and Rust compare the version as the manifest spells it.
GoDep(res, dep) == Counted(res, LookupLatestGoVersion(dep.responses), dep, dep.range)
RustDep(res, dep) == Counted(res, LookupLatestCrateVersion(dep.responses), dep, dep.range)

Nothing == [stale |-> <<>>, checked |-> 0, failed |-> 0]
CountDep(lang, res, dep) ==
    CASE lang = "typescript" -> NpmDep(res, dep)
      [] lang = "python" -> PyDep(res, dep)
      [] lang = "go" -> GoDep(res, dep)
      [] lang = "rust" -> RustDep(res, dep)

-----------------------------------------------------------------------------
(* Python manifests *)

\* A map with an entry set.
Put(deps, name, range) == [n \in DOMAIN deps \cup {name} |-> IF n = name THEN range ELSE deps[n]]

\* requirements.txt: a later line for the same name replaces an earlier one.
RequirementLine(deps, l) == IF l.kind = "req" THEN Put(deps, l.name, l.range) ELSE deps

\* A Pipfile: the entries of its table [packages].
NoPipfile == [in |-> FALSE, deps |-> <<>>]
PipfileLine(st, l) ==
    CASE l.kind = "section" -> [st EXCEPT !.in = l.name = "packages"]
      [] l.kind = "entry" /\ st.in -> [st EXCEPT !.deps = Put(@, l.name, l.range)]
      [] OTHER -> st

\* The items of a PEP 621 array, a later one of the same name instead of an earlier.
FlushPep621(deps, buffer) ==
    [n \in DOMAIN deps \cup {buffer[k].name : k \in DOMAIN buffer} |->
        LET k == SelectLastInSeq(buffer, LAMBDA item : item.name = n)
        IN  IF k = 0 THEN deps[n] ELSE buffer[k].range]

\* A line of an array with a "]" ends it, and the extras of a requirement have
\* one, too: name[extra].
EndsArray(l) == l.closes \/ \E i \in DOMAIN l.items : l.items[i].extras

PyArrayLine(st, l) ==
    LET buffer == st.buffer \o l.items IN
    IF EndsArray(l)
    THEN [st EXCEPT !.mode = "none", !.buffer = <<>>, !.deps = FlushPep621(@, buffer)]
    ELSE [st EXCEPT !.mode = "array", !.buffer = buffer]

PySection(st, l) ==
    [st EXCEPT !.mode = IF l.name = "poetry" THEN "poetry" ELSE "none",
               !.unparsed = IF l.name = "poetry-dev" THEN @ \cup {l.name} ELSE @]

\* The interpreter is no dependency, and an inline table needs a version.
BugPyEntry(st, l) == [st EXCEPT !.deps = Put(@, l.name, l.range)]
PyEntry(st, l) ==
    IF l.name = "python" \/ l.form = "no version" THEN st
    ELSE [st EXCEPT !.deps = Put(@, l.name, l.range)]

\* Every line may hold quoted items and a "]"; the start of an array below
\* [tool.poetry.dependencies] reads as an entry.
PyLine(st, l) ==
    CASE st.mode = "array" -> PyArrayLine(st, l)
      [] st.mode # "array" /\ l.kind = "section" -> PySection(st, l)
      [] st.mode = "poetry" /\ l.kind \in {"entry", "array"} -> PyEntry(st, l)
      [] st.mode = "none" /\ l.kind = "array" -> PyArrayLine(st, l)
      [] OTHER -> st

NoPyproject == [mode |-> "none", buffer |-> <<>>, deps |-> <<>>, unparsed |-> {}]

-----------------------------------------------------------------------------
(* go.mod *)

BugGoRequire(st, l) == [st EXCEPT !.requires = Put(@, l.name, l.range)]
GoRequire(st, l) ==
    IF l.indirect THEN [st EXCEPT !.indirect = @ \cup {l.name}]
    ELSE [st EXCEPT !.requires = Put(@, l.name, l.range)]

\* The two flags of the parser are not exclusive where blocks overlap.
GoLine(st, l) ==
    CASE l.kind = ")" /\ st.inRequire -> [st EXCEPT !.inRequire = FALSE]
      [] l.kind = ")" /\ ~st.inRequire -> [st EXCEPT !.inOther = FALSE]
      [] l.kind = "require (" -> [st EXCEPT !.inRequire = TRUE]
      [] l.kind = "replace (" -> [st EXCEPT !.inOther = TRUE, !.unparsed = @ \cup {"replace"}]
      [] l.kind = "replace" -> [st EXCEPT !.unparsed = @ \cup {"replace"}]
      [] l.kind = "require" /\ ~st.inOther /\ ~st.inRequire -> GoRequire(st, l)
      [] l.kind = "item" /\ ~st.inOther /\ st.inRequire -> GoRequire(st, l)
      [] l.kind = "item" /\ ~st.inOther /\ ~st.inRequire -> [st EXCEPT !.unparsed = @ \cup {l.name}]
      [] OTHER -> st

NoGoMod == [inRequire |-> FALSE, inOther |-> FALSE, requires |-> <<>>, indirect |-> {}, unparsed |-> {}]

-----------------------------------------------------------------------------
(* Cargo.toml; a section header is the sequence of its dotted names *)

\* The expression for nested tables wants a name before "dependencies", too.
CargoSection(h) ==
    CASE h \in {<<"dependencies">>, <<"dev-dependencies">>, <<"build-dependencies">>,
                <<"workspace", "dependencies">>} -> h
      [] Len(h) = 3 /\ SubSeq(h, 1, 2) = <<"dependencies", "dependencies">> ->
           <<"table", h[3]>>
      [] OTHER -> <<"other">>

\* git, path and workspace dependencies have no version to check.
CategorizeInlineDep(fields) ==
    IF fields \cap {"git", "path", "workspace"} = {} /\ "version" \in fields
    THEN "version" ELSE "unparsed"

CargoDep(st, l) ==
    IF st.section \in {<<"dev-dependencies">>, <<"build-dependencies">>}
    THEN [st EXCEPT !.skipped = @ + (IF l.kind = "odd" THEN 0 ELSE 1)]
    ELSE IF l.kind = "odd" \/ CategorizeInlineDep(l.fields) = "unparsed"
         THEN [st EXCEPT !.unparsed = @ \cup {l.name}]
         ELSE IF st.section = <<"workspace", "dependencies">>
              THEN [st EXCEPT !.workspace = Put(@, l.name, l.range)]
              ELSE [st EXCEPT !.deps = Put(@, l.name, l.range)]

\* A line below [dependencies.dependencies.name].
CargoTableLine(st, l) ==
    CASE l.kind = "string" /\ l.name = "version" -> [st EXCEPT !.deps = Put(@, st.section[2], l.range)]
      [] l.kind = "string" /\ l.name \in {"git", "path"} -> [st EXCEPT !.unparsed = @ \cup {st.section[2]}]
      [] l.kind = "inline" /\ l.fields \cap {"git", "path"} # {} ->
           [st EXCEPT !.unparsed = @ \cup {st.section[2]}]
      [] OTHER -> st

\* The header of an array of tables, [[bin]], is no section header.
CargoLine(st, l) ==
    CASE l.kind = "section" -> [st EXCEPT !.section = CargoSection(l.name)]
      [] l.kind # "section" /\ st.section = <<"other">> -> st
      [] l.kind # "section" /\ st.section[1] = "table" -> CargoTableLine(st, l)
      [] OTHER -> CargoDep(st, l)

NoCargoToml ==
    [section |-> <<"other">>, deps |-> <<>>, workspace |-> <<>>, unparsed |-> {}, skipped |-> 0]

-----------------------------------------------------------------------------
(* The registry of adapters, and the diff of an external analyzer *)

LanguageIds == <<"rust", "go", "python", "typescript">>

\* Cargo.lock, go.sum or go.work alone make no repository of a language.
RustDetects(files) == "Cargo.toml" \in files
GoDetects(files) == "go.mod" \in files
PythonDetects(files) ==
    {"pyproject.toml", "setup.py", "Pipfile", "requirements.txt"} \cap files # {}
TypescriptDetects(files) == {"package.json", "tsconfig.json"} \cap files # {}

Detects(lang, files) ==
    CASE lang = "rust" -> RustDetects(files) [] lang = "go" -> GoDetects(files)
      [] lang = "python" -> PythonDetects(files) [] lang = "typescript" -> TypescriptDetects(files)

SelectAdapter(files) ==
    LET i == SelectInSeq(LanguageIds, LAMBDA lang : Detects(lang, files))
    IN  IF i = 0 THEN "none" ELSE LanguageIds[i]

\* Nothing is claimed without the image, or when the tool fails on the pair.
Fallback == [tier |-> "ast-only", coverage |-> 0, removed |-> {}, unanalyzable |-> {"*"}]
BugAnalyzed(tier, image, out) ==
    IF ~image THEN Fallback
    ELSE [tier |-> tier, coverage |-> 100, removed |-> out.removed, unanalyzable |-> {}]
Analyzed(tier, image, out) ==
    IF ~image \/ out.thrown THEN Fallback
    ELSE [tier |-> tier, coverage |-> 100, removed |-> out.removed, unanalyzable |-> {}]

PythonDiff(image, out) == Analyzed("griffe", image, out)
GoDiff(image, out) == Analyzed("apidiff", image, out)
RustDiff(image, out) == Analyzed("cargo-semver-checks", image, out)

-----------------------------------------------------------------------------
(* What the adapters promise *)

\* A version, or three minors more, in the order of versions.
NotAfter(v, w) == v[1] < w[1] \/ (v[1] = w[1] /\ v[2] <= w[2])
Clearly(from, to) ==
    /\ NaN \notin {Major(from), Major(to), Minor(from), Minor(to)}
    /\ NotAfter(<<Major(from), Minor(from) + 3>>, <<Major(to), Minor(to)>>)

\* Staleness is an order: of two versions one is behind at most, and what is
\* behind a version is behind every later one.
BehindIsAnOrder(u, v, w) ==
    /\ ~(IsSignificantlyBehind(u, v) /\ IsSignificantlyBehind(v, u))
    /\ IsSignificantlyBehind(u, v) /\ NotAfter(<<Major(v), Minor(v)>>, <<Major(w), Minor(w)>>)
         => IsSignificantlyBehind(u, w)

Skipped(lang, dep) == lang = "typescript" /\ NpmSkips(dep)
Answered(lang, dep) ==
    CASE lang = "typescript" -> GetLatestVersion(dep.responses) = "found"
      [] lang = "python" -> GetLatestPyPiVersion(dep.responses) = "found"
      [] lang = "go" -> LookupLatestGoVersion(dep.responses) = "found"
      [] lang = "rust" -> LookupLatestCrateVersion(dep.responses) = "found"

\* The lookup answers with a clearly later version, whatever marks stand before
\* the numbers of the two.
ClearlyStale(lang, dep) ==
    /\ ~Skipped(lang, dep) /\ dep.range.parts # <<>>
    /\ Answered(lang, dep) /\ Clearly(ParseVersion(dep.range), ParseVersion(dep.latest))

\* The adapter compares numbers, not NaN: Go and Rust keep the mark of a range.
ComparesNumbers(lang, dep) ==
    dep.latest.mark = "" /\ (lang \in {"typescript", "python"} \/ dep.range.mark = "")

\* Every dependency is counted once; what is told stale is clearly stale, and
\* what is clearly stale is told where the adapter compares numbers, whatever
\* else failed.
StaleAreTold(lang, deps, res) ==
    /\ res.checked + res.failed + Cardinality({i \in DOMAIN deps : Skipped(lang, deps[i])})
         = Len(deps)
    /\ ToSet(res.stale) \subseteq ToSet(deps)
    /\ \A i \in DOMAIN deps :
         NaN \notin {Minor(deps[i].range), Minor(deps[i].latest)} =>
           /\ deps[i] \in ToSet(res.stale) => ClearlyStale(lang, deps[i])
           /\ ClearlyStale(lang, deps[i]) /\ ComparesNumbers(lang, deps[i])
                => deps[i] \in ToSet(res.stale)

\* Not true of Go and Rust: a lookup that answers with a clearly later version
\* makes a stale dependency.
StaleOfEveryLanguage(lang, deps, res) ==
    \A i \in DOMAIN deps : ClearlyStale(lang, deps[i]) => deps[i] \in ToSet(res.stale)

\* The map has what the lines I declare, under each name the last of them.
ReadsLast(lines, I, deps) ==
    /\ DOMAIN deps = {lines[i].name : i \in I}
    /\ \A i \in I : (\A k \in I : k > i => lines[k].name # lines[i].name)
                   => deps[lines[i].name] = lines[i].range

RequirementsAreRead(lines, deps) == ReadsLast(lines, {i \in DOMAIN lines : lines[i].kind = "req"}, deps)

\* Line i stands below the section header h, with no other in between.
Below(lines, i, h) ==
    \E j \in 1..(i - 1) : /\ lines[j].kind = "section" /\ lines[j].name = h
                          /\ \A k \in (j + 1)..(i - 1) : lines[k].kind # "section"

PipfileIsRead(lines, st) ==
    ReadsLast(lines, {i \in DOMAIN lines : lines[i].kind = "entry" /\ Below(lines, i, "packages")}, st.deps)

\* Line i is one of the array that starts at line j and has not ended before;
\* or, for the parser, it has had no extra before either.
InArray(lines, i) ==
    \E j \in 1..(i - 1) : lines[j].kind = "array" /\ \A k \in j..(i - 1) : ~lines[k].closes
ReadAsArray(lines, i) ==
    \E j \in 1..(i - 1) : lines[j].kind = "array" /\ \A k \in j..(i - 1) : ~EndsArray(lines[k])

WellFormedPy(lines) == \A i \in DOMAIN lines :
    /\ lines[i].kind = "items" <=> InArray(lines, i)
    /\ lines[i].kind = "array" => ~Below(lines, i, "poetry")

PyEntries(lines) == {i \in DOMAIN lines :
    /\ lines[i].kind = "entry" /\ Below(lines, i, "poetry")
    /\ lines[i].name # "python" /\ lines[i].form # "no version"}
PyArrayLines(lines) == {i \in DOMAIN lines :
    lines[i].kind = "array" \/ (lines[i].kind = "items" /\ ReadAsArray(lines, i))}
PyAboveExtras(lines) ==
    (UNION {{lines[i].items[k].name : k \in DOMAIN lines[i].items} : i \in PyArrayLines(lines)})
    \cup {lines[i].name : i \in PyEntries(lines)}

\* All items of the arrays, and the entries.
PyDeclared(lines) ==
    (UNION {{lines[i].items[k].name : k \in DOMAIN lines[i].items} :
              i \in {i \in DOMAIN lines : lines[i].kind \in {"array", "items"}}})
    \cup {lines[i].name : i \in PyEntries(lines)}

\* Nothing but the declared dependencies is read from pyproject.toml, and of
\* them at least those no extra of the same array stands above; sections of
\* development dependencies are named.
PyprojectIsRead(lines, st) == WellFormedPy(lines) =>
    /\ ~InArray(lines, Len(lines) + 1) =>
         PyAboveExtras(lines) \subseteq DOMAIN st.deps /\ DOMAIN st.deps \subseteq PyDeclared(lines)
    /\ (\E i \in DOMAIN lines : lines[i].kind = "section" /\ lines[i].name = "poetry-dev")
         <=> st.unparsed # {}

\* Not true of the code: every item of an array is read.  The "]" of an extra
\* ends the array for the parser.
PyItemsAreRead(lines, st) ==
    WellFormedPy(lines) /\ ~InArray(lines, Len(lines) + 1) => PyDeclared(lines) \subseteq DOMAIN st.deps

\* Line i stands in the block that k has opened.
GoEdges == {"require (", "replace (", ")"}
InBlock(lines, i, k) ==
    \E j \in 1..(i - 1) : /\ lines[j].kind = k
                          /\ \A m \in (j + 1)..(i - 1) : lines[m].kind \notin GoEdges

\* In a well-formed go.mod blocks are closed before others open.
WellFormedGo(lines) == \A i \in DOMAIN lines :
    lines[i].kind \in {"item", ")"} <=> InBlock(lines, i, "require (") \/ InBlock(lines, i, "replace (")

GoRequired(lines, indirect) == {i \in DOMAIN lines :
    /\ lines[i].kind \in {"require", "item"} /\ lines[i].indirect = indirect
    /\ ~InBlock(lines, i, "replace (")}

\* Every requirement of go.mod is checked or, when it is indirect, named; what
\* stands in other blocks is no requirement.
GoModIsRead(lines, st) == WellFormedGo(lines) =>
    /\ ReadsLast(lines, GoRequired(lines, FALSE), st.requires)
    /\ st.indirect = {lines[i].name : i \in GoRequired(lines, TRUE)}

\* What stands below [dependencies], up to the next header of a section.  The
\* header of an array of tables ends it, too, but not for the parser.
CargoDeclared(lines) == {lines[i].name : i \in {i \in DOMAIN lines :
    lines[i].kind # "section" /\ Below(lines, i, <<"dependencies">>)}}

\* Tables of single dependencies: [dependencies.name] as Cargo has them, and
\* [dependencies.dependencies.name] as the parser wants them.
CargoTables(lines, parents) ==
    {lines[i].name[Len(parents) + 1] : i \in {i \in DOMAIN lines :
        /\ lines[i].kind = "section" /\ Len(lines[i].name) = Len(parents) + 1
        /\ SubSeq(lines[i].name, 1, Len(parents)) = parents}}

\* Each line under [dependencies] is checked or named with a reason, and
\* nothing is checked that is neither such a line nor a table of a dependency.
CargoTomlIsRead(lines, st) ==
    /\ DOMAIN st.deps \subseteq
         CargoDeclared(lines) \cup CargoTables(lines, <<"dependencies">>)
         \cup CargoTables(lines, <<"dependencies", "dependencies">>)
    /\ CargoDeclared(lines) \subseteq DOMAIN st.deps \cup st.unparsed

\* Not true of the code: the table of a single dependency is checked or named.
CargoTablesAreRead(lines, st) ==
    CargoTables(lines, <<"dependencies">>) \subseteq DOMAIN st.deps \cup st.unparsed

\* A repository goes to the most specific language it has a manifest of, and
\* to none only if it has none.
AdapterOwnsRepo(files) ==
    LET lang == SelectAdapter(files) IN
    /\ lang = "none" <=> \A i \in DOMAIN LanguageIds : ~Detects(LanguageIds[i], files)
    /\ lang = "typescript" => \A l \in {"rust", "go", "python"} : ~Detects(l, files)

\* An analyzer that did not run is never named, covers nothing and says so.
DiffIsEarned(lang, image, out) ==
    LET diff == CASE lang = "python" -> PythonDiff(image, out) [] lang = "go" -> GoDiff(image, out)
                  [] lang = "rust" -> RustDiff(image, out) IN
    IF image /\ ~out.thrown
    THEN diff.tier # "ast-only" /\ diff.removed = out.removed
    ELSE diff.tier = "ast-only" /\ diff.coverage = 0 /\ diff.removed = {}
         /\ diff.unanalyzable # {}
=============================================================================
