------------------------------ MODULE Readers -------------------------------
(***************************************************************************)
(* The loops of Mendel over what somebody else has written: manifests line *)
(* by line, dependencies one after another against their registries, the   *)
(* answers of the model, lists of hosts and declarations of workspaces     *)
(* (Languages, Blocks, Toolchain, Workspace).  One step is one round of    *)
(* the loop.  A file may end after any line, so that every state is that   *)
(* of a reader that has read all of its file: what holds of the states     *)
(* holds of the results.                                                   *)
(***************************************************************************)
EXTENDS HostLimits, Integers, Sequences, FiniteSets

CONSTANTS
    Lines,      \* of each kind of reader, the lines it may meet
    MaxLines,   \* how many of them, a bound of the instance
    Repos       \* the repositories in which workspaces are looked for

VARIABLES
    reader,     \* its kind, and its repository if it needs one
    input,      \* the lines it has read
    parsed      \* the local variables of its loop

Lang == INSTANCE Languages
Edit == INSTANCE Blocks
Work == INSTANCE Workspace
Tool == INSTANCE Toolchain WITH HostCap <- MaxHosts, Tier1 <- Tier1Hosts

-----------------------------------------------------------------------------
(* What can be read, of any length *)

StaleKinds == {"typescript", "python", "go", "rust"}
FileKinds == {"requirements.txt", "pyproject.toml", "Pipfile", "go.mod", "Cargo.toml"}
Kinds == StaleKinds \cup FileKinds \cup {"answer", "hosts", "workspace"}

Version == [mark : STRING, parts : Seq(Nat \cup {Lang!NaN})]
Dep == [types : BOOLEAN, range : Version, latest : Version, responses : Seq(STRING)]
NamedLine == [kind : STRING, name : STRING, range : Version]
PyItem == [name : STRING, extras : BOOLEAN, range : Version]
\* Only the header of a section always has a "]".
PyLine == {l \in [kind : STRING, name : STRING, form : STRING, range : Version,
                  items : Seq(PyItem), closes : BOOLEAN] : l.kind = "section" => l.closes}
GoLine == [kind : STRING, name : STRING, range : Version, indirect : BOOLEAN]
CargoLine == [kind : {"section"}, name : Seq(STRING)]
             \cup [kind : {"string", "inline", "odd"}, name : STRING, fields : SUBSET STRING, range : Version]
Host == [host : STRING, valid : BOOLEAN]
Path == Seq(STRING)
Pattern == [shape : STRING, path : Path, slash : BOOLEAN]
PnpmLine == [kind : STRING, indented : BOOLEAN, pattern : Pattern]

FormOf(kind) ==
    CASE kind \in StaleKinds -> Dep
      [] kind \in {"requirements.txt", "Pipfile"} -> NamedLine
      [] kind = "pyproject.toml" -> PyLine
      [] kind = "go.mod" -> GoLine
      [] kind = "Cargo.toml" -> CargoLine
      [] kind = "answer" -> STRING \ {Edit!NoPath}
      [] kind = "hosts" -> Host
      [] kind = "workspace" -> PnpmLine

\* The directories form a tree, and a lerna.json that has patterns is there.
Repo(r) ==
    /\ r.dirs \in [DOMAIN r.dirs -> {"file", "bare", "malformed", "named"}]
    /\ IsFiniteSet(DOMAIN r.dirs) /\ DOMAIN r.dirs \subseteq Path /\ <<>> \in DOMAIN r.dirs
    /\ \A p \in DOMAIN r.dirs : \A n \in 0..Len(p) : SubSeq(p, 1, n) \in DOMAIN r.dirs
    /\ r.pnpm \in BOOLEAN /\ r.workspaces \in Seq(Pattern) /\ r.lernaGlobs \in Seq(Pattern)
    /\ r.markers \subseteq {"lerna.json", "nx.json", "turbo.json"}
    /\ r.lernaGlobs # <<>> => "lerna.json" \in r.markers

ASSUME ReaderAssumption ==
    /\ \A kind \in Kinds : Lines[kind] \subseteq FormOf(kind) /\ MaxLines[kind] \in Nat
    /\ \A r \in Repos : Repo(r)
    /\ MaxHosts \in Nat

-----------------------------------------------------------------------------
(* The loops *)

Start(kind) ==
    CASE kind \in StaleKinds -> Lang!Nothing
      [] kind = "requirements.txt" -> <<>>
      [] kind = "Pipfile" -> Lang!NoPipfile
      [] kind = "pyproject.toml" -> Lang!NoPyproject
      [] kind = "go.mod" -> Lang!NoGoMod
      [] kind = "Cargo.toml" -> Lang!NoCargoToml
      [] kind = "answer" -> Edit!NoAnswer
      [] kind = "hosts" -> Tool!NoHosts
      [] kind = "workspace" -> Work!NothingSeen

ReaderInit ==
    /\ \/ \E kind \in Kinds \ {"workspace"} : reader = [kind |-> kind]
       \/ \E repo \in Repos : reader = [kind |-> "workspace", repo |-> repo]
    /\ input = <<>>
    /\ parsed = Start(reader.kind)

\* The loop takes its next line.
More(kind) == reader.kind = kind /\ Len(input) < MaxLines[kind]
Takes(l, st) == input' = Append(input, l) /\ parsed' = st /\ UNCHANGED reader

CountDep == \E lang \in StaleKinds : More(lang)
    /\ \E dep \in Lines[lang] : Takes(dep, Lang!CountDep(lang, parsed, dep))
ReadRequirement == More("requirements.txt")
    /\ \E l \in Lines["requirements.txt"] : Takes(l, Lang!RequirementLine(parsed, l))
ReadPipfile == More("Pipfile")
    /\ \E l \in Lines["Pipfile"] : Takes(l, Lang!PipfileLine(parsed, l))
ReadPyproject == More("pyproject.toml")
    /\ \E l \in Lines["pyproject.toml"] : Takes(l, Lang!PyLine(parsed, l))
ReadGoMod == More("go.mod")
    /\ \E l \in Lines["go.mod"] : Takes(l, Lang!GoLine(parsed, l))
ReadCargoToml == More("Cargo.toml")
    /\ \E l \in Lines["Cargo.toml"] : Takes(l, Lang!CargoLine(parsed, l))
ReadAnswer == More("answer")
    /\ \E l \in Lines["answer"] : Takes(l, Edit!ParseLine(parsed, l))
AddHost == More("hosts")
    /\ \E e \in Lines["hosts"] : Takes(e, Tool!AddHost(parsed, e))

\* The patterns are expanded when all lines are read.
ReadPnpm ==
    /\ More("workspace") /\ reader.repo.pnpm /\ parsed.expanded = 0
    /\ \E l \in Lines["workspace"] : Takes(l, Work!PnpmLine(parsed, l))
ExpandGlob ==
    /\ reader.kind = "workspace"
    /\ parsed.expanded < Len(Work!Globs(reader.repo, parsed.out))
    /\ parsed' = Work!ExpandNext(reader.repo, parsed)
    /\ UNCHANGED <<reader, input>>

ReaderNext ==
    \/ CountDep \/ ReadRequirement \/ ReadPipfile \/ ReadPyproject \/ ReadGoMod \/ ReadCargoToml
    \/ ReadAnswer \/ AddHost \/ ReadPnpm \/ ExpandGlob

readerState == <<reader, input, parsed>>
ReaderSpec == ReaderInit /\ [][ReaderNext]_readerState

-----------------------------------------------------------------------------

\* What a repository, a form or an answer declares is read as it is declared:
\* the dependencies of a manifest, but for items of pyproject.toml below an extra
\* and tables of single crates, the edits of an answer, the packages of a
\* workspace and the hosts of an allowlist; what is told stale is stale, and told
\* where the adapter compares numbers (lib/agent/lang, lib/agent/phases/detect.ts,
\* search-replace.ts, workspace, iptables-allowlist.ts).
ListsAreRead ==
    CASE reader.kind \in StaleKinds -> Lang!StaleAreTold(reader.kind, input, parsed)
      [] reader.kind = "requirements.txt" -> Lang!RequirementsAreRead(input, parsed)
      [] reader.kind = "Pipfile" -> Lang!PipfileIsRead(input, parsed)
      [] reader.kind = "pyproject.toml" -> Lang!PyprojectIsRead(input, parsed)
      [] reader.kind = "go.mod" -> Lang!GoModIsRead(input, parsed)
      [] reader.kind = "Cargo.toml" -> Lang!CargoTomlIsRead(input, parsed)
      [] reader.kind = "answer" -> Edit!AnswerIsRead(input, parsed.blocks)
      [] reader.kind = "hosts" -> Tool!EveryHostIsAnswered(input, parsed)
      [] reader.kind = "workspace" -> Work!WorkspaceIsWhole(reader.repo, input, parsed)

-----------------------------------------------------------------------------
(* What the repository says of the readers and the code does not do. *)

\* Not true of the code: the stale dependencies of every language are told
\* (lib/agent/lang/go.ts, rust.ts).
AllStaleAreTold ==
    reader.kind \in StaleKinds => Lang!StaleOfEveryLanguage(reader.kind, input, parsed)

\* Not true of the code: no item of an array of dependencies is dropped in
\* silence (lib/agent/lang/python.ts).
AllItemsAreRead == reader.kind = "pyproject.toml" => Lang!PyItemsAreRead(input, parsed)

\* Not true of the code: [dependencies.name] is a table for the dependency of
\* that name (lib/agent/lang/rust.ts).
AllTablesAreRead == reader.kind = "Cargo.toml" => Lang!CargoTablesAreRead(input, parsed)
=============================================================================
