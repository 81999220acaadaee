----------------------------- MODULE Workspace ------------------------------
(***************************************************************************)
(* The packages of a repository: lib/agent/workspace/detect.ts, which the  *)
(* scan runner calls on the clone.                                         *)
(*                                                                         *)
(* A path is a sequence of names, <<>> the root.  A pattern is a record    *)
(* [shape, path, slash]: "star" is path/*, "dir" is path itself, "not"     *)
(* an exclusion, "deep" one with ** or a class, "odd" a star elsewhere;    *)
(* slash says that it ends with one.  A repository has dirs, what stands   *)
(* at a path ("file", "bare", "malformed" or "named" by its package.json;  *)
(* other paths are absent), the patterns of package.json and lerna, the    *)
(* markers, and pnpm, whether there is a pnpm-workspace.yaml.  The loops   *)
(* over its lines and over the patterns are run by Readers, on a record of *)
(* what they have: open and out of the parser, the patterns expanded, and  *)
(* the directories seen.                                                   *)
(***************************************************************************)
EXTENDS Naturals, Sequences, FiniteSets, SequencesExt

None == "none"

-----------------------------------------------------------------------------
(* Declarations *)

\* A line of the YAML file is a record [kind, indented, pattern]: the key
\* "packages:", another "key" at column 0 (a flow list after the key reads
\* like one), or an "item".  Mutant: other keys do not end the list.
BugPnpmLine(res, line) ==
    CASE line.kind = "packages:" -> [res EXCEPT !.open = TRUE]
      [] line.kind = "item" /\ res.open /\ line.indented -> [res EXCEPT !.out = Append(@, line.pattern)]
      [] OTHER -> res
PnpmLine(res, line) ==
    CASE line.kind = "packages:" -> [res EXCEPT !.open = TRUE]
      [] line.kind = "key" -> [res EXCEPT !.open = FALSE]
      [] line.kind = "item" /\ res.open /\ line.indented -> [res EXCEPT !.out = Append(@, line.pattern)]
      [] OTHER -> res
NothingSeen == [open |-> FALSE, out |-> <<>>, expanded |-> 0, seen |-> <<>>]

RootParses(repo) == repo.dirs[<<>>] = "named"
PkgJsonGlobs(repo) == IF RootParses(repo) THEN repo.workspaces ELSE <<>>

\* The first source with a pattern; pnpm's are the parameter.  Mutant: the last.
BugGlobs(repo, pnpm) ==
    CASE repo.lernaGlobs # <<>> -> repo.lernaGlobs
      [] repo.lernaGlobs = <<>> /\ PkgJsonGlobs(repo) # <<>> -> PkgJsonGlobs(repo)
      [] OTHER -> pnpm
Globs(repo, pnpm) ==
    CASE pnpm # <<>> -> pnpm
      [] pnpm = <<>> /\ PkgJsonGlobs(repo) # <<>> -> PkgJsonGlobs(repo)
      [] OTHER -> repo.lernaGlobs

Indicators(repo, pnpm) ==
    (IF pnpm # <<>> THEN {"pnpm-workspace.yaml"} ELSE {})
    \cup (IF PkgJsonGlobs(repo) # <<>> THEN {"package.json#workspaces"} ELSE {})
    \cup (repo.markers \cap {"lerna.json", "nx.json", "turbo.json"})

Kind(marks) ==
    CASE "nx.json" \in marks -> "nx"
      [] "nx.json" \notin marks /\ "turbo.json" \in marks -> "turbo"
      [] marks \cap {"nx.json", "turbo.json"} = {} /\ "pnpm-workspace.yaml" \in marks -> "pnpm"
      [] marks \cap {"nx.json", "turbo.json", "pnpm-workspace.yaml"} = {} /\ "lerna.json" \in marks -> "lerna"
      [] marks = {"package.json#workspaces"} -> "yarn"
      [] OTHER -> "single"

-----------------------------------------------------------------------------
(* Patterns *)

Exists(repo, path) == path \in DOMAIN repo.dirs
HasManifest(repo, path) == Exists(repo, path) /\ repo.dirs[path] \in {"malformed", "named"}
Children(repo, path) == {p \in DOMAIN repo.dirs : Len(p) = Len(path) + 1 /\ IsPrefix(path, p)}

\* The directories of a pattern as <<path, slash>>: a slash at the end stays
\* in the joined path.  Unresolved: the pattern is reported.
Matched(repo, g) ==
    CASE g.shape = "star" /\ ~g.slash /\ Exists(repo, g.path) ->
           {<<p, FALSE>> : p \in {q \in Children(repo, g.path) : HasManifest(repo, q)}}
      [] g.shape = "dir" /\ HasManifest(repo, g.path) -> {<<g.path, g.slash>>}
      [] OTHER -> {}
Unresolved(repo, g) ==
    \/ g.shape \notin {"star", "dir"}
    \/ g.shape = "star" /\ (g.slash \/ ~Exists(repo, g.path) \/ repo.dirs[g.path] = "file")
    \/ g.shape = "dir" /\ ~HasManifest(repo, g.path)

-----------------------------------------------------------------------------
(* detectWorkspace *)

\* Every directory once, by its joined path.  Mutant: as often as it matches.
BugNewDirs(seen, dirs) == dirs
NewDirs(seen, dirs) == dirs \ ToSet(seen)
ExpandNext(repo, st) ==
    LET g == Globs(repo, st.out)[st.expanded + 1]
    IN  [st EXCEPT !.expanded = @ + 1, !.seen = @ \o SetToSeq(NewDirs(@, Matched(repo, g)))]

\* The order is that of the relative paths, which differ in nothing else.
Packages(repo, seen) ==
    IF seen # <<>> THEN [i \in DOMAIN seen |-> seen[i][1]]
    ELSE IF RootParses(repo) THEN << <<>> >> ELSE <<>>

DetectWorkspace(repo, st) ==
    [kind       |-> Kind(Indicators(repo, st.out)),
     packages   |-> Packages(repo, st.seen),
     globs      |-> Globs(repo, st.out),
     unresolved |-> (IF HasManifest(repo, <<>>) /\ ~RootParses(repo) THEN {"package.json"} ELSE {})
                    \cup (IF repo.lernaMalformed THEN {"lerna.json"} ELSE {}),
     dropped    |-> {i \in DOMAIN Globs(repo, st.out) : Unresolved(repo, Globs(repo, st.out)[i])}]

-----------------------------------------------------------------------------
(* What it promises                                                        *)

\* The patterns of pnpm-workspace.yaml as pnpm reads it.
Declared(lines) ==
    {lines[i].pattern : i \in {i \in DOMAIN lines :
        /\ lines[i].kind = "item"
        /\ \E o \in 1..(i - 1) : /\ lines[o].kind = "packages:"
                                /\ \A k \in (o + 1)..(i - 1) : lines[k].kind # "key"}}

\* The patterns of the declaration of highest rank.
Source(repo, lines) ==
    IF Declared(lines) # {} THEN Declared(lines)
    ELSE IF PkgJsonGlobs(repo) # <<>> THEN ToSet(repo.workspaces)
    ELSE ToSet(repo.lernaGlobs)

\* A pattern names a package.
Names(repo, g, p) ==
    /\ ~g.slash /\ HasManifest(repo, p)
    /\ \/ g.shape = "dir" /\ p = g.path
       \/ g.shape = "star" /\ p \in Children(repo, g.path)

\* The packages are those the declaration of highest rank names, each once;
\* a pattern that names none is reported, unless its prefix is there and
\* has no package below it.  (With pnpm lines as the parser wants them and
\* no pattern that ends with a slash.)
WorkspaceIsWhole(repo, lines, st) ==
    LET w == DetectWorkspace(repo, st)
        source == Source(repo, lines)
    IN  (\A i \in DOMAIN lines : lines[i].indented) /\ st.expanded = Len(w.globs) =>
          /\ (\A g \in source : ~g.slash) => IsInjective(w.packages)
          /\ \A i \in DOMAIN w.packages : HasManifest(repo, w.packages[i])
          /\ \A p \in DOMAIN repo.dirs :
               (\E g \in source : Names(repo, g, p)) => p \in ToSet(w.packages)
          /\ \A g \in source : (\A p \in DOMAIN repo.dirs : ~Names(repo, g, p)) =>
               \/ \E i \in w.dropped : w.globs[i] = g
               \/ g.shape = "star" /\ Exists(repo, g.path)
               \/ g.shape = "dir" /\ g.slash /\ HasManifest(repo, g.path)
          /\ w.kind = "single" => source = {} /\ repo.markers = {}

\* Not true of the code: an item of the list is resolved or reported, also
\* when it is not indented.
NoGlobIsDropped(lines, st) == Declared(lines) \subseteq ToSet(st.out)

\* Not true of the code: a repository has at least one package.
AlwaysAPackage(repo, st) ==
    st.expanded = Len(Globs(repo, st.out)) => DetectWorkspace(repo, st).packages # <<>>

\* Not true of the code: no package is listed twice.
PackagesAreDistinct(repo, st) == IsInjective(DetectWorkspace(repo, st).packages)
=============================================================================
