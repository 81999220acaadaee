------------------------------ MODULE Signals ------------------------------
(***************************************************************************)
(* The two signals on an upgrade (lib/agent/signals): the diff of what two *)
(* versions of a package export (semantic-diff.ts), the sites of the       *)
(* repository it affects (with the index of ast-parser.ts), and the        *)
(* release notes the changelog signal reads (changelog.ts).                *)
(*                                                                         *)
(* A file is the sequence of its exports, or Unparsable.  An export has a  *)
(* name, a signature, a form and a deprecation tag.  What tsc emits from   *)
(* JavaScript with type comments is data of the version.                   *)
(***************************************************************************)
EXTENDS Integers, Sequences, FiniteSets, SequencesExt, TLC

Hidden == {"default", "__internal"}
Unparsable == [parses |-> FALSE, exports |-> <<>>]

-----------------------------------------------------------------------------
(* Symbol tables *)

NoSymbols == [table |-> <<>>, unanalyzable |-> <<>>]

\* The first declaration of a name wins.
BugAddSymbol(st, e, sig, dep) ==
    [st EXCEPT !.table = (e.name :> [sig |-> sig, deprecated |-> dep]) @@ @]
AddSymbol(st, e, sig, dep) ==
    IF e.name \in Hidden \cup DOMAIN st.table THEN st
    ELSE [st EXCEPT !.table = (e.name :> [sig |-> sig, deprecated |-> dep]) @@ @]

Unanalyzable(st, what) == [st EXCEPT !.unanalyzable = Append(@, what)]

\* The exports of a .d.ts file; one the type checker fails on is unanalyzable,
\* unless it is hidden or known already.
DtsExport(st, e) ==
    IF e.form = "odd" /\ e.name \notin Hidden \cup DOMAIN st.table
    THEN Unanalyzable(st, e.name)
    ELSE AddSymbol(st, e, e.sig, e.deprecated)

BuildSymbolTable(files) ==
    FoldLeft(LAMBDA st, f : FoldLeft(DtsExport, st, f.exports), NoSymbols, files)

\* The exports of a JavaScript file: a declaration has its source as signature,
\* a name of an export list only itself.
AstExport(st, e) ==
    CASE e.form = "odd" -> Unanalyzable(st, e.name)
      [] e.form = "list" -> AddSymbol(st, e, "export", FALSE)
      [] OTHER -> AddSymbol(st, e, e.sig, FALSE)

\* The export declarations of a file come before its assignments to exports.
AstFile(st, f) ==
    IF ~f.parses THEN Unanalyzable(st, "file")
    ELSE FoldLeft(AstExport, st, SelectSeq(f.exports, LAMBDA e : e.form # "cjs")
                                 \o SelectSeq(f.exports, LAMBDA e : e.form = "cjs"))

BuildAstSymbolTable(files) == FoldLeft(AstFile, NoSymbols, files)

Untyped == [tier |-> "none", built |-> NoSymbols]

\* Shipped declarations, or those emitted from type comments if they declare
\* anything; they have a known form.
BuildTypedTable(root) ==
    LET emitted == BuildSymbolTable(root.emitted) IN
    IF root.dts # <<>> THEN [tier |-> "dts", built |-> BuildSymbolTable(root.dts)]
    ELSE IF root.js # <<>> /\ root.jsdoc /\ emitted.table # <<>>
         THEN [tier |-> "api-extractor", built |-> emitted]
         ELSE Untyped

-----------------------------------------------------------------------------
(* The diff *)

DiffSymbolTables(old, new) ==
    [removed |-> DOMAIN old \ DOMAIN new,
     changed |-> {n \in DOMAIN old \cap DOMAIN new : old[n].sig # new[n].sig},
     deprecated |-> {n \in DOMAIN old \cap DOMAIN new :
                       ~old[n].deprecated /\ new[n].deprecated}]

\* Rounded to a whole number, halves up.
ComputeCoveragePercent(symbols, unanalyzable) ==
    LET total == symbols + unanalyzable
    IN  IF total = 0 THEN 0 ELSE (200 * symbols + total) \div (2 * total)

\* Both versions typed, or both by their sources; the weaker tier is named.
BugTier(old, new) == IF "dts" \in {old, new} THEN "dts" ELSE "api-extractor"
Tier(old, new) == IF {old, new} = {"dts"} THEN "dts" ELSE "api-extractor"

ComputeDiffForRoots(old, new) ==
    LET oldTyped == BuildTypedTable(old)
        newTyped == BuildTypedTable(new)
        typed == "none" \notin {oldTyped.tier, newTyped.tier}
        oldBuilt == IF typed THEN oldTyped.built ELSE BuildAstSymbolTable(old.js)
        newBuilt == IF typed THEN newTyped.built ELSE BuildAstSymbolTable(new.js)
    IN  [raw |-> DiffSymbolTables(oldBuilt.table, newBuilt.table),
         coverage |-> ComputeCoveragePercent(Cardinality(DOMAIN oldBuilt.table),
                                             Len(oldBuilt.unanalyzable)),
         unanalyzable |-> oldBuilt.unanalyzable,
         tier |-> IF typed THEN Tier(oldTyped.tier, newTyped.tier) ELSE "ast-only"]

-----------------------------------------------------------------------------
(* The index of the repository; a source has imports and other identifiers *)

\* The identifiers of a file, those of its imports included.
NamesOf(f) == f.idents \cup {i.local : i \in f.imports} \cup {i.imported : i \in f.imports}

\* Default and namespace imports are indexed as "default" and "*".
BuildReferenceIndex(repo) ==
    LET parsed == {f \in repo : f.parses}
        imports == UNION {{[pkg |-> i.pkg, imported |-> i.imported, local |-> i.local, file |-> f.path] :
                             i \in f.imports} : f \in parsed}
        locals == {i.local : i \in imports}
    IN  [imports |-> imports,
         usages |-> UNION {{[symbol |-> s, file |-> f.path] : s \in locals \cap NamesOf(f)} : f \in parsed}]

FindPackageUsageSites(index, pkg) ==
    LET locals == {i.local : i \in {i \in index.imports : i.pkg = pkg}}
    IN  {u \in index.usages : u.symbol \in locals}

\* The files that use a local name of the symbol, whichever file imports it.
BugFilesOf(index, pkg, symbol) ==
    {u.file : u \in {u \in index.usages : u.symbol = symbol}}
FilesOf(index, pkg, symbol) ==
    LET locals == {i.local : i \in {i \in index.imports : i.pkg = pkg /\ i.imported = symbol}}
    IN  {u.file : u \in {u \in index.usages : u.symbol \in locals}}

AffectedSitesFromIndex(index, pkg, symbols) ==
    {[symbol |-> s, files |-> FilesOf(index, pkg, s)] :
        s \in {s \in symbols : FilesOf(index, pkg, s) # {}}}

-----------------------------------------------------------------------------
(* Release notes; a tag is its characters, a digit or a dot                *)

Dot == -1

\* JavaScript's order of strings; the dot is before the digits.
BugTextAfter(t, u) == Len(t) > Len(u)
TextAfter(t, u) ==
    \/ \E i \in DOMAIN t \cap DOMAIN u :
         t[i] > u[i] /\ SubSeq(t, 1, i - 1) = SubSeq(u, 1, i - 1)
    \/ Len(t) > Len(u) /\ SubSeq(t, 1, Len(u)) = u

\* The first releases, of those with notes, whose tag is after the version.
FetchReleaseNotes(releases, from, count) ==
    LET relevant == SelectSeq(releases, LAMBDA r : r.notes /\ TextAfter(r.tag, from))
    IN  IF Len(relevant) <= count THEN relevant ELSE SubSeq(relevant, 1, count)

\* No repository, no releases, no notes and no answer all read as no breaking
\* changes.
ParseBreakingChanges(repository, releases, from, count, answer) ==
    IF ~repository \/ FetchReleaseNotes(releases, from, count) = <<>> \/ answer = "thrown"
    THEN {} ELSE answer

-----------------------------------------------------------------------------
(* What the signals promise *)

\* The names that the analyzable exports of the files have in a tier.
NamesIn(files, typed) ==
    {n \in UNION {{files[i].exports[k].name : k \in DOMAIN files[i].exports} : i \in DOMAIN files} :
        /\ n \notin Hidden
        /\ \E i \in DOMAIN files : \E k \in DOMAIN files[i].exports :
             LET e == files[i].exports[k]
             IN  (typed \/ files[i].parses) /\ e.name = n /\ e.form # "odd"}

SourcesOf(root, tier) ==
    IF tier = "ast-only" THEN root.js ELSE IF root.dts # <<>> THEN root.dts ELSE root.emitted

\* What is removed is exactly what the old version exports in a way that can
\* be analyzed and the new one does not; in particular a version never differs
\* from itself, whichever files repeat a name.  The tier is the weaker of the
\* two versions' evidence.
DiffIsOfExports(old, new) ==
    LET diff == ComputeDiffForRoots(old, new)
        typed == diff.tier # "ast-only" IN
    /\ diff.raw.removed = NamesIn(SourcesOf(old, diff.tier), typed)
                            \ NamesIn(SourcesOf(new, diff.tier), typed)
    /\ old = new => /\ diff.raw.removed = {} /\ diff.raw.changed = {}
                    /\ diff.raw.deprecated = {}
    /\ diff.tier = "dts" <=> old.dts # <<>> /\ new.dts # <<>>
    /\ diff.raw.changed \cap ComputeDiffForRoots(new, old).raw.removed = {}

\* Every file that imports a symbol of the package by its name is listed for
\* it, also under another local name; a file that does not is listed only when
\* it uses an identifier spelled like the local name of one that does.
AffectedFilesAreFound(repo, pkg, symbols) ==
    LET sites == AffectedSitesFromIndex(BuildReferenceIndex(repo), pkg, symbols)
        importers(s) == {f \in repo : f.parses /\ \E i \in f.imports : i.pkg = pkg /\ i.imported = s}
        listed(s) == UNION {site.files : site \in {site \in sites : site.symbol = s}}
        aliases(s) == UNION {{i.local : i \in {i \in f.imports : i.pkg = pkg /\ i.imported = s}} :
                               f \in importers(s)} IN
    \A s \in symbols :
      /\ {f.path : f \in importers(s)} \subseteq listed(s)
      /\ \A f \in repo : f.path \in listed(s) \ {g.path : g \in importers(s)} =>
           NamesOf(f) \cap aliases(s) # {}

\* The order of versions, and the version of a tag: the number of each part.
PartsOf(tag) ==
    FoldLeft(LAMBDA ps, c : IF c = Dot THEN Append(ps, 0)
                            ELSE [ps EXCEPT ![Len(ps)] = 10 * @ + c], <<0>>, tag)
VersionAfter(t, u) ==
    LET p == PartsOf(t)
        q == PartsOf(u)
        part(s, i) == IF i \in DOMAIN s THEN s[i] ELSE -1
    IN  \E i \in DOMAIN p : part(p, i) > part(q, i) /\ \A j \in 1..(i - 1) : part(p, j) = part(q, j)

\* Where no part of a version has two digits, the notes are of the releases
\* after the version the repository uses, in their order and no more of them
\* than the prompt has room for.
SmallParts(tag) == \A i \in DOMAIN PartsOf(tag) : PartsOf(tag)[i] < 10
NotesAreLater(releases, from, count) ==
    LET notes == ToSet(FetchReleaseNotes(releases, from, count)) IN
    /\ Cardinality(notes) <= count
    /\ \A i \in DOMAIN releases : SmallParts(from) /\ SmallParts(releases[i].tag) =>
         /\ releases[i] \in notes => releases[i].notes /\ VersionAfter(releases[i].tag, from)
         /\ releases[i].notes /\ VersionAfter(releases[i].tag, from) /\ Len(releases) <= count
              => releases[i] \in notes

\* What the comment of changelog.ts says: the releases newer than fromVersion.
NotesAreNewer(releases, from, count) ==
    Len(releases) <= count =>
    ToSet(FetchReleaseNotes(releases, from, count))
      = {r \in ToSet(releases) : r.notes /\ VersionAfter(r.tag, from)}
=============================================================================
