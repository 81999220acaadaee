------------------------------ MODULE Patching ------------------------------
(***************************************************************************)
(* The PATCH phase of one dependency: the loop of lib/agent/runner.ts over *)
(* the ranked files, patchFileSmart (patching/index.ts), patchFileViaBlocks*)
(* (search-replace-patcher.ts) and patchFile (full-file.ts).               *)
(*                                                                         *)
(* A file is one of five kinds; its content is named by what happened to   *)
(* it.  The answers of the LLM are choices.  Blocks models how blocks are  *)
(* parsed and applied.                                                     *)
(***************************************************************************)
EXTENDS Naturals, Sequences, SequencesExt

CONSTANTS
    RankedFiles,   \* package.json, then the files that use the dependency
    FileKind,      \* of a file: see Kinds
    IssueBudget,   \* PER_ISSUE_TOKEN_BUDGET
    FileEstimate,  \* PER_FILE_TOKEN_ESTIMATE
    BlocksCost     \* a third of it, rounded down

\* "manifest" is package.json; "large" has at least 150 lines; "huge" is large
\* and longer than the 8000 characters a full-file prompt shows.
Kinds == {"manifest", "small", "large", "huge", "missing"}

Files == ToSet(RankedFiles)

\* runScan collects the ranked files through the set of those it has seen.
PatchingAssumption ==
    /\ RankedFiles \in Seq(Files) /\ IsInjective(RankedFiles)
    /\ FileKind \in [Files -> Kinds]
    /\ IssueBudget \in Nat /\ FileEstimate \in Nat /\ BlocksCost \in 0..FileEstimate

VARIABLES
    queue,      \* the files still to be patched
    at,         \* "pick", "blocks", "full" or "end"
    attempt,    \* attempts with blocks made on the current file
    disk,       \* what stands in each file
    patches,    \* the patches the phase returns: file and patchedContent
    spent       \* perIssueTokens

patchingVars == <<queue, at, attempt, disk, patches, spent>>

Current == Head(queue)
Kind == FileKind[Current]

Init ==
    /\ queue = RankedFiles /\ at = "pick" /\ attempt = 0
    /\ disk = [f \in Files |-> "original"]
    /\ patches = <<>> /\ spent = 0

-----------------------------------------------------------------------------
(* Steps *)

\* The current file is done: the loop accounts for it and goes on.
Finish(cost) ==
    /\ spent' = spent + cost
    /\ queue' = Tail(queue) /\ at' = "pick" /\ attempt' = 0

Keep == UNCHANGED <<disk, patches>>

\* Its new content is written and returned as a patch.
Write(content) ==
    /\ disk' = [disk EXCEPT ![Current] = content]
    /\ patches' = Append(patches, [file |-> Current, content |-> content])

\* The budget is asked for before a file is taken.
BugAffords(s) == s <= IssueBudget
Affords(s) == s + FileEstimate <= IssueBudget

StopPatching ==
    /\ at = "pick"
    /\ queue = <<>> \/ ~Affords(spent)
    /\ at' = "end"
    /\ UNCHANGED <<queue, attempt, disk, patches, spent>>

\* A file that is not there is skipped, and charged like any other.
SkipMissing ==
    /\ at = "pick" /\ queue # <<>> /\ Affords(spent)
    /\ Kind = "missing"
    /\ Keep /\ Finish(FileEstimate)

\* The manifest is bumped without the LLM.  If it holds no entry to bump it is
\* left alone, and a patch that changes nothing is returned.
BumpManifest ==
    /\ at = "pick" /\ queue # <<>> /\ Affords(spent)
    /\ Kind = "manifest"
    /\ Write("bumped") \/ Write("original")
    /\ Finish(FileEstimate)

\* chooseFilePatchStrategy.
ChooseStrategy ==
    /\ at = "pick" /\ queue # <<>> /\ Affords(spent)
    /\ Kind \in {"small", "large", "huge"}
    /\ at' = IF Kind = "small" THEN "full" ELSE "blocks"
    /\ UNCHANGED <<queue, attempt, disk, patches, spent>>

\* Every block of an answer was applied: only then is the file written.
BlocksApplied ==
    /\ at = "blocks"
    /\ Write("edited") /\ Finish(BlocksCost)

\* Some block did not match.  Mutant: what did match is written.
BugKeepOnMiss(d) == [d EXCEPT ![Current] = "partly edited"]
KeepOnMiss(d) == d

BlocksMissed ==
    /\ at = "blocks" /\ attempt < 2
    /\ attempt' = attempt + 1
    /\ disk' = KeepOnMiss(disk)
    /\ at' = IF attempt + 1 < 2 THEN "blocks" ELSE "full"
    /\ UNCHANGED <<queue, patches, spent>>

\* The request failed, or the answer held no block: no second attempt.
BlocksUnusable ==
    /\ at = "blocks"
    /\ at' = "full"
    /\ UNCHANGED <<queue, attempt, disk, patches, spent>>

\* Full-file regeneration writes the answer as the whole file, although the
\* prompt showed no more than 8000 characters of it.
Regenerate ==
    /\ at = "full"
    /\ Write(IF Kind = "huge" THEN "rewritten from a part" ELSE "rewritten")
    /\ Finish(FileEstimate)

RegenerateFails ==
    /\ at = "full"
    /\ Keep /\ Finish(FileEstimate)

Next ==
    \/ StopPatching \/ SkipMissing \/ BumpManifest \/ ChooseStrategy
    \/ BlocksApplied \/ BlocksMissed \/ BlocksUnusable
    \/ Regenerate \/ RegenerateFails

Spec == Init /\ [][Next]_patchingVars

-----------------------------------------------------------------------------
(* Properties *)

\* The working tree and the patches tell the same story at every step: a file
\* that differs from the original has a patch in the list that is verified,
\* disclosed and committed, a patch has the content of its file, a file appears
\* once, none is left with a part of its blocks ("NEVER silently apply partial
\* patches"), and no order of strategies and fallbacks spends more than the
\* budget of the issue.
PatchesAreTheDiff ==
    /\ \A f \in Files : disk[f] # "original" => \E i \in DOMAIN patches : patches[i].file = f
    /\ \A i \in DOMAIN patches : patches[i].content = disk[patches[i].file]
    /\ \A i, j \in DOMAIN patches : patches[i].file = patches[j].file => i = j
    /\ spent <= IssueBudget
=============================================================================
