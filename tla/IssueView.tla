----------------------------- MODULE IssueView ------------------------------
(***************************************************************************)
(* From the outputs of a scan to the rows of the database and back to the  *)
(* page: lib/agent/issue-vm.ts, the summary of a scan                      *)
(* (confidence/summary.ts) and the detail route (app/api/scans/[id]).      *)
(*                                                                         *)
(* A JSON column is <<v>>, or <<>> when it is null or does not parse; the  *)
(* readers treat the two alike.                                            *)
(***************************************************************************)
EXTENDS Integers, Sequences, FiniteSets, SequencesExt

None == "none"
Buckets == {"high", "medium", "low"}
Tiers == {"dts", "griffe", "apidiff", "cargo-semver-checks", "api-extractor", "ast-only", "none"}
StandardNotAnalyzed == 0
EvidenceMax == 5
NoConfidence == <<>>

-----------------------------------------------------------------------------
(* persistIssueData *)

\* Headings of the diff: the manifest, and every other file of the patch.
BuildDiff(patches) ==
    <<"package.json">> \o SelectSeq(patches, LAMBDA f : f # "package.json")

\* Citations of the changelog, or a link to the registry.
Evidence(breaking) ==
    IF breaking = <<>> THEN <<"npm link">>
    ELSE SubSeq(breaking, 1, IF Len(breaking) < EvidenceMax THEN Len(breaking) ELSE EvidenceMax)

\* The percentage a semantic diff covered replaces the standard disclosure;
\* diff is <<>> or the percentage.
NotAnalyzed(diff) ==
    IF diff # <<>> /\ diff[1] > 0 THEN diff[1] ELSE StandardNotAnalyzed

\* A missing score is the stub, which has no bucket of its own.
\* Mutant: a missing score is a high one.
Stub == [kind |-> "stub"]
BugConfidenceBlob(score) ==
    IF score = Stub
    THEN [kind |-> "score", overall |-> 100, bucket |-> "high", capped |-> FALSE, tier |-> "none"]
    ELSE score
ConfidenceBlob(score) == IF score = Stub THEN Stub ELSE score

PersistIssueData(a) ==
    [confidence   |-> <<ConfidenceBlob(a.score)>>,
     diagnosis    |-> <<[evidence |-> Evidence(a.breaking)]>>,
     patch        |-> <<[filePath |-> IF a.patches = <<>> THEN "package.json" ELSE a.patches[1],
                         diff     |-> BuildDiff(a.patches)]>>,
     verification |-> <<[passed |-> a.verified]>>,
     notAnalyzed  |-> <<NotAnalyzed(a.diff)>>,
     prUrl        |-> a.prUrl,
     status       |-> IF a.prUrl # None THEN "pr-opened" ELSE "diagnosed",
     packageDir   |-> a.packageDir,
     language     |-> a.language]

-----------------------------------------------------------------------------
(* dbIssueToVM *)

SafeParse(column, fallback) == IF column = <<>> THEN fallback ELSE column[1]

ParseConfidenceBlob(column) == SafeParse(column, Stub)

\* Mutant: a verification that cannot be read has passed.
BugVerificationPassed(row) == SafeParse(row.verification, [passed |-> TRUE]).passed
VerificationPassed(row) == SafeParse(row.verification, [passed |-> FALSE]).passed

DbIssueToVM(row) ==
    LET score == ParseConfidenceBlob(row.confidence)
    IN  [confidence |-> IF score.kind = "score" THEN score.bucket ELSE "medium",
         confidenceData |-> IF score.kind = "score" THEN <<score>> ELSE NoConfidence,
         evidence |-> SafeParse(row.diagnosis, [evidence |-> <<>>]).evidence,
         filePath |-> SafeParse(row.patch, [filePath |-> "package.json"]).filePath,
         diff |-> IF row.patch = <<>> THEN <<>> ELSE row.patch[1].diff,
         notAnalyzed |-> SafeParse(row.notAnalyzed, StandardNotAnalyzed),
         verificationPassed |-> VerificationPassed(row),
         prUrl |-> row.prUrl,
         packageDir |-> row.packageDir]

\* The detail route names the package of an issue on scans of several.
\* Mutant: of every scan.
BugMulti(packages) == Len(packages) > 0
Multi(packages) == Len(packages) > 1
PackageName(vm, packages) ==
    LET i == SelectLastInSeq(packages, LAMBDA p : p.dir = vm.packageDir)
    IN  IF Multi(packages) /\ i # 0 THEN packages[i].name ELSE None
GetScan(rows, packages) ==
    [issues |-> [i \in DOMAIN rows |-> DbIssueToVM(rows[i])],
     names |-> [i \in DOMAIN rows |-> PackageName(DbIssueToVM(rows[i]), packages)],
     packages |-> IF Multi(packages) THEN packages ELSE <<>>]

Corrupted(row, columns) ==
    [c \in DOMAIN row |-> IF c \in columns THEN <<>> ELSE row[c]]

\* What a scan has found is what its page shows; and whatever columns cannot
\* be read, the page never shows more than the scan has found: no bucket
\* above medium, no number, no verification, no empty disclosure.
PageShowsTheScan(a, columns, packages) ==
    LET row == PersistIssueData(a)
        vm == DbIssueToVM(row)
        poor == DbIssueToVM(Corrupted(row, columns))
        page == GetScan(<<row>>, packages)
        readable == "confidence" \notin columns
    IN  /\ vm.confidence = IF a.score.kind = "score" THEN a.score.bucket ELSE "medium"
        /\ vm.confidenceData # NoConfidence <=> a.score.kind = "score"
        /\ vm.verificationPassed = a.verified
        /\ Len(vm.evidence) \in 1..EvidenceMax
        /\ vm.notAnalyzed = StandardNotAnalyzed <=> a.diff \in {<<>>, <<0>>}
        /\ ToSet(a.patches) \subseteq ToSet(vm.diff)
        /\ row.status = "pr-opened" <=> vm.prUrl # None
        /\ poor.confidence = "high" => readable /\ a.score.kind = "score" /\ a.score.bucket = "high"
        /\ poor.confidenceData # NoConfidence => readable /\ poor.confidenceData = <<a.score>>
        /\ poor.verificationPassed => a.verified
        /\ page.names[1] # None => Len(page.packages) > 1

\* Not true of the code: every file the diff of an issue is about is one of
\* its patch.
DiffIsOfThePatch(a) == ToSet(BuildDiff(a.patches)) \subseteq ToSet(a.patches)

-----------------------------------------------------------------------------
(* The summary of a scan *)

Count(s, P(_)) == Cardinality({i \in DOMAIN s : P(s[i])})
Sum(s) == FoldLeft(LAMBDA n, x : n + x.overall, 0, s)
Round(n, d) == (2 * n + d) \div (2 * d)

\* Rates are fractions <<n, d>>.  Mutant: the score of a stub counts as 0.
Calibrated(rows) == SelectSeq(rows, LAMBDA r : ParseConfidenceBlob(r.confidence).kind = "score")
BugAvgScore(rows, scores) == IF scores = <<>> THEN 0 ELSE Round(Sum(scores), Len(rows))
AvgScore(rows, scores) == IF scores = <<>> THEN 0 ELSE Round(Sum(scores), Len(scores))

Failed(row) == row.verification # <<>> /\ ~row.verification[1].passed

SummarizeScanConfidence(rows) ==
    LET some == Calibrated(rows)
        scores == [i \in DOMAIN some |-> some[i].confidence[1]]
        rate(n) == IF some = <<>> THEN <<0, 1>> ELSE <<n, Len(some)>>
    IN  IF rows = <<>> THEN <<>>
        ELSE <<[hasCalibratedData |-> some # <<>>,
                avgScore |-> AvgScore(rows, scores),
                bucketCounts |-> [b \in Buckets |-> Count(scores, LAMBDA s : s.bucket = b)],
                tierCounts |-> [t \in Tiers |-> Count(scores, LAMBDA s : s.tier = t)],
                issuesCalibrated |-> Len(some),
                issuesTotal |-> Len(rows),
                verificationFailureRate |-> rate(Count(some, Failed)),
                cappedRate |-> rate(Count(scores, LAMBDA s : s.capped))]>>

\* The schema the summary is parsed with when it is written and when it is
\* read; what it refuses reads as no summary.
Admitted(s) ==
    /\ s.avgScore \in 0..100
    /\ \A r \in {s.verificationFailureRate, s.cappedRate} : r[1] >= 0 /\ r[1] <= r[2]
ParseScanConfidenceSummary(column) ==
    IF column # <<>> /\ Admitted(column[1]) THEN column ELSE <<>>

\* The dashboard of a scan is the issues of its page, counted: every score
\* once in a bucket and in a tier, the average between the lowest and the
\* highest, and what was written can be read.
SummaryIsTheIssues(rows) ==
    LET read == ParseScanConfidenceSummary(SummarizeScanConfidence(rows))
        vms == [i \in DOMAIN rows |-> DbIssueToVM(rows[i])]
        scored == {i \in DOMAIN vms : vms[i].confidenceData # NoConfidence}
        overall == {vms[i].confidenceData[1].overall : i \in scored}
    IN  /\ read = <<>> <=> rows = <<>>
        /\ read # <<>> =>
             /\ read[1].issuesCalibrated = Cardinality(scored)
             /\ \A b \in Buckets : read[1].bucketCounts[b] =
                  Cardinality({i \in scored : vms[i].confidence = b})
             /\ FoldFunction(LAMBDA n, m : n + m, 0, read[1].tierCounts) = read[1].issuesCalibrated
             /\ read[1].verificationFailureRate[1] =
                  Cardinality({i \in scored : ~vms[i].verificationPassed})
             /\ scored # {} => /\ \E x \in overall : x <= read[1].avgScore
                               /\ \E x \in overall : x >= read[1].avgScore
=============================================================================
