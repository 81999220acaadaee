----------------------------- MODULE Confidence -----------------------------
(***************************************************************************)
(* The confidence score of an upgrade (lib/agent/confidence/score.ts) and  *)
(* the choice of a submission mode from it (threshold.ts), as operators.   *)
(*                                                                         *)
(* changelog is the set of symbols the changelog signal flags.  diff is    *)
(* what the semantic-diff signal returned: broken stands for the symbols   *)
(* of removedExports and signatureChanges, deprecated for newDeprecations; *)
(* NoDiff is the null of a signal that did not run.                        *)
(***************************************************************************)
EXTENDS Integers, FiniteSets

Percent == 0..100
Buckets == {"high", "medium", "low"}

\* The outcome of the boot test: not attempted is null in the code.
Smoke == {"none", "booted", "failed"}

Diff(S) == [ran : BOOLEAN, broken : SUBSET S, deprecated : SUBSET S,
            coverage : Percent]

NoDiff == [ran |-> FALSE, broken |-> {}, deprecated |-> {}, coverage |-> 0]
-----------------------------------------------------------------------------
(***************************************************************************)
(* SCORE and the limits.                                                   *)
(***************************************************************************)
BothAgree                 == 90
SemanticOnly              == 70
ChangelogOnlyHighCoverage == 48
ChangelogOnlyLowCoverage  == 60
SingleSignalOnly          == 60
NoBreakage                == 75  \* the baseline when no symbol is flagged

CoverageHigh    == 80
BucketHigh      == 80
BucketMedium    == 60
VerifyFailCap   == 50
SubmissionFloor == 40
-----------------------------------------------------------------------------
(***************************************************************************)
(* The symbols.                                                            *)
(***************************************************************************)
\* What the semantic diff flags for the scorer: deprecations count here.
Flagged(diff) == diff.broken \union diff.deprecated

SymbolMatrix(changelog, diff) == changelog \union Flagged(diff)

\* The scores of agreement and of disagreement are swapped.
BugScoreSymbol(s, changelog, diff) ==
  CASE s \in changelog \intersect Flagged(diff) -> ChangelogOnlyHighCoverage
    [] s \in Flagged(diff) \ changelog          -> SemanticOnly
    [] OTHER                                    -> BothAgree

\* scoreSymbol, for a symbol of the matrix.
ScoreSymbol(s, changelog, diff) ==
  CASE s \in changelog \intersect Flagged(diff)  -> BothAgree
    [] s \in Flagged(diff) \ changelog           -> SemanticOnly
    [] s \notin Flagged(diff) /\ ~diff.ran       -> SingleSignalOnly
    [] s \notin Flagged(diff) /\ diff.ran /\ diff.coverage >= CoverageHigh
                                                 -> ChangelogOnlyHighCoverage
    [] OTHER                                     -> ChangelogOnlyLowCoverage

\* The symbols of the matrix with score v.
Scoring(v, changelog, diff) ==
  {s \in SymbolMatrix(changelog, diff) : ScoreSymbol(s, changelog, diff) = v}

\* The sum of the scores of the symbols, by the values a score can have.
TotalScore(changelog, diff) ==
    BothAgree    * Cardinality(Scoring(BothAgree, changelog, diff))
  + SemanticOnly * Cardinality(Scoring(SemanticOnly, changelog, diff))
  + SingleSignalOnly
      * Cardinality(Scoring(SingleSignalOnly, changelog, diff))
  + ChangelogOnlyHighCoverage
      * Cardinality(Scoring(ChangelogOnlyHighCoverage, changelog, diff))

\* Math.round(n / d): the nearest integer, halves up.
RoundedQuotient(n, d) == (2 * n + d) \div (2 * d)

BaseScore(changelog, diff) ==
  LET matrix == SymbolMatrix(changelog, diff)
  IN IF matrix = {}
     THEN NoBreakage
     ELSE RoundedQuotient(TotalScore(changelog, diff), Cardinality(matrix))
-----------------------------------------------------------------------------
(***************************************************************************)
(* Overall score and bucket.                                               *)
(***************************************************************************)
BucketFromScore(score) ==
  IF score >= BucketHigh THEN "high"
  ELSE IF score >= BucketMedium THEN "medium" ELSE "low"

AtMost(a, b) == IF a <= b THEN a ELSE b

\* clampToMaxBucket lowers the bucket and forgets the number.
BugClampToMaxBucket(score, ceiling) ==
  LET bucket == BucketFromScore(score)
  IN IF ceiling = "medium" /\ bucket = "high"
     THEN [overall |-> score, bucket |-> "medium"]
     ELSE [overall |-> score, bucket |-> bucket]

\* clampToMaxBucket: the ceiling of the language adapter.
ClampToMaxBucket(score, ceiling) ==
  LET bucket == BucketFromScore(score)
  IN IF ceiling = "medium" /\ bucket = "high"
     THEN [overall |-> AtMost(score, BucketHigh - 1), bucket |-> "medium"]
     ELSE IF ceiling = "low" /\ bucket # "low"
     THEN [overall |-> AtMost(score, BucketMedium - 1), bucket |-> "low"]
     ELSE [overall |-> score, bucket |-> bucket]

\* The caps look at the verification only.
BugScoreAfterCaps(base, verified, smoke) ==
  IF ~verified /\ base > VerifyFailCap THEN VerifyFailCap ELSE base

\* A failed verification or a failed boot caps the score.
ScoreAfterCaps(base, verified, smoke) ==
  IF (~verified \/ smoke = "failed") /\ base > VerifyFailCap
  THEN VerifyFailCap
  ELSE base

CalculateConfidence(changelog, diff, verified, smoke, ceiling) ==
  ClampToMaxBucket(
    ScoreAfterCaps(BaseScore(changelog, diff), verified, smoke), ceiling)
-----------------------------------------------------------------------------
(***************************************************************************)
(* The threshold gate.                                                     *)
(***************************************************************************)
\* resolveThreshold clamps what the user or the environment asks for.
ResolveThreshold(raw) ==
  IF raw < SubmissionFloor THEN SubmissionFloor ELSE AtMost(raw, 100)

ChooseSubmissionMode(overall, raw) ==
  IF overall >= ResolveThreshold(raw) THEN "standard"
  ELSE IF overall >= SubmissionFloor THEN "draft" ELSE "skip"
=============================================================================
