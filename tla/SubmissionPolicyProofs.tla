----------------------- MODULE SubmissionPolicyProofs -----------------------
(***************************************************************************)
(* Theorems about SubmissionPolicy, for any finite set of symbols, any     *)
(* thresholds, ceilings and settings.  First what the score of an upgrade  *)
(* can be; then the invariants of the gate:                                *)
(* ScoreInv says that a score is the one of the signals still at hand,     *)
(* GateInv what the gates left behind a pull request, AuditInv how far the *)
(* auto-merge gate has come.                                               *)
(***************************************************************************)
EXTENDS SubmissionPolicy, FiniteSetTheorems, TLAPS

-----------------------------------------------------------------------------
(* The score of an upgrade *)

(***************************************************************************)
(* The rounded average of numbers between lo and hi is between them.       *)
(***************************************************************************)
LEMMA Division ==
  ASSUME NEW x \in Nat, NEW d \in Nat \ {0}
  PROVE  /\ x \div d \in Int
         /\ x = d * (x \div d) + (x % d)
         /\ 0 <= (x % d) /\ (x % d) < d
  OBVIOUS

LEMMA CancelFactor ==
  ASSUME NEW d \in Nat \ {0}, NEW a \in Int, NEW b \in Int, d * a < d * b
  PROVE  a < b
  OBVIOUS

LEMMA AverageBounds ==
  ASSUME NEW n \in Nat \ {0}, NEW sum \in Nat, NEW lo \in Nat, NEW hi \in Nat,
         lo * n <= sum, sum <= hi * n
  PROVE  /\ RoundedQuotient(sum, n) \in Int
         /\ lo <= RoundedQuotient(sum, n)
         /\ RoundedQuotient(sum, n) <= hi
<1> DEFINE q == RoundedQuotient(sum, n)
           x == 2 * sum + n
           d == 2 * n
<1>1. x \in Nat /\ d \in Nat \ {0}
  OBVIOUS
<1> HIDE DEF x, d
<1>2. /\ x \div d \in Int
      /\ x = d * (x \div d) + (x % d)
      /\ 0 <= (x % d) /\ (x % d) < d
  BY <1>1, Division
<1>3. q = x \div d
  BY DEF x, d, RoundedQuotient
<1> HIDE DEF q
<1>4. d * q <= x /\ x < d * (q + 1) /\ q \in Int
  BY <1>1, <1>2, <1>3
<1>5. d * lo <= x /\ x < d * (hi + 1)
  BY DEF x, d
<1>6. lo < q + 1
  <2>1. d * lo < d * (q + 1)
    BY <1>1, <1>4, <1>5
  <2> QED BY <2>1, <1>1, <1>4, CancelFactor
<1>7. q < hi + 1
  <2>1. d * q < d * (hi + 1)
    BY <1>1, <1>4, <1>5
  <2> QED BY <2>1, <1>1, <1>4, CancelFactor
<1> QED BY <1>4, <1>6, <1>7 DEF q

(***************************************************************************)
(* The sum of the scores.                                                  *)
(***************************************************************************)
LEMMA CardinalityOfUnion ==
  ASSUME NEW A, NEW B, IsFiniteSet(A), IsFiniteSet(B), A \intersect B = {}
  PROVE  /\ IsFiniteSet(A \union B)
         /\ Cardinality(A \union B) = Cardinality(A) + Cardinality(B)
<1>1. Cardinality(A \intersect B) = 0
  BY FS_EmptySet
<1> QED BY <1>1, FS_Union, FS_CardinalityType

LEMMA ScoreValues ==
  ASSUME NEW S, NEW cl \in SUBSET S, NEW sd \in Diff(S), NEW s \in S
  PROVE  ScoreSymbol(s, cl, sd)
           \in {BothAgree, SemanticOnly, SingleSignalOnly,
                ChangelogOnlyHighCoverage}
  BY DEF ScoreSymbol, ChangelogOnlyLowCoverage, SingleSignalOnly

\* Every symbol is counted once, with one of the four values.
LEMMA TotalBounds ==
  ASSUME NEW S, IsFiniteSet(S),
         NEW cl \in SUBSET S, NEW sd \in Diff(S)
  PROVE  LET n == Cardinality(SymbolMatrix(cl, sd))
         IN /\ n \in Nat
            /\ TotalScore(cl, sd) \in Nat
            /\ ChangelogOnlyHighCoverage * n <= TotalScore(cl, sd)
            /\ TotalScore(cl, sd) <= BothAgree * n
<1> DEFINE M == SymbolMatrix(cl, sd)
           At(v) == Scoring(v, cl, sd)
           A == At(BothAgree)
           B == At(SemanticOnly)
           C == At(SingleSignalOnly)
           D == At(ChangelogOnlyHighCoverage)
<1>1. M \subseteq S
  BY DEF SymbolMatrix, Flagged, Diff
<1>2. IsFiniteSet(M)
  BY <1>1, FS_Subset
<1>3. A \subseteq M /\ B \subseteq M /\ C \subseteq M /\ D \subseteq M
  BY DEF Scoring
<1>4. IsFiniteSet(A) /\ IsFiniteSet(B) /\ IsFiniteSet(C) /\ IsFiniteSet(D)
  BY <1>2, <1>3, FS_Subset
<1>5. /\ A \intersect B = {}
      /\ (A \union B) \intersect C = {}
      /\ (A \union B \union C) \intersect D = {}
  BY DEF Scoring, BothAgree, SemanticOnly, SingleSignalOnly,
         ChangelogOnlyHighCoverage
<1>6. M = A \union B \union C \union D
  BY <1>1, ScoreValues DEF Scoring
<1> HIDE DEF M, At, A, B, C, D
<1>7. /\ IsFiniteSet(A \union B)
      /\ Cardinality(A \union B) = Cardinality(A) + Cardinality(B)
  BY <1>4, <1>5, CardinalityOfUnion
<1>8. /\ IsFiniteSet(A \union B \union C)
      /\ Cardinality(A \union B \union C)
           = Cardinality(A) + Cardinality(B) + Cardinality(C)
  BY <1>4, <1>5, <1>7, CardinalityOfUnion
<1>9. Cardinality(M) = Cardinality(A) + Cardinality(B) + Cardinality(C)
                         + Cardinality(D)
  BY <1>4, <1>5, <1>6, <1>8, CardinalityOfUnion
<1>10. /\ Cardinality(A) \in Nat /\ Cardinality(B) \in Nat
       /\ Cardinality(C) \in Nat /\ Cardinality(D) \in Nat
  BY <1>4, FS_CardinalityType
<1>11. TotalScore(cl, sd)
         = 90 * Cardinality(A) + 70 * Cardinality(B) + 60 * Cardinality(C)
             + 48 * Cardinality(D)
  BY DEF TotalScore, A, B, C, D, At, BothAgree, SemanticOnly,
         SingleSignalOnly, ChangelogOnlyHighCoverage
<1> QED
  BY <1>9, <1>10, <1>11 DEF M, BothAgree, ChangelogOnlyHighCoverage

(***************************************************************************)
(* Whatever the signals say, the base score is at least that of a symbol   *)
(* the two signals disagree on, and at most that of one they agree on.     *)
(***************************************************************************)
THEOREM BaseScoreRange ==
  ASSUME NEW S, IsFiniteSet(S),
         NEW cl \in SUBSET S, NEW sd \in Diff(S)
  PROVE  /\ BaseScore(cl, sd) \in Nat
         /\ ChangelogOnlyHighCoverage <= BaseScore(cl, sd)
         /\ BaseScore(cl, sd) <= BothAgree
<1> DEFINE M == SymbolMatrix(cl, sd)
<1>1. CASE M = {}
  BY <1>1 DEF BaseScore, NoBreakage, ChangelogOnlyHighCoverage, BothAgree
<1>2. CASE M # {}
  <2>1. IsFiniteSet(M)
    <3>1. M \subseteq S
      BY DEF SymbolMatrix, Flagged, Diff
    <3> QED BY <3>1, FS_Subset
  <2>2. Cardinality(M) # 0
    BY <1>2, <2>1, FS_EmptySet
  <2> DEFINE n == Cardinality(M)
             total == TotalScore(cl, sd)
             base == RoundedQuotient(total, n)
  <2>3. /\ n \in Nat \ {0}
        /\ total \in Nat
        /\ 48 * n <= total /\ total <= 90 * n
    BY <2>2, TotalBounds DEF BothAgree, ChangelogOnlyHighCoverage
  <2> HIDE DEF n, total
  <2>4. base \in Int /\ 48 <= base /\ base <= 90
    BY <2>3, AverageBounds
  <2>5. BaseScore(cl, sd) = base
    BY <1>2 DEF BaseScore, n, total
  <2> QED BY <2>4, <2>5 DEF BothAgree, ChangelogOnlyHighCoverage
<1> QED BY <1>1, <1>2

(***************************************************************************)
(* With no breaking change in either signal every scored symbol is a mere  *)
(* deprecation, and the score is at most the one of an empty matrix.       *)
(***************************************************************************)
THEOREM SilentSignalsScoreLow ==
  ASSUME NEW S, IsFiniteSet(S), NEW sd \in Diff(S), sd.broken = {}
  PROVE  BaseScore({}, sd) <= NoBreakage
<1> DEFINE M == SymbolMatrix({}, sd)
<1>1. CASE M = {}
  BY <1>1 DEF BaseScore, NoBreakage
<1>2. CASE M # {}
  <2>1. IsFiniteSet(M)
    <3>1. M \subseteq S
      BY DEF SymbolMatrix, Flagged, Diff
    <3> QED BY <3>1, FS_Subset
  <2>2. \A s \in M : ScoreSymbol(s, {}, sd) = SemanticOnly
    BY DEF SymbolMatrix, ScoreSymbol
  <2>3. /\ Scoring(SemanticOnly, {}, sd) = M
        /\ Scoring(BothAgree, {}, sd) = {}
        /\ Scoring(SingleSignalOnly, {}, sd) = {}
        /\ Scoring(ChangelogOnlyHighCoverage, {}, sd) = {}
    BY <2>2 DEF Scoring, BothAgree, SemanticOnly, SingleSignalOnly,
                ChangelogOnlyHighCoverage
  <2> DEFINE n == Cardinality(M)
             total == TotalScore({}, sd)
             base == RoundedQuotient(total, n)
  <2>4. n \in Nat \ {0}
    BY <1>2, <2>1, FS_EmptySet, FS_CardinalityType
  <2>5. Cardinality({}) = 0
    BY FS_EmptySet
  <2>6. total = 70 * n
    BY <2>3, <2>4, <2>5 DEF TotalScore, BothAgree, SemanticOnly,
       SingleSignalOnly, ChangelogOnlyHighCoverage
  <2> HIDE DEF n, total
  <2>7. total \in Nat /\ 70 * n <= total
    BY <2>4, <2>6
  <2>8. base <= 70 /\ base \in Int
    BY <2>4, <2>6, <2>7, AverageBounds
  <2>9. BaseScore({}, sd) = base
    BY <1>2 DEF BaseScore, n, total
  <2> QED BY <2>8, <2>9 DEF NoBreakage
<1> QED BY <1>1, <1>2

(***************************************************************************)
(* The score: the bucket is the one of the number, the ceiling binds both, *)
(* failed evidence caps it and nothing raises it above its base.           *)
(***************************************************************************)
THEOREM ConfidenceFacts ==
  ASSUME NEW S, IsFiniteSet(S),
         NEW cl \in SUBSET S, NEW sd \in Diff(S),
         NEW ver \in BOOLEAN, NEW smk \in Smoke, NEW ceiling \in Buckets
  PROVE  LET c == CalculateConfidence(cl, sd, ver, smk, ceiling)
         IN /\ c = [overall |-> c.overall, bucket |-> c.bucket]
            /\ c.overall \in Percent /\ c.bucket \in Buckets
            /\ c.overall >= ChangelogOnlyHighCoverage
            /\ c.overall <= BaseScore(cl, sd)
            /\ c.bucket = BucketFromScore(c.overall)
            /\ ceiling # "high" => c.bucket # "high"
            /\ ceiling = "low" => c.bucket = "low"
            /\ ~ver \/ smk = "failed" => c.overall <= VerifyFailCap
<1> DEFINE base == BaseScore(cl, sd)
           capped == ScoreAfterCaps(base, ver, smk)
           c == ClampToMaxBucket(capped, ceiling)
<1>1. base \in Nat /\ 48 <= base /\ base <= 90
  BY BaseScoreRange DEF ChangelogOnlyHighCoverage, BothAgree
<1> HIDE DEF base
<1>2. /\ capped \in Nat /\ 48 <= capped /\ capped <= base
      /\ ~ver \/ smk = "failed" => capped <= 50
  BY <1>1 DEF ScoreAfterCaps, VerifyFailCap
<1> HIDE DEF capped
<1>3. /\ c = [overall |-> c.overall, bucket |-> c.bucket]
      /\ c.overall \in Nat
      /\ 48 <= c.overall /\ c.overall <= capped
      /\ c.bucket \in Buckets
      /\ c.bucket = BucketFromScore(c.overall)
      /\ ceiling # "high" => c.bucket # "high"
      /\ ceiling = "low" => c.bucket = "low"
  BY <1>1, <1>2 DEF ClampToMaxBucket, BucketFromScore, AtMost, BucketHigh,
                    BucketMedium, Buckets
<1> HIDE DEF c
<1>4. c = CalculateConfidence(cl, sd, ver, smk, ceiling)
  BY DEF CalculateConfidence, base, capped, c
<1> QED
  BY <1>1, <1>2, <1>3, <1>4
  DEF Percent, ChangelogOnlyHighCoverage, VerifyFailCap, base

(***************************************************************************)
(* A symbol of the changelog that the semantic diff comes to confirm never *)
(* lowers the score.                                                       *)
(***************************************************************************)
LEMMA RoundedMonotone ==
  ASSUME NEW n \in Nat \ {0}, NEW a \in Nat, NEW b \in Nat, a <= b
  PROVE  /\ RoundedQuotient(a, n) \in Int
         /\ RoundedQuotient(b, n) \in Int
         /\ RoundedQuotient(a, n) <= RoundedQuotient(b, n)
<1> DEFINE x == 2 * a + n
           y == 2 * b + n
           d == 2 * n
<1>1. x \in Nat /\ y \in Nat /\ d \in Nat \ {0} /\ x <= y
  OBVIOUS
<1>2. RoundedQuotient(a, n) = x \div d /\ RoundedQuotient(b, n) = y \div d
  BY DEF RoundedQuotient
<1> HIDE DEF x, y, d
<1>3. /\ x \div d \in Int /\ y \div d \in Int
      /\ d * (x \div d) <= x
      /\ y < d * ((y \div d) + 1)
  BY <1>1, Division
<1>4. d * (x \div d) < d * ((y \div d) + 1)
  BY <1>1, <1>3
<1>5. (x \div d) < (y \div d) + 1
  BY <1>1, <1>3, <1>4, CancelFactor
<1> QED BY <1>2, <1>3, <1>5

LEMMA FinalScoreMonotone ==
  ASSUME NEW a \in Nat, NEW b \in Nat, a <= b,
         NEW ver \in BOOLEAN, NEW smk \in Smoke, NEW ceiling \in Buckets
  PROVE  ClampToMaxBucket(ScoreAfterCaps(a, ver, smk), ceiling).overall
           <= ClampToMaxBucket(ScoreAfterCaps(b, ver, smk),
                               ceiling).overall
<1> DEFINE x == ScoreAfterCaps(a, ver, smk)
           y == ScoreAfterCaps(b, ver, smk)
<1>1. x \in Nat /\ y \in Nat /\ x <= y
  BY DEF ScoreAfterCaps, VerifyFailCap
<1> DEFINE top == IF ceiling = "medium" THEN 79
                  ELSE IF ceiling = "low" THEN 59 ELSE 100
<1>2. ceiling = "high" \/ ceiling = "medium" \/ ceiling = "low"
  BY DEF Buckets
<1> HIDE DEF x, y
<1>3. ASSUME NEW z \in Nat
      PROVE  ClampToMaxBucket(z, ceiling).overall
               = IF ceiling # "high" /\ z > top THEN top ELSE z
  BY <1>2 DEF ClampToMaxBucket, BucketFromScore, AtMost, BucketHigh,
              BucketMedium
<1>4. ClampToMaxBucket(x, ceiling).overall
        <= ClampToMaxBucket(y, ceiling).overall
  BY <1>1, <1>2, <1>3
<1> QED BY <1>4 DEF x, y

THEOREM AgreementRaisesScore ==
  ASSUME NEW S, IsFiniteSet(S),
         NEW cl \in SUBSET S, NEW sd \in Diff(S), sd.ran,
         NEW s \in cl \ Flagged(sd),
         NEW ver \in BOOLEAN, NEW smk \in Smoke, NEW ceiling \in Buckets
  PROVE  CalculateConfidence(cl, sd, ver, smk, ceiling).overall
           <= CalculateConfidence(
                cl, [sd EXCEPT !.broken = @ \union {s}],
                ver, smk, ceiling).overall
<1> DEFINE more == [sd EXCEPT !.broken = @ \union {s}]
           M == SymbolMatrix(cl, sd)
           n == Cardinality(M)
           A == Scoring(BothAgree, cl, sd)
           B == Scoring(SemanticOnly, cl, sd)
           C == Scoring(SingleSignalOnly, cl, sd)
           D == Scoring(ChangelogOnlyHighCoverage, cl, sd)
<1>1. /\ more \in Diff(S)
      /\ more.ran /\ more.coverage = sd.coverage
      /\ Flagged(more) = Flagged(sd) \union {s}
  BY DEF Diff, Flagged
<1>2. SymbolMatrix(cl, more) = M
  BY <1>1 DEF SymbolMatrix
<1>3. \A t \in M \ {s} : ScoreSymbol(t, cl, more)
                           = ScoreSymbol(t, cl, sd)
  BY <1>1 DEF ScoreSymbol
<1>4. s \in M /\ ScoreSymbol(s, cl, more) = BothAgree
  BY <1>1 DEF SymbolMatrix, ScoreSymbol
<1>5. s \notin A /\ s \notin B
  BY DEF Scoring, ScoreSymbol, BothAgree, SemanticOnly, SingleSignalOnly,
         ChangelogOnlyHighCoverage, ChangelogOnlyLowCoverage
<1>6. /\ Scoring(BothAgree, cl, more) = A \union {s}
      /\ Scoring(SemanticOnly, cl, more) = B
      /\ Scoring(SingleSignalOnly, cl, more) = C \ {s}
      /\ Scoring(ChangelogOnlyHighCoverage, cl, more) = D \ {s}
  BY <1>2, <1>3, <1>4, <1>5
     DEF Scoring, BothAgree, SemanticOnly, SingleSignalOnly,
         ChangelogOnlyHighCoverage
<1>7. ~(s \in C /\ s \in D)
  BY DEF Scoring, SingleSignalOnly, ChangelogOnlyHighCoverage
<1>8. /\ IsFiniteSet(M) /\ IsFiniteSet(A) /\ IsFiniteSet(B)
      /\ IsFiniteSet(C) /\ IsFiniteSet(D)
  <2>1. M \subseteq S
    BY DEF SymbolMatrix, Flagged, Diff
  <2>2. A \subseteq M /\ B \subseteq M /\ C \subseteq M /\ D \subseteq M
    BY DEF Scoring
  <2>3. IsFiniteSet(M)
    BY <2>1, FS_Subset
  <2> QED BY <2>2, <2>3, FS_Subset
<1> HIDE DEF more, M, A, B, C, D
<1>9. /\ Cardinality(A \union {s}) = Cardinality(A) + 1
      /\ Cardinality(C \ {s})
           = IF s \in C THEN Cardinality(C) - 1 ELSE Cardinality(C)
      /\ Cardinality(D \ {s})
           = IF s \in D THEN Cardinality(D) - 1 ELSE Cardinality(D)
  BY <1>5, <1>8, FS_AddElement, FS_RemoveElement
<1>10. /\ Cardinality(A) \in Nat /\ Cardinality(B) \in Nat
       /\ Cardinality(C) \in Nat /\ Cardinality(D) \in Nat
  BY <1>8, FS_CardinalityType
<1>11. TotalScore(cl, sd) <= TotalScore(cl, more)
  <2>1. TotalScore(cl, sd)
          = 90 * Cardinality(A) + 70 * Cardinality(B) + 60 * Cardinality(C)
              + 48 * Cardinality(D)
    BY DEF TotalScore, A, B, C, D, BothAgree, SemanticOnly,
           SingleSignalOnly, ChangelogOnlyHighCoverage
  <2>2. TotalScore(cl, more)
          = 90 * Cardinality(A \union {s}) + 70 * Cardinality(B)
              + 60 * Cardinality(C \ {s}) + 48 * Cardinality(D \ {s})
    <3>1. TotalScore(cl, more)
            = BothAgree * Cardinality(A \union {s})
              + SemanticOnly * Cardinality(B)
              + SingleSignalOnly * Cardinality(C \ {s})
              + ChangelogOnlyHighCoverage * Cardinality(D \ {s})
      BY <1>6 DEF TotalScore
    <3> QED
      BY <3>1 DEF BothAgree, SemanticOnly, SingleSignalOnly,
                  ChangelogOnlyHighCoverage
  <2>3. s \notin C \/ s \notin D
    BY <1>7
  <2> QED BY <1>9, <1>10, <2>1, <2>2, <2>3
<1>12. n \in Nat \ {0}
  BY <1>4, <1>8, FS_EmptySet, FS_CardinalityType
<1>13. /\ TotalScore(cl, sd) \in Nat
       /\ TotalScore(cl, more) \in Nat
  BY <1>1, TotalBounds
<1>14. BaseScore(cl, sd) <= BaseScore(cl, more)
  <2>1. /\ BaseScore(cl, sd)
             = RoundedQuotient(TotalScore(cl, sd), n)
        /\ BaseScore(cl, more)
             = RoundedQuotient(TotalScore(cl, more), n)
    BY <1>2, <1>4 DEF BaseScore, M
  <2> HIDE DEF n
  <2> QED BY <2>1, <1>11, <1>12, <1>13, RoundedMonotone
<1>15. /\ BaseScore(cl, sd) \in Nat
       /\ BaseScore(cl, more) \in Nat
  BY <1>1, BaseScoreRange
<1>16. CalculateConfidence(cl, sd, ver, smk, ceiling).overall
         <= CalculateConfidence(cl, more, ver, smk,
                                ceiling).overall
  BY <1>14, <1>15, FinalScoreMonotone DEF CalculateConfidence
<1> QED BY <1>16 DEF more

-----------------------------------------------------------------------------
(* The gate *)

Unscored == {"idle", "signals", "patched", "installed", "tested", "score"}
Gated    == {"submit", "persist", "setting", "history", "log", "store"}

Mode == ChooseSubmissionMode(score.overall, scan.threshold)

ScoreInv ==
  /\ pc \in Unscored => score = NoScore
  /\ pc \in Gated => Scored
  /\ Scored => score = CalculateConfidence(changelog, diff, verified, smoke,
                                           scan.ceiling)

GateInv ==
  /\ pc = "submit" => installed /\ GateAllows(scan.eligibility, Mode)
  /\ pr.kind # "none" => pc \in Gated \union {"done"}
  /\ pr.kind = "opened" => /\ installed
                           /\ GateAllows(scan.eligibility, Mode)
                           /\ pr.draft <=> Mode = "draft"
                           /\ Scored

AuditInv ==
  /\ pc \in {"log", "store"} => verdict # {}
  /\ pc # "dwell"
  /\ pc = "store" => audit = verdict
  /\ pc \in {"setting", "history", "log", "store"} => issue
  /\ outcome # Unset => audit = outcome /\ issue /\ pc = "done"
  /\ dbFailed => pc = "done"
  /\ pc = "done" /\ pr.kind # "none" /\ ~dbFailed => issue /\ outcome # Unset
  /\ pc = "submit" => pr.kind = "none"

IInv == TypeOK /\ ScoreInv /\ GateInv /\ AuditInv

USE DisturbancesAssumption

(***************************************************************************)
(* Facts about the score of a typed state.                                 *)
(***************************************************************************)
Computed ==
  CalculateConfidence(changelog, diff, verified, smoke, scan.ceiling)

LEMMA ComputedFacts ==
  ASSUME TypeOK
  PROVE  /\ Computed = [overall |-> Computed.overall,
                        bucket  |-> Computed.bucket]
         /\ Computed # NoScore
         /\ Computed.overall \in Percent
         /\ Computed.bucket \in Buckets
         /\ Computed.overall >= ChangelogOnlyHighCoverage
         /\ Computed.overall <= BaseScore(changelog, diff)
         /\ Computed.bucket = BucketFromScore(Computed.overall)
         /\ scan.ceiling # "high" => Computed.bucket # "high"
         /\ scan.ceiling = "low" => Computed.bucket = "low"
         /\ ~verified \/ smoke = "failed" => Computed.overall <= VerifyFailCap
<1>1. /\ changelog \in SUBSET Symbols /\ diff \in Diff(Symbols)
      /\ verified \in BOOLEAN /\ smoke \in Smoke /\ scan.ceiling \in Buckets
  BY DEF TypeOK
<1>2. /\ Computed = [overall |-> Computed.overall,
                     bucket  |-> Computed.bucket]
      /\ Computed.overall \in Percent
      /\ Computed.bucket \in Buckets
      /\ Computed.overall >= ChangelogOnlyHighCoverage
      /\ Computed.overall <= BaseScore(changelog, diff)
      /\ Computed.bucket = BucketFromScore(Computed.overall)
      /\ scan.ceiling # "high" => Computed.bucket # "high"
      /\ scan.ceiling = "low" => Computed.bucket = "low"
      /\ ~verified \/ smoke = "failed" => Computed.overall <= VerifyFailCap
  BY <1>1, SymbolsAssumption, ConfidenceFacts DEF Computed
<1>3. Computed # NoScore
  BY <1>2 DEF NoScore, Buckets
<1> QED BY <1>2, <1>3

\* Some rule of the envelope always fails.
LEMMA SomeReason ==
  ASSUME TypeOK, ScoreInv, Scored
  PROVE  Reasons # {}
<1> SUFFICES ASSUME Reasons = {} PROVE FALSE
  OBVIOUS
<1>1. \A rule \in Rules : Envelope[rule]
  BY DEF Reasons
<1>2. changelog = {} /\ SemanticBreaks(diff) = {}
  BY <1>1 DEF Rules, Envelope
<1>3. score.overall >= EffectiveFloor(seen.floor)
  BY <1>1 DEF Rules, Envelope
<1>4. EffectiveFloor(seen.floor) >= 90
  BY DEF TypeOK, Settings, Percent, EffectiveFloor, ResolveThreshold,
         AtMost, SubmissionFloor
<1>5. diff \in Diff(Symbols) /\ diff.broken = {}
  BY <1>2 DEF TypeOK, SemanticBreaks
<1>6. BaseScore(changelog, diff) <= 75
  BY <1>2, <1>5, SymbolsAssumption, SilentSignalsScoreLow DEF NoBreakage
<1>7. score = Computed
  BY DEF ScoreInv, Computed
<1>8. BaseScore(changelog, diff) \in Nat
  BY SymbolsAssumption, BaseScoreRange DEF TypeOK
<1>9. score.overall \in Int /\ score.overall <= 75
  BY <1>6, <1>7, <1>8, ComputedFacts DEF Percent
<1>10. EffectiveFloor(seen.floor) \in Int
  BY DEF TypeOK, Settings, Percent, EffectiveFloor, ResolveThreshold,
         AtMost, SubmissionFloor
<1> QED BY <1>3, <1>4, <1>9, <1>10

(***************************************************************************)
(* The initial state and types.                                            *)
(***************************************************************************)
LEMMA InitIInv == Init => IInv
<1> SUFFICES ASSUME Init PROVE IInv
  OBVIOUS
<1> USE DEF Init
<1>1. TypeOK
  <2>1. diff \in Diff(Symbols) /\ score.overall \in Percent
    BY DEF Diff, NoDiff, NoScore, Percent
  <2>2. /\ pr \in PRs
        /\ seen \in Settings /\ setting \in Settings
    BY DEF NoPR, PRs, NoRow, Settings, Percent
  <2>3. /\ dep.bump = "none" /\ dep.changeType = "none"
        /\ score.bucket = "none"
    BY DEF NoDep, NoScore
  <2>4. scan \in [threshold : Nat, ceiling : Buckets, owns : BOOLEAN,
                  eligibility : Eligibility]
    BY DEF DecideEligibility, Eligibility, Buckets
  <2> QED BY <2>1, <2>2, <2>3, <2>4 DEF TypeOK, PCs, Smoke
<1>2. ScoreInv /\ GateInv /\ AuditInv
  BY DEF ScoreInv, GateInv, AuditInv, Unscored, Gated, Scored, NoPR, Unset
<1> QED BY <1>1, <1>2 DEF IInv


LEMMA TypeStep == TypeOK /\ [Next]_vars => TypeOK'
<1> SUFFICES ASSUME TypeOK, [Next]_vars PROVE TypeOK'
  OBVIOUS
<1> USE DEF TypeOK, PCs, signalVars, verifyVars, gateVars, worldVars
<1>1. CASE StartScan
  <2>1. scan' \in [threshold : Nat, ceiling : Buckets, owns : BOOLEAN,
                   eligibility : Eligibility]
    BY <1>1, ThresholdsAssumption, CeilingsAssumption
       DEF StartScan, DecideEligibility, Eligibility
  <2> QED BY <1>1, <2>1 DEF StartScan, Goto
<1>2. CASE CollectSignals
  <2>1. changelog' \in SUBSET Symbols /\ rejections' \in SUBSET ChangeTypes
    BY <1>2 DEF CollectSignals
  <2>2. diff' \in Diff(Symbols)
    <3>1. CASE diff' = NoDiff
      BY <3>1 DEF Diff, NoDiff, Percent
    <3>2. CASE \E broken \in SUBSET Symbols, c \in Coverages :
                 \E deprecated \in SUBSET (Symbols \ broken) :
                   diff' = [ran |-> TRUE, broken |-> broken,
                            deprecated |-> deprecated, coverage |-> c]
      BY <3>2, CoveragesAssumption DEF Diff
    <3> QED BY <1>2, <3>1, <3>2 DEF CollectSignals
  <2>3. /\ dep'.bump \in BumpKinds \union {"none"}
        /\ dep'.changeType \in ChangeTypes \union {"none"}
    BY <1>2 DEF CollectSignals, ChangeTypes
  <2> QED BY <1>2, <2>1, <2>2, <2>3 DEF CollectSignals, Goto
<1>3. CASE NoPatches
  BY <1>3 DEF NoPatches, Goto, Smoke
<1>4. CASE RunInstall
  <2>1. pc' \in PCs
    BY <1>4 DEF RunInstall, Goto
  <2>2. installed' \in BOOLEAN
    BY <1>4 DEF RunInstall
  <2> QED BY <1>4, <2>1, <2>2 DEF RunInstall
<1>5. CASE RunTest
  <2>1. pc' \in PCs
    BY <1>5 DEF RunTest, Goto
  <2>2. verified' \in BOOLEAN
    BY <1>5 DEF RunTest
  <2> QED BY <1>5, <2>1, <2>2 DEF RunTest
<1>6. CASE RunSmoke
  BY <1>6 DEF RunSmoke, Goto, Smoke
<1>7. CASE ScoreAndGate
  <2>1. score' = Computed
    BY <1>7 DEF ScoreAndGate, Computed
  <2>2. score'.overall \in Percent /\ score'.bucket \in Buckets
    BY <2>1, ComputedFacts
  <2>3. pc' \in {"submit", "persist"}
    BY <1>7 DEF ScoreAndGate
  <2> QED BY <1>7, <2>2, <2>3 DEF ScoreAndGate
<1>8. CASE SubmitDraftPR
  <2>1. pr' \in PRs
    <3>1. (Mode = "draft") \in BOOLEAN /\ (~push) \in BOOLEAN
      OBVIOUS
    <3>2. CASE UNCHANGED pr
      BY <3>2
    <3>3. CASE \E draft, fork \in BOOLEAN :
                 pr' = [kind |-> "existing", draft |-> draft, fork |-> fork]
      BY <3>3 DEF PRs
    <3>4. CASE pr' = [kind |-> "opened", draft |-> Mode = "draft",
                      fork |-> ~push]
      BY <3>1, <3>4 DEF PRs
    <3> QED BY <1>8, <3>2, <3>3, <3>4 DEF SubmitDraftPR, Mode
  <2> QED BY <1>8, <2>1 DEF SubmitDraftPR, Goto
<1>9. CASE PersistIssue
  BY <1>9 DEF PersistIssue, Goto, Smoke
<1>10. CASE ReadSetting
  BY <1>10 DEF ReadSetting, Goto, Smoke
<1>11. CASE Evaluate
  <2>1. verdict' \in SUBSET Rules
    BY <1>11 DEF Evaluate, Reasons
  <2> QED BY <1>11, <2>1 DEF Evaluate, Goto
<1>12. CASE LogVerdict
  BY <1>12 DEF LogVerdict, Goto, Smoke
<1>13. CASE StoreOutcome
  BY <1>13 DEF StoreOutcome, Goto, Smoke
<1>14. CASE DatabaseRejects
  BY <1>14 DEF DatabaseRejects, Goto, Smoke
<1>15. CASE NextUpgrade
  <2>1. diff' \in Diff(Symbols) /\ score'.overall \in Percent
    BY <1>15 DEF NextUpgrade, Diff, NoDiff, NoScore, Percent
  <2>2. pr' \in PRs /\ seen' \in Settings
    BY <1>15 DEF NextUpgrade, NoPR, PRs, NoRow, Settings, Percent
  <2>3. /\ dep'.bump = "none" /\ dep'.changeType = "none"
        /\ score'.bucket = "none"
    BY <1>15 DEF NextUpgrade, NoDep, NoScore
  <2>4. pc' \in PCs
    BY <1>15 DEF NextUpgrade, Goto
  <2> QED BY <1>15, <2>1, <2>2, <2>3, <2>4 DEF NextUpgrade, Smoke
<1>16. CASE SaveSetting
  <2>1. setting' \in Settings
    BY <1>16, FloorsAssumption DEF SaveSetting, Settings
  <2> QED BY <1>16, <2>1 DEF SaveSetting
<1>17. CASE RecordRejection
  BY <1>17 DEF RecordRejection, Goto, Smoke
<1>18. CASE ChangeAccess
  BY <1>18 DEF ChangeAccess, Goto, Smoke
<1>19. CASE UNCHANGED vars
  BY <1>19 DEF vars
<1> QED
  BY <1>1, <1>2, <1>3, <1>4, <1>5, <1>6, <1>7, <1>8, <1>9, <1>10, <1>11,
     <1>12, <1>13, <1>14, <1>15, <1>16, <1>17, <1>18, <1>19
  DEF Next

LEMMA ScoreStep ==
  TypeOK /\ ScoreInv /\ [Next]_vars => ScoreInv'
<1> SUFFICES ASSUME TypeOK, ScoreInv, [Next]_vars
             PROVE  ScoreInv'
  OBVIOUS
<1> USE DEF ScoreInv, Unscored, Gated, Scored, signalVars, verifyVars
<1>1. CASE StartScan
  BY <1>1 DEF StartScan, Goto
<1>2. CASE CollectSignals
  BY <1>2 DEF CollectSignals, Goto
<1>3. CASE NoPatches
  BY <1>3 DEF NoPatches, Goto
<1>4. CASE RunInstall
  BY <1>4 DEF RunInstall, Goto
<1>5. CASE RunTest
  BY <1>5 DEF RunTest, Goto
<1>6. CASE RunSmoke
  BY <1>6 DEF RunSmoke, Goto
<1>7. CASE ScoreAndGate
  <2>1. score' = Computed /\ Computed' = Computed
    BY <1>7 DEF ScoreAndGate, Computed
  <2>2. score' # NoScore
    BY <2>1, ComputedFacts
  <2>3. pc' \in {"submit", "persist"}
    BY <1>7 DEF ScoreAndGate
  <2> QED BY <1>7, <2>1, <2>2, <2>3 DEF ScoreAndGate, Computed
<1>8. CASE SubmitDraftPR
  BY <1>8 DEF SubmitDraftPR, Goto
<1>9. CASE PersistIssue
  BY <1>9 DEF PersistIssue, Goto
<1>10. CASE ReadSetting
  BY <1>10 DEF ReadSetting, Goto
<1>11. CASE Evaluate
  BY <1>11 DEF Evaluate, Goto
<1>12. CASE LogVerdict
  BY <1>12 DEF LogVerdict, Goto
<1>13. CASE StoreOutcome
  BY <1>13 DEF StoreOutcome, Goto
<1>14. CASE DatabaseRejects
  BY <1>14 DEF DatabaseRejects, Goto
<1>15. CASE NextUpgrade
  BY <1>15 DEF NextUpgrade, Goto
<1>16. CASE SaveSetting
  BY <1>16 DEF SaveSetting, Goto
<1>17. CASE RecordRejection
  BY <1>17 DEF RecordRejection, Goto
<1>18. CASE ChangeAccess
  BY <1>18 DEF ChangeAccess, Goto
<1>19. CASE UNCHANGED vars
  BY <1>19 DEF vars
<1> QED
  BY <1>1, <1>2, <1>3, <1>4, <1>5, <1>6, <1>7, <1>8, <1>9, <1>10, <1>11,
     <1>12, <1>13, <1>14, <1>15, <1>16, <1>17, <1>18, <1>19 DEF Next


LEMMA GateStep ==
  TypeOK /\ ScoreInv /\ GateInv /\ AuditInv /\ [Next]_vars => GateInv'
<1> SUFFICES ASSUME TypeOK, ScoreInv, GateInv, AuditInv, [Next]_vars
             PROVE  GateInv'
  OBVIOUS
<1> USE DEF GateInv, Unscored, Gated, Scored, ScoreInv, Mode, GateAllows,
            signalVars, verifyVars
<1>1. CASE StartScan
  BY <1>1 DEF StartScan, Goto
<1>2. CASE CollectSignals
  BY <1>2 DEF CollectSignals, Goto
<1>3. CASE NoPatches
  BY <1>3 DEF NoPatches, Goto
<1>4. CASE RunInstall
  BY <1>4 DEF RunInstall, Goto
<1>5. CASE RunTest
  BY <1>5 DEF RunTest, Goto
<1>6. CASE RunSmoke
  BY <1>6 DEF RunSmoke, Goto
<1>7. CASE ScoreAndGate
  <2>1. pr.kind = "none" /\ pr' = pr
    BY <1>7 DEF ScoreAndGate, TypeOK, PRs
  <2>2. CASE pc' = "submit"
    BY <1>7, <2>1, <2>2 DEF ScoreAndGate, verifyVars
  <2>3. CASE pc' # "submit"
    BY <1>7, <2>1, <2>3 DEF ScoreAndGate
  <2> QED BY <2>2, <2>3
<1>8. CASE SubmitDraftPR
  <2>1. /\ installed /\ GateAllows(scan.eligibility, Mode) /\ Scored
        /\ pc' = "persist"
        /\ UNCHANGED <<installed, verified, scan, score>>
    BY <1>8 DEF SubmitDraftPR, Goto
  <2>2. pr'.kind = "opened" => (pr'.draft <=> Mode = "draft")
    <3>1. CASE UNCHANGED pr
      BY <1>8, <3>1 DEF SubmitDraftPR, Goto, AuditInv
    <3>2. CASE \E draft, fork \in BOOLEAN :
                 pr' = [kind |-> "existing", draft |-> draft, fork |-> fork]
      BY <3>2
    <3>3. CASE pr' = [kind |-> "opened", draft |-> Mode = "draft",
                      fork |-> ~push]
      BY <3>3
    <3> QED BY <1>8, <3>1, <3>2, <3>3 DEF SubmitDraftPR
  <2>3. (Mode = "draft") <=> (Mode = "draft")'
    BY <2>1
  <2> QED BY <2>1, <2>2, <2>3
<1>9. CASE PersistIssue
  BY <1>9 DEF PersistIssue, Goto
<1>10. CASE ReadSetting
  BY <1>10 DEF ReadSetting, Goto
<1>11. CASE Evaluate
  BY <1>11 DEF Evaluate, Goto
<1>12. CASE LogVerdict
  BY <1>12 DEF LogVerdict, AuditInv
<1>13. CASE StoreOutcome
  BY <1>13 DEF StoreOutcome, Goto
<1>14. CASE DatabaseRejects
  BY <1>14 DEF DatabaseRejects, Goto
<1>15. CASE NextUpgrade
  BY <1>15 DEF NextUpgrade, Goto, NoPR
<1>16. CASE SaveSetting
  BY <1>16 DEF SaveSetting, Goto
<1>17. CASE RecordRejection
  BY <1>17 DEF RecordRejection, Goto
<1>18. CASE ChangeAccess
  BY <1>18 DEF ChangeAccess, Goto
<1>19. CASE UNCHANGED vars
  BY <1>19 DEF vars
<1> QED
  BY <1>1, <1>2, <1>3, <1>4, <1>5, <1>6, <1>7, <1>8, <1>9, <1>10, <1>11,
     <1>12, <1>13, <1>14, <1>15, <1>16, <1>17, <1>18, <1>19 DEF Next


LEMMA AuditStep ==
  TypeOK /\ ScoreInv /\ GateInv /\ AuditInv /\ [Next]_vars => AuditInv'
<1> SUFFICES ASSUME TypeOK, ScoreInv, GateInv, AuditInv, [Next]_vars
             PROVE  AuditInv'
  OBVIOUS
<1> USE DEF AuditInv, Gated, GateInv, gateVars
<1>1. CASE StartScan
  BY <1>1 DEF StartScan, Goto
<1>2. CASE CollectSignals
  BY <1>2 DEF CollectSignals, Goto
<1>3. CASE NoPatches
  BY <1>3 DEF NoPatches, Goto
<1>4. CASE RunInstall
  BY <1>4 DEF RunInstall, Goto
<1>5. CASE RunTest
  BY <1>5 DEF RunTest, Goto
<1>6. CASE RunSmoke
  BY <1>6 DEF RunSmoke, Goto
<1>7. CASE ScoreAndGate
  <2>1. pr.kind = "none" /\ pr' = pr
    BY <1>7 DEF ScoreAndGate, TypeOK, PRs
  <2>2. pc' \in {"submit", "persist"}
    BY <1>7 DEF ScoreAndGate
  <2> QED BY <1>7, <2>1, <2>2 DEF ScoreAndGate
<1>8. CASE SubmitDraftPR
  BY <1>8 DEF SubmitDraftPR, Goto
<1>9. CASE PersistIssue
  BY <1>9 DEF PersistIssue, Goto
<1>10. CASE ReadSetting
  BY <1>10 DEF ReadSetting, Goto
<1>11. CASE Evaluate
  <2>1. verdict' # {}
    BY <1>11, SomeReason DEF Evaluate, Goto, ScoreInv, Gated
  <2> QED BY <1>11, <2>1 DEF Evaluate, Goto
<1>12. CASE LogVerdict
  BY <1>12 DEF LogVerdict, Goto
<1>13. CASE StoreOutcome
  <2>1. outcome' # Unset
    <3>1. outcome' \in SUBSET Rules
      BY <1>13 DEF StoreOutcome, TypeOK
    <3>2. "unset" \notin Rules
      BY DEF Rules
    <3> QED BY <3>1, <3>2 DEF Unset
  <2> QED BY <1>13, <2>1 DEF StoreOutcome, Goto
<1>14. CASE DatabaseRejects
  BY <1>14 DEF DatabaseRejects, Goto
<1>15. CASE NextUpgrade
  BY <1>15 DEF NextUpgrade, Goto, NoPR
<1>16. CASE SaveSetting
  BY <1>16 DEF SaveSetting, Goto
<1>17. CASE RecordRejection
  BY <1>17 DEF RecordRejection, Goto
<1>18. CASE ChangeAccess
  BY <1>18 DEF ChangeAccess, Goto
<1>19. CASE UNCHANGED vars
  BY <1>19 DEF vars
<1> QED
  BY <1>1, <1>2, <1>3, <1>4, <1>5, <1>6, <1>7, <1>8, <1>9, <1>10, <1>11,
     <1>12, <1>13, <1>14, <1>15, <1>16, <1>17, <1>18, <1>19 DEF Next

THEOREM Invariant == Spec => []IInv
<1>1. IInv /\ [Next]_vars => IInv'
  BY TypeStep, ScoreStep, GateStep, AuditStep DEF IInv
<1> QED BY InitIInv, <1>1, PTL DEF Spec

\* Type correctness; in particular every score is between 0 and 100.
THEOREM TypeCorrect == Spec => []TypeOK
<1>1. IInv => TypeOK
  BY DEF IInv
<1> QED BY Invariant, <1>1, PTL

(***************************************************************************)
(* The score.                                                              *)
(***************************************************************************)
LEMMA ScoreIsComputed ==
  ASSUME IInv, Scored
  PROVE  TypeOK /\ score = Computed
  BY DEF IInv, ScoreInv, Computed

\* The bucket and the number of a score tell the same story.
THEOREM BucketIsHonest == Spec => []BucketMatchesScore
<1>1. IInv => BucketMatchesScore
  BY ScoreIsComputed, ComputedFacts DEF BucketMatchesScore
<1> QED BY Invariant, <1>1, PTL

\* Failed evidence puts an upgrade in the low bucket.
THEOREM EvidenceCaps == Spec => []FailedEvidenceIsLow
<1>1. IInv => FailedEvidenceIsLow
  BY ScoreIsComputed, ComputedFacts
  DEF FailedEvidenceIsLow, BucketFromScore, BucketHigh, BucketMedium,
      VerifyFailCap, Percent
<1> QED BY Invariant, <1>1, PTL

\* The skip mode of the threshold gate cannot be reached.
THEOREM NothingIsSkippedForItsScore == Spec => []FloorNeverReached
<1>1. IInv => FloorNeverReached
  BY ScoreIsComputed, ComputedFacts
  DEF FloorNeverReached, SubmissionFloor, ChangelogOnlyHighCoverage, Percent
<1> QED BY Invariant, <1>1, PTL

\* Agreement of the signals never lowers a score.
THEOREM AgreementIsRewarded == Spec => []AgreementNeverHurts
<1>1. IInv => AgreementNeverHurts
  <2> SUFFICES ASSUME IInv, Scored, diff.ran,
                      NEW s \in changelog \ Flagged(diff)
               PROVE  CalculateConfidence(
                        changelog, [diff EXCEPT !.broken = @ \union {s}],
                        verified, smoke, scan.ceiling).overall
                        >= score.overall
    BY DEF AgreementNeverHurts
  <2> DEFINE more == [diff EXCEPT !.broken = @ \union {s}]
             better == CalculateConfidence(changelog, more, verified, smoke,
                                           scan.ceiling)
  <2>1. TypeOK /\ score = Computed
    BY ScoreIsComputed
  <2>2. /\ changelog \in SUBSET Symbols /\ diff \in Diff(Symbols)
        /\ verified \in BOOLEAN /\ smoke \in Smoke
        /\ scan.ceiling \in Buckets
    BY <2>1 DEF TypeOK
  <2>3. Computed.overall <= better.overall
    BY <2>2, SymbolsAssumption, AgreementRaisesScore DEF Computed
  <2>4. Computed.overall \in Percent
    BY <2>1, ComputedFacts
  <2>5. more \in Diff(Symbols)
    BY <2>2 DEF Diff
  <2>6. better.overall \in Percent
    BY <2>2, <2>5, SymbolsAssumption, ConfidenceFacts
  <2> HIDE DEF better, more
  <2>7. better.overall >= score.overall
    BY <2>1, <2>3, <2>4, <2>6 DEF Percent
  <2> QED BY <2>7 DEF better, more
<1> QED BY Invariant, <1>1, PTL

(***************************************************************************)
(* The pull requests.                                                      *)
(***************************************************************************)
\* A pull request that is no draft is at or above the threshold of the user.
LEMMA OpenedStandard ==
  ASSUME IInv, pr.kind = "opened", ~pr.draft
  PROVE  /\ installed
         /\ TypeOK /\ Scored /\ score = Computed
         /\ score.overall >= ResolveThreshold(scan.threshold)
<1>1. installed /\ Mode # "skip" /\ Mode # "draft" /\ Scored
  BY DEF IInv, GateInv, GateAllows
<1>2. score.overall >= ResolveThreshold(scan.threshold)
  BY <1>1 DEF Mode, ChooseSubmissionMode
<1> QED BY <1>1, <1>2, ScoreIsComputed

\* A threshold above the cap keeps what failed its tests, or to boot, from
\* being opened ready for review.
THEOREM StandardPRsAreVerified == Spec => []StandardIsVerified
<1>1. IInv => StandardIsVerified
  <2> SUFFICES ASSUME IInv, pr.kind = "opened", ~pr.draft,
                      scan.threshold > VerifyFailCap
               PROVE  installed /\ verified /\ smoke # "failed"
    BY DEF StandardIsVerified
  <2>1. /\ installed
        /\ TypeOK /\ score = Computed
        /\ score.overall >= ResolveThreshold(scan.threshold)
    BY OpenedStandard
  <2>2. scan.threshold \in Nat
    BY <2>1 DEF TypeOK
  <2>3. /\ ResolveThreshold(scan.threshold) \in Nat
        /\ ResolveThreshold(scan.threshold) > 50
    BY <2>2 DEF ResolveThreshold, AtMost, SubmissionFloor, VerifyFailCap
  <2>4. /\ score.overall \in Percent
        /\ ~verified \/ smoke = "failed" => score.overall <= VerifyFailCap
    BY <2>1, ComputedFacts
  <2> QED BY <2>1, <2>3, <2>4 DEF Percent, VerifyFailCap
<1> QED BY Invariant, <1>1, PTL

\* While nobody changes who can push, ownership is what it was when the scan
\* began, and a fork means that the repository is not owned.
ForkInv ==
  /\ pc # "idle" => scan.owns = push
  /\ scan.eligibility.decision = "owned" <=> scan.owns
  /\ pr.kind = "opened" /\ pr.fork => ~scan.owns


LEMMA ForkStep ==
  /\ TypeOK /\ GateInv /\ ForkInv
  /\ "access" \notin Disturbances
  /\ [Next]_vars
  => ForkInv'
<1> SUFFICES ASSUME TypeOK, GateInv, ForkInv,
                    "access" \notin Disturbances, [Next]_vars
             PROVE  ForkInv'
  OBVIOUS
<1> USE DEF ForkInv, worldVars
<1>1. CASE StartScan
  BY <1>1 DEF StartScan, Goto, DecideEligibility, GateInv, Gated
<1>2. CASE CollectSignals
  BY <1>2 DEF CollectSignals, Goto
<1>3. CASE NoPatches
  BY <1>3 DEF NoPatches, Goto
<1>4. CASE RunInstall
  BY <1>4 DEF RunInstall, Goto
<1>5. CASE RunTest
  BY <1>5 DEF RunTest, Goto
<1>6. CASE RunSmoke
  BY <1>6 DEF RunSmoke, Goto
<1>7. CASE ScoreAndGate
  BY <1>7 DEF ScoreAndGate
<1>8. CASE SubmitDraftPR
  <2>1. UNCHANGED <<scan, push>> /\ pc = "submit"
    BY <1>8 DEF SubmitDraftPR, Goto
  <2>2. pr'.kind = "opened" /\ pr'.fork => ~scan.owns
    <3>1. CASE UNCHANGED pr
      BY <3>1
    <3>2. CASE \E draft, fork \in BOOLEAN :
                 pr' = [kind |-> "existing", draft |-> draft, fork |-> fork]
      BY <3>2
    <3>3. CASE pr' = [kind |-> "opened", draft |-> Mode = "draft",
                      fork |-> ~push]
      BY <2>1, <3>3
    <3> QED BY <1>8, <3>1, <3>2, <3>3 DEF SubmitDraftPR, Mode
  <2> QED BY <2>1, <2>2
<1>9. CASE PersistIssue
  BY <1>9 DEF PersistIssue, Goto
<1>10. CASE ReadSetting
  BY <1>10 DEF ReadSetting, Goto
<1>11. CASE Evaluate
  BY <1>11 DEF Evaluate, Goto
<1>12. CASE LogVerdict
  BY <1>12 DEF LogVerdict, Goto
<1>13. CASE StoreOutcome
  BY <1>13 DEF StoreOutcome, Goto
<1>14. CASE DatabaseRejects
  BY <1>14 DEF DatabaseRejects, Goto
<1>15. CASE NextUpgrade
  BY <1>15 DEF NextUpgrade, Goto, NoPR
<1>16. CASE SaveSetting
  BY <1>16 DEF SaveSetting, Goto
<1>17. CASE RecordRejection
  BY <1>17 DEF RecordRejection, Goto
<1>18. CASE ChangeAccess
  BY <1>18 DEF ChangeAccess, Goto
<1>19. CASE UNCHANGED vars
  BY <1>19 DEF vars
<1> QED
  BY <1>1, <1>2, <1>3, <1>4, <1>5, <1>6, <1>7, <1>8, <1>9, <1>10, <1>11,
     <1>12, <1>13, <1>14, <1>15, <1>16, <1>17, <1>18, <1>19 DEF Next

\* Nothing is opened on the repository of others without their consent and
\* the high bar, as long as the access of the account does not change.
THEOREM ForeignPRsAreWelcome ==
  ASSUME "access" \notin Disturbances
  PROVE  Spec => []ForeignPRsWelcome
<1>1. Init => ForkInv
  BY DEF Init, ForkInv, DecideEligibility, NoPR
<1>2. IInv /\ ForkInv /\ [Next]_vars => ForkInv'
  BY ForkStep DEF IInv
<1>3. IInv /\ ForkInv => ForeignPRsWelcome
  <2> SUFFICES ASSUME IInv, ForkInv, pr.kind = "opened", pr.fork
               PROVE  /\ scan.eligibility.decision = "external"
                      /\ scan.eligibility.canOpenPRs
                      /\ verified
                      /\ ~pr.draft
    BY DEF ForeignPRsWelcome
  <2>1. /\ scan.eligibility.decision # "owned"
        /\ GateAllows(scan.eligibility, Mode)
        /\ pr.draft <=> Mode = "draft"
    BY DEF ForkInv, IInv, GateInv
  <2>2. scan.eligibility.decision \in {"owned", "external", "blocked"}
    BY DEF IInv, TypeOK, Eligibility
  <2> QED BY <2>1, <2>2 DEF GateAllows
<1> QED BY Invariant, <1>1, <1>2, <1>3, PTL DEF Spec

(***************************************************************************)
(* The auto-merge gate.                                                    *)
(***************************************************************************)
\* The merge path of the gate is unreachable, for any settings.
THEOREM NothingIsAutoMerged == Spec => []AutoMergeNeverFires
<1>1. IInv => AutoMergeNeverFires
  BY DEF IInv, AuditInv, AutoMergeNeverFires
<1> QED BY Invariant, <1>1, PTL

\* Every stored outcome has its log row, every undisturbed gate an outcome.
THEOREM VerdictsAreAudited == Spec => []VerdictIsAudited
<1>1. IInv => VerdictIsAudited
  BY DEF IInv, AuditInv, VerdictIsAudited
<1> QED BY Invariant, <1>1, PTL
=============================================================================
