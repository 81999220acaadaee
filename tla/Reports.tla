------------------------------ MODULE Reports -------------------------------
(***************************************************************************)
(* Two reports on scores: the inspection of an upgrade without a           *)
(* repository (lib/agent/inspect.ts and the routes inspect), and the       *)
(* calibration bench that compares a release with a committed baseline     *)
(* (lib/eval/scoring.ts, bench-runner.ts, scripts/eval.ts).                *)
(*                                                                         *)
(* A signal is a record [ok, result]: what it returns unless it throws.    *)
(***************************************************************************)
EXTENDS Integers, Sequences, FiniteSets, FiniteSetsExt, SequencesExt

Conf == INSTANCE Confidence

None == "none"

-----------------------------------------------------------------------------
(* The inspection *)

MediumCeiling == 79

\* Mutant: the bucket is lowered and the number forgotten.
BugApplyInspectStructuralCap(score) ==
    IF score.overall <= MediumCeiling /\ score.bucket # "high"
    THEN [score |-> score, cap |-> None]
    ELSE [score |-> [score EXCEPT !.bucket = "medium"], cap |-> "medium-ceiling-no-verify"]
ApplyInspectStructuralCap(score) ==
    IF score.overall <= MediumCeiling /\ score.bucket # "high"
    THEN [score |-> score, cap |-> None]
    ELSE [score |-> [overall |-> Conf!AtMost(score.overall, MediumCeiling), bucket |-> "medium"],
          cap |-> "medium-ceiling-no-verify"]

\* Without a token the changelog is skipped; what throws is an error of the
\* report.  Nothing is verified, and nothing has failed to verify.
InspectApi(pat, changelog, diff) ==
    LET symbols == IF pat /\ changelog.ok THEN changelog.result ELSE {}
        semantic == IF diff.ok THEN diff.result ELSE Conf!NoDiff
        capped == ApplyInspectStructuralCap(
                    Conf!CalculateConfidence(symbols, semantic, TRUE, "none", "high"))
    IN  [changes |-> symbols, diff |-> semantic, confidence |-> capped.score, cap |-> capped.cap,
         errors |-> (IF ~pat THEN {"changelog skipped"} ELSE {})
                    \cup (IF pat /\ ~changelog.ok THEN {"changelog"} ELSE {})
                    \cup (IF diff.ok THEN {} ELSE {"semantic-diff"})]

\* POST: body tells whether the names are valid and the versions differ, and
\* saves whether the row can be written.  rows: by id, the stored report in a
\* sequence of its own, empty where the row is no JSON.
PostInspect(rows, body, saves, report) ==
    CASE ~body.valid \/ body.same -> [status |-> 400, rows |-> rows]
      [] body.valid /\ ~body.same /\ saves ->
           [status |-> 201, rows |-> Append(rows, <<report>>), id |-> Len(rows) + 1, report |-> report]
      [] OTHER -> [status |-> 200, rows |-> rows, id |-> 0, report |-> report]

\* GET: a row that is no JSON is told, never a part of it.
GetInspect(rows, id) ==
    CASE id \notin DOMAIN rows -> [status |-> 404]
      [] id \in DOMAIN rows /\ rows[id] = <<>> -> [status |-> 500]
      [] OTHER -> [status |-> 200, report |-> rows[id][1]]

\* A report never says "high" nor more than a scan that verified the same
\* upgrade would, names every signal it lacks and no symbol of one, and its
\* permalink shows the report that was shown ("CANNOT show high confidence").
InspectionIsModest(pat, changelog, diff, rows, body, saves) ==
    LET report == InspectApi(pat, changelog, diff)
        scan == Conf!CalculateConfidence(report.changes, report.diff, TRUE, "booted", "high")
        answer == PostInspect(rows, body, saves, report)
    IN  /\ report.confidence.bucket = Conf!BucketFromScore(report.confidence.overall)
        /\ report.confidence.bucket # "high" /\ report.confidence.overall <= scan.overall
        /\ report.cap = None <=> report.confidence = scan
        /\ report.errors = {} => pat /\ changelog.ok /\ diff.ok
        /\ ~changelog.ok => report.changes = {} /\ report.errors # {}
        /\ answer.status = 201 => GetInspect(answer.rows, answer.id) = [status |-> 200, report |-> report]
        /\ \A id \in DOMAIN rows : GetInspect(answer.rows, id) = GetInspect(rows, id)

\* Not true of the code: the route refuses equal versions with 422
\* (inspect/route.ts, "returns 422 with a clear explanation").
EqualVersionsAre422(rows, saves, report) ==
    PostInspect(rows, [valid |-> TRUE, same |-> TRUE], saves, report).status = 422

-----------------------------------------------------------------------------
(* The bench.  A fixture is a record [id, input, expected]: expected has a *)
(* bucket, min, max, and the sets of symbols to detect and not to detect.  *)

ScoreOne(fixture, score, symbols) ==
    LET e == fixture.expected
        match == score.bucket = e.bucket
        inRange == score.overall \in e.min..e.max
    IN  [id |-> fixture.id, expected |-> e.bucket, observed |-> score.bucket,
         match |-> match, inRange |-> inRange,
         passed |-> match /\ inRange /\ e.detect \subseteq symbols /\ e.ignore \cap symbols = {}]

RunFixture(fixture) ==
    LET i == fixture.input
    IN  ScoreOne(fixture,
                 Conf!CalculateConfidence(i.changelog, i.diff, i.verified, i.smoke, i.ceiling),
                 Conf!SymbolMatrix(i.changelog, i.diff))

\* A file that cannot be read or validated, or a tag no fixture has, fails
\* the whole bench.
RunBench(cases, tag) ==
    LET chosen == SelectSeq(cases, LAMBDA c : tag = None \/ tag \in c.tags)
    IN  IF (\E i \in DOMAIN cases : ~cases[i].valid) \/ chosen = <<>> THEN <<>>
        ELSE [i \in DOMAIN chosen |-> RunFixture(chosen[i])]

\* A percentage in tenths.
Pct(n, d) == IF d = 0 THEN 0 ELSE Conf!RoundedQuotient(1000 * n, d)

\* The order of the fixtures in the file is left out: the comparison reads
\* them by id.
AggregateReport(results) ==
    LET all == DOMAIN results
        matching == {i \in all : results[i].match}
        at(e, o) == {i \in all : results[i].expected = e /\ results[i].observed = o}
    IN  [fixtures  |-> results,
         failed    |-> Cardinality({i \in all : ~results[i].passed}),
         accuracy  |-> Pct(Cardinality(matching), Cardinality(all)),
         confusion |-> [e, o \in Conf!Buckets |-> Cardinality(at(e, o))]]

\* new Map(...): of two results with one id the later one.
ById(report) ==
    LET ids == {report.fixtures[i].id : i \in DOMAIN report.fixtures}
    IN  [id \in ids |-> report.fixtures[SelectLastInSeq(report.fixtures, LAMBDA r : r.id = id)]]

\* Mutant: a fixture without a predecessor cannot regress.
BugNewlyFailing(base, next) ==
    {id \in DOMAIN next : ~next[id].passed /\ id \in DOMAIN base /\ base[id].passed}
NewlyFailing(base, next) ==
    {id \in DOMAIN next : ~next[id].passed /\ (id \in DOMAIN base => base[id].passed)}

CompareToBaseline(baseline, next) ==
    [ok |-> NewlyFailing(ById(baseline), ById(next)) = {} /\ next.accuracy >= baseline.accuracy]

\* The exit code of scripts/eval.ts; baseline is a sequence of no or one
\* report, empty too where the file cannot be parsed (corrupt).
EvalExit(results, update, corrupt, baseline) ==
    CASE results = <<>> -> 2
      [] results # <<>> /\ update -> 0
      [] results # <<>> /\ ~update /\ corrupt -> 2
      [] OTHER ->
           LET next == AggregateReport(results)
           IN  IF \/ next.failed > 0
                  \/ baseline # <<>> /\ ~CompareToBaseline(baseline[1], next).ok
               THEN 1 ELSE 0

\* A chain of accepted releases has accepted ends: no regression hides behind
\* a release in between that lacks the fixture.  A release without a change
\* is accepted, a green bench has no failing fixture, and the confusion
\* matrix holds every fixture once, on its diagonal those whose bucket is
\* right.
BenchIsHonest(first, second, third) ==
    LET a == AggregateReport(first)
        b == AggregateReport(second)
        c == AggregateReport(third)
        ok(x, y) == CompareToBaseline(x, y).ok
        cells == {<<e, o>> : e, o \in Conf!Buckets}
    IN  /\ ok(a, a)
        /\ ok(a, b) /\ ok(b, c) => ok(a, c)
        /\ \A id \in DOMAIN ById(a) \cap DOMAIN ById(b) :
             ok(a, b) /\ ById(a)[id].passed => ById(b)[id].passed
        /\ EvalExit(third, FALSE, FALSE, <<a>>) = 0 => \A i \in DOMAIN third : third[i].passed
        /\ MapThenSumSet(LAMBDA x : c.confusion[x], cells) = Len(third)
        /\ c.accuracy = 1000 => \A x \in cells : x[1] # x[2] => c.confusion[x] = 0

\* A fixture that is not read is never skipped in silence, with or without a
\* tag, and passes only if the score says what it pins.
FixturesAreRun(cases, tag) ==
    LET results == RunBench(cases, tag)
    IN  /\ results = <<>> => EvalExit(results, FALSE, FALSE, <<>>) = 2
        /\ results # <<>> =>
             \A i \in DOMAIN cases : cases[i].valid /\
               (tag = None \/ tag \in cases[i].tags =>
                  \E k \in DOMAIN results : results[k].id = cases[i].id)
        /\ \A k \in DOMAIN results : results[k].passed => results[k].match

\* Not true of the code: a fixture that passed in the baseline is in the next
\* report (scoring.ts, "did the new report drop ANY fixture that previously
\* passed?").
NoFixtureIsDropped(first, second) ==
    LET a == AggregateReport(first)
        b == AggregateReport(second)
    IN  CompareToBaseline(a, b).ok =>
          \A id \in DOMAIN ById(a) : ById(a)[id].passed => id \in DOMAIN ById(b)
=============================================================================
