------------------------------- MODULE Recall -------------------------------
(***************************************************************************)
(* Who reads the rejections: the recall for a diagnosis                    *)
(* (learning/rejection-recall.ts, embedding.ts, phases/diagnose.ts), the   *)
(* route that lists them (app/api/rejections GET) and the envelope of      *)
(* auto-merge (automerge/runner-glue.ts).  LearningLoop models who writes  *)
(* them.                                                                   *)
(*                                                                         *)
(* A table is a sequence in the order of createdAt of records [dep,        *)
(* change, form, vec]; a row is its position.  form is what the column of  *)
(* the embedding holds: "null", "corrupt" bytes or the "floats" of vec, a  *)
(* sequence of integers here.                                              *)
(***************************************************************************)
EXTENDS Integers, Sequences, FiniteSets, SequencesExt

None == "none"
DefaultLimit == 5
CandidateCap == 500
SimilarLimit == 3

Smaller(a, b) == IF a < b THEN a ELSE b
Larger(a, b) == IF a < b THEN b ELSE a
Take(s, n) == SubSeq(s, 1, Smaller(Larger(n, 0), Len(s)))

\* findMany ordered by createdAt desc.
NewestFirst(rows) ==
    CHOOSE list \in [1..Cardinality(rows) -> rows] : \A i, j \in DOMAIN list : i < j => list[i] > list[j]

-----------------------------------------------------------------------------
(* The exact recall *)

\* The first query, for the change type; none without one.
ExactMatches(table, dep, change, limit) ==
    IF change = None THEN <<>>
    ELSE Take(NewestFirst({r \in DOMAIN table : table[r].dep = dep /\ table[r].change = change}), limit)

\* The second fills up with other rows of the dependency.
\* Mutant: it does not leave out those of the first.
BugBackfill(table, dep, exact, limit) ==
    Take(NewestFirst({r \in DOMAIN table : table[r].dep = dep}), limit - Len(exact))
Backfill(table, dep, exact, limit) ==
    Take(NewestFirst({r \in DOMAIN table : table[r].dep = dep} \ ToSet(exact)),
         limit - Len(exact))

\* Between the two queries other recorders write: before and after.
RecallRejectionPatterns(before, after, dep, change, limit) ==
    LET exact == ExactMatches(before, dep, change, limit)
    IN  CASE limit <= 0 \/ dep = None -> <<>>
          [] limit > 0 /\ dep # None /\ Len(exact) >= limit -> exact
          [] OTHER -> exact \o Backfill(after, dep, exact, limit)

\* GET /api/rejections: the limit is a number from 1 to 20, 5 when it is not
\* one (or is 0).
ClampLimit(limit) ==
    Larger(1, Smaller(20, IF limit \in {None, "NaN", "0"} THEN 5 ELSE limit))
GetRejections(table, dep, change, limit) ==
    IF dep = None THEN [status |-> 400]
    ELSE [status |-> 200, rows |-> RecallRejectionPatterns(table, table, dep, change, ClampLimit(limit))]

\* Whatever is written in between: rows of the dependency, none twice, no
\* more than asked for and no fewer than there were; those of the change
\* type come first.
RecallIsOfTheDep(before, after, dep, change, limit) ==
    LET rows == RecallRejectionPatterns(before, after, dep, change, limit)
        ofDep(t) == {r \in DOMAIN t : t[r].dep = dep}
        exact == {r \in DOMAIN before : before[r].dep = dep /\ before[r].change = change}
    IN  /\ IsInjective(rows)
        /\ ToSet(rows) \subseteq ofDep(after)
        /\ Len(rows) <= Larger(limit, 0)
        /\ Len(rows) >= Smaller(limit, Cardinality(ofDep(before)))
        /\ change # None =>
             \A i \in DOMAIN rows : i <= Smaller(limit, Cardinality(exact)) => rows[i] \in exact

-----------------------------------------------------------------------------
(* The recall by similarity *)

Dot(u, v) == FoldLeft(LAMBDA s, i : s + u[i] * v[i], 0, [i \in 1..Len(u) |-> i])

\* deserializeEmbedding: bytes that are no sequence of floats are no vector.
Deserialize(row) == IF row.form = "floats" THEN row.vec ELSE <<>>

\* The cosine has no integer value; it is the fraction dot * |dot| over the
\* product of the squared norms, of which the sign and the order are those
\* of the cosine.  Lengths that differ and null vectors have similarity 0.
\* Mutant: the lengths are not compared.
BugComparable(u, v) == Len(u) # 0 /\ Len(v) # 0
Comparable(u, v) == Len(u) # 0 /\ Len(u) = Len(v)
Similarity(u, v) ==
    IF ~Comparable(u, v) THEN [num |-> 0, den |-> 1]
    ELSE LET n == Smaller(Len(u), Len(v))
             d == Dot(SubSeq(u, 1, n), SubSeq(v, 1, n))
             norms == Dot(u, u) * Dot(v, v)
         IN  IF norms = 0 THEN [num |-> 0, den |-> 1]
             ELSE [num |-> IF d < 0 THEN -(d * d) ELSE d * d, den |-> norms]

AtLeast(s, t) == s.num * t.den >= t.num * s.den
MinSimilarity == [num |-> 9, den |-> 16]   \* 0.75, squared

\* The query is embedded; <<>> when it cannot be.  Stable sort by descending similarity.
InsertBySimilarity(scored, x) ==
    LET i == SelectInSeq(scored, LAMBDA y : ~AtLeast(y.sim, x.sim))
    IN  IF i = 0 THEN Append(scored, x) ELSE InsertAt(scored, i, x)

RecallSimilarRejections(table, query, excluded, limit) ==
    LET candidates == Take(NewestFirst({r \in DOMAIN table : table[r].form # "null"}), CandidateCap)
        scored == [i \in DOMAIN candidates |->
                     [row |-> candidates[i],
                      sim |-> Similarity(query, Deserialize(table[candidates[i]]))]]
        kept == SelectSeq(scored, LAMBDA x : x.row \notin excluded /\ AtLeast(x.sim, MinSimilarity))
    IN  IF limit <= 0 \/ query = <<>> THEN <<>>
        ELSE Take(FoldLeft(InsertBySimilarity, <<>>, kept), limit)

\* diagnoseIssue: what the two recalls put before the model; the change type
\* is that of the first breaking change.  A failed query of the database
\* leaves what was found before it.  Mutant: rows found twice are told twice.
BugExcluded(rows) == {}
Excluded(rows) == ToSet(rows)
PriorRejections(table, dep, change, query, failing) ==
    LET exact == RecallRejectionPatterns(table, table, dep, change, DefaultLimit)
        similar == RecallSimilarRejections(table, query, Excluded(exact), SimilarLimit)
    IN  CASE failing = "exact" -> [exact |-> <<>>, similar |-> <<>>]
          [] failing = "similar" -> [exact |-> exact, similar |-> <<>>]
          [] OTHER -> [exact |-> exact, similar |-> [i \in DOMAIN similar |-> similar[i].row]]

\* A rejection stands in the prompt once, under the heading it belongs to,
\* and one that is not similar, or not comparable, in neither.
PromptTellsApart(table, dep, change, query, failing) ==
    LET p == PriorRejections(table, dep, change, query, failing)
    IN  /\ ToSet(p.exact) \cap ToSet(p.similar) = {}
        /\ \A r \in ToSet(p.exact) : table[r].dep = dep
        /\ Len(p.similar) <= SimilarLimit
        /\ \A r \in ToSet(p.similar) :
             /\ table[r].form = "floats" /\ Len(table[r].vec) = Len(query)
             /\ 16 * Dot(table[r].vec, query) * Dot(table[r].vec, query)
                  >= 9 * Dot(table[r].vec, table[r].vec) * Dot(query, query)
             /\ Dot(table[r].vec, query) > 0

-----------------------------------------------------------------------------
(* The envelope of auto-merge *)

HasRejectionHistory(table, dep, change) ==
    \E r \in DOMAIN table : table[r].dep = dep /\ table[r].change = change

\* Not true of the code: a dependency with a rejection is not merged
\* automatically.  The poller records no change type, and the envelope looks
\* for the one of the upgrade.
RejectedDepsAreBlocked(table, dep, change) ==
    (\E r \in DOMAIN table : table[r].dep = dep) => HasRejectionHistory(table, dep, change)
=============================================================================
