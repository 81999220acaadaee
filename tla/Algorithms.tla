----------------------------- MODULE Algorithms -----------------------------
(***************************************************************************)
(* The pure parts of Mendel that fold over sequences, on all inputs of a   *)
(* bounded size: one step picks a computation and its input, the           *)
(* invariants compare its result with what it promises.  MCParts runs it.  *)
(* Verdicts has the pure parts that are proved for all inputs.             *)
(***************************************************************************)
EXTENDS Integers, Sequences, FiniteSets, SequencesExt, TLC

VARIABLE task

Sig == INSTANCE Signals
Edit == INSTANCE Blocks
Rec == INSTANCE Recall
View == INSTANCE IssueView
Rep == INSTANCE Reports

NoTask == [kind |-> "none"]
UpTo(S, n) == UNION {[1..k -> S] : k \in 0..n}

-----------------------------------------------------------------------------
(* Inputs *)

Ex(n, s, f, dep) == [name |-> n, sig |-> <<"one", "two">>[s], form |-> f, deprecated |-> dep]
File(exports) == [parses |-> TRUE, exports |-> exports]
JsExports == {Ex("a", 1, "esm", FALSE), Ex("a", 2, "cjs", FALSE), Ex("a", 1, "list", FALSE),
              Ex("b", 1, "odd", FALSE), Ex("default", 1, "esm", FALSE)}
DtsExports == {Ex("a", 1, "esm", TRUE), Ex("a", 2, "esm", FALSE), Ex("b", 1, "esm", FALSE),
               Ex("b", 1, "odd", FALSE)}
JsFiles == {File(x) : x \in UpTo(JsExports, 2)} \cup {Sig!Unparsable}
Root(dts, js, emitted) ==
    [dts |-> dts, js |-> js, jsdoc |-> emitted # <<>>, emitted |-> emitted]
Roots == {Root(<<>>, js, <<>>) : js \in UpTo(JsFiles, 1) \cup {<<File(<<e>>), File(<<f>>)>> : e, f \in JsExports}}
         \cup {Root(<<File(x)>>, <<>>, <<>>) : x \in UpTo(DtsExports, 2)}
         \cup {Root(<<>>, <<File(<<e>>)>>, <<File(x)>>) : e \in JsExports, x \in UpTo(DtsExports, 1)}

Tags == (UpTo({1, 9}, 2) \ {<<>>}) \cup {<<9, Sig!Dot, 1>>, <<1, Sig!Dot, 9>>, <<1, 1, Sig!Dot, 1>>}
Releases == [tag : Tags, notes : BOOLEAN]

Texts(n) == UpTo({"x", "y", Edit!SP, Edit!NL}, n)
Edits == [path : {"f"}, search : Texts(2), replace : {<<>>, <<"z">>}]
LongEdits == [path : {"f"}, search : UpTo({"x", Edit!SP, Edit!NL}, 3), replace : {<<"z", Edit!NL>>}]
Parts == UpTo({"blank", "f"}, 1)
PromptedBlocks == [path : {"f", "g"}, search : Parts, replace : Parts]
Embedded == [dep : {"d", "e"}, change : {"removed"}, form : {"null", "corrupt"}, vec : {<<1, 1>>}]
            \cup [dep : {"d", "e"}, change : {"removed"}, form : {"floats"},
                 vec : {<<2, 0>>, <<0, 1>>, <<-1, 0>>, <<0, 0>>, <<2, 1>>, <<1>>}]

Scores == {View!Stub} \cup [kind : {"score"}, overall : {0, 51, 100}, bucket : {"high", "low"},
                            capped : BOOLEAN, tier : {"dts", "none"}]
Outcome == [breaking : {<<>>, <<"s">>, <<"s", "t", "u", "v", "w", "x">>}, score : Scores,
            patches : {<<>>, <<"package.json">>, <<"src/a">>, <<"package.json", "src/a">>},
            verified : BOOLEAN, prUrl : {View!None, "url"},
            diff : {<<>>, <<0>>, <<50>>}, packageDir : {"."}, language : {View!None}]
BareOutcome == [breaking |-> <<>>, score |-> View!Stub, patches |-> <<"package.json">>, verified |-> TRUE,
                prUrl |-> View!None, diff |-> <<>>, packageDir |-> ".", language |-> View!None]
Columns == {"confidence", "diagnosis", "patch", "verification", "notAnalyzed"}
RowOf(s, verified) == View!PersistIssueData([BareOutcome EXCEPT !.score = s, !.verified = verified])
Packagings == {<<>>, <<[dir |-> ".", name |-> "n"]>>, <<[dir |-> "a", name |-> "m"], [dir |-> ".", name |-> "n"]>>}

Input(symbols, verified) ==
    [changelog |-> symbols, verified |-> verified, smoke |-> "none", ceiling |-> "high",
     diff |-> [ran |-> TRUE, broken |-> symbols, deprecated |-> {}, coverage |-> 80]]
Expected == [bucket : {"high", "low"}, min : {0}, max : {60, 90}, detect : {{}, {"s"}}, ignore : {{}, {"t"}}]
Fixture(id, input, e, valid) ==
    [id |-> id, input |-> input, expected |-> e, valid |-> valid, tags |-> {<<"even", "odd">>[1 + (id % 2)]}]
Cases == {Fixture(id, Input(s, v), e, TRUE) :
            id \in 1..2, s \in {{}, {"s"}, {"s", "t"}}, v \in BOOLEAN, e \in Expected}
         \cup {Fixture(1, Input({}, TRUE), e, FALSE) : e \in Expected}
\* One that passes, one out of range, one in the wrong bucket.
Results == {Rep!RunFixture(Fixture(id, Input({"s"}, TRUE), [bucket |-> pin[1], min |-> 0, max |-> pin[2],
                                                         detect |-> {}, ignore |-> {}], TRUE)) :
              id \in 1..2, pin \in {<<"high", 90>>, <<"high", 60>>, <<"low", 90>>}}
Benches == UpTo(Results, 2) \ {<<>>}

-----------------------------------------------------------------------------

AlgInit == task = NoTask

Signals ==
    \/ \E old, new \in Roots : task' = [kind |-> "diff of exports", old |-> old, new |-> new]
    \/ \E releases \in UpTo(Releases, 2), from \in Tags, count \in 1..2 :
         task' = [kind |-> "notes", releases |-> releases, from |-> from, count |-> count]

Patching ==
    \/ \E text \in Texts(4), e \in Edits : task' = [kind |-> "apply", text |-> text, blocks |-> <<e>>]
    \/ \E text \in UpTo({"x", Edit!SP}, 2), e, f \in Edits :
         task' = [kind |-> "apply", text |-> text, blocks |-> <<e, f>>]
    \/ \E text \in [1..5 -> {"x", Edit!SP, Edit!NL}], e \in LongEdits :
         task' = [kind |-> "apply", text |-> text, blocks |-> <<e>>]
    \/ \E blocks \in UpTo(PromptedBlocks, 2), prose \in {<<>>, <<"blank">>, <<"fence">>} :
         task' = [kind |-> "read back", blocks |-> blocks, prose |-> prose]

Records ==
    \/ \E table \in UpTo(Embedded, 2), query \in {<<>>, <<2, 1>>, <<1, 0>>},
          failing \in {"none", "exact", "similar"} :
         task' = [kind |-> "prompt", table |-> table, query |-> query, failing |-> failing]
    \/ \E a \in Outcome, columns \in {{c} : c \in Columns} \cup {Columns} :
         task' = [kind |-> "issue", outcome |-> a, columns |-> columns, packages |-> <<>>]
    \/ \E packages \in Packagings :
         task' = [kind |-> "issue", outcome |-> BareOutcome, columns |-> {}, packages |-> packages]
    \/ \E scores \in UpTo(Scores, 2), verified \in BOOLEAN :
         task' = [kind |-> "summary", rows |-> [i \in DOMAIN scores |-> RowOf(scores[i], verified)]]
    \/ \E first, second, third \in Benches :
         task' = [kind |-> "releases", first |-> first, second |-> second, third |-> third]
    \/ \E cases \in UpTo(Cases, 1) \cup {<<c, d>> : c \in Cases, d \in {x \in Cases : x.expected.max = 60 /\ x.expected.detect = {}}},
          tag \in {Rep!None, "odd"} :
         task' = [kind |-> "fixtures", cases |-> cases, tag |-> tag]

AlgNext ==
    /\ task = NoTask
    /\ Signals \/ Patching \/ Records

-----------------------------------------------------------------------------

\* The breaking changes a signal reports are differences of the exports, with
\* the notes of releases after the installed one; a SEARCH/REPLACE answer is
\* parsed as it was written, and every block of it is applied where its text
\* occurs first or not at all (lib/agent/signals, lib/agent/patching).
ChangesAreExact ==
    CASE task.kind = "diff of exports" -> Sig!DiffIsOfExports(task.old, task.new)
      [] task.kind = "notes" -> Sig!NotesAreLater(task.releases, task.from, task.count)
      [] task.kind = "apply" -> Edit!AppliedExactly(task.text, task.blocks, Edit!ApplyBlocks(task.text, task.blocks))
                                /\ Edit!CountedRight(task.text)
      [] task.kind = "read back" -> Edit!ReadBack(task.blocks, task.prose)
      [] OTHER -> TRUE

\* A rejection stands in the prompt once and where it belongs, the page of a
\* scan shows the outcome that was stored, its summary counts the issues, and
\* the bench lets no regression through (rejection-recall.ts, issue-vm.ts,
\* confidence/summary.ts, lib/eval).
RecordsAreShown ==
    CASE task.kind = "prompt" -> Rec!PromptTellsApart(task.table, "d", "removed", task.query, task.failing)
      [] task.kind = "issue" -> View!PageShowsTheScan(task.outcome, task.columns, task.packages)
      [] task.kind = "summary" -> View!SummaryIsTheIssues(task.rows)
      [] task.kind = "releases" -> Rep!BenchIsHonest(task.first, task.second, task.third)
      [] task.kind = "fixtures" -> Rep!FixturesAreRun(task.cases, task.tag)
      [] OTHER -> TRUE
=============================================================================
