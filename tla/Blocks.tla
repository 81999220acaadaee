------------------------------- MODULE Blocks -------------------------------
(***************************************************************************)
(* SEARCH/REPLACE blocks: the parser, the applier with its whitespace      *)
(* fallback (lib/agent/patching/search-replace.ts), the version bump of    *)
(* package.json (full-file.ts) and the choice of a strategy (strategy.ts). *)
(*                                                                         *)
(* A text is a sequence of characters; three kinds of character matter:    *)
(* the line feed, blanks, and all others.  The parser works on whole       *)
(* lines, of which it tells six kinds apart.                               *)
(***************************************************************************)
EXTENDS Integers, Sequences, FiniteSets, SequencesExt

NL == "nl"
SP == "sp"

-----------------------------------------------------------------------------
(* Text *)

SplitLines(text) ==
    FoldLeft(LAMBDA ls, c : IF c = NL THEN Append(ls, <<>>)
                            ELSE [ls EXCEPT ![Len(ls)] = Append(@, c)],
             <<<<>>>>, text)

JoinLines(ls) ==
    IF ls = <<>> THEN <<>>
    ELSE FoldLeft(LAMBDA t, l : t \o <<NL>> \o l, Head(ls), Tail(ls))

\* Runs of blanks become one, the ends are trimmed.  Mutant: all blanks go.
Squeeze(line) ==
    FoldLeft(LAMBDA t, c : IF c = SP /\ t # <<>> /\ Last(t) = SP THEN t ELSE Append(t, c),
             <<>>, line)
TrimEnd(line) == IF line # <<>> /\ Last(line) = SP THEN Front(line) ELSE line
BugNormalizeLine(line) == SelectSeq(line, LAMBDA c : c # SP)
NormalizeLine(line) ==
    LET t == TrimEnd(Squeeze(line))
    IN  IF t # <<>> /\ Head(t) = SP THEN Tail(t) ELSE t

\* Positions where t occurs in s.
Occurrences(s, t) ==
    {i \in 1..(Len(s) - Len(t) + 1) : SubSeq(s, i, i + Len(t) - 1) = t}

Least(S) == CHOOSE i \in S : \A j \in S : i <= j

-----------------------------------------------------------------------------
(* The applier *)

\* Replace the k elements of s from position i on by r.
Splice(s, i, k, r) == SubSeq(s, 1, i - 1) \o r \o SubSeq(s, i + k, Len(s))

\* The first window of lines that equals the search after normalization.
FuzzyWindows(content, search) ==
    Occurrences([i \in DOMAIN SplitLines(content) |-> NormalizeLine(SplitLines(content)[i])],
                [i \in DOMAIN SplitLines(search) |-> NormalizeLine(SplitLines(search)[i])])

\* Whole lines are replaced, the line feeds around them stay.
ApplyFuzzy(content, search, replace) ==
    LET start == Least(FuzzyWindows(content, search))
        lines == SplitLines(content)
    IN  JoinLines(Splice(lines, start, Len(SplitLines(search)), <<replace>>))

ApplyExact(content, search, replace) ==
    Splice(content, Least(Occurrences(content, search)), Len(search), replace)

\* One block, against what the blocks before it have made of the file.  A fuzzy
\* match whose result is the empty text counts as a failure (`if (fuzzyResult)`).
ApplyBlock(res, b) ==
    CASE b.search = <<>> -> [res EXCEPT !.failures = Append(@, b)]
      [] b.search # <<>> /\ Occurrences(res.content, b.search) # {} ->
           [res EXCEPT !.content = ApplyExact(@, b.search, b.replace), !.applied = @ + 1]
      [] b.search # <<>> /\ Occurrences(res.content, b.search) = {}
           /\ FuzzyWindows(res.content, b.search) # {}
           /\ ApplyFuzzy(res.content, b.search, b.replace) # <<>> ->
           [res EXCEPT !.content = ApplyFuzzy(@, b.search, b.replace), !.applied = @ + 1]
      [] OTHER -> [res EXCEPT !.failures = Append(@, b)]

ApplyBlocks(original, blocks) ==
    FoldLeft(ApplyBlock, [content |-> original, applied |-> 0, failures |-> <<>>], blocks)

Ok(res) == res.failures = <<>>

-----------------------------------------------------------------------------
(* The parser: a line is a marker, a fence, blank, or any other text       *)

Markers == {"SEARCH", "DIVIDER", "REPLACE"}
NoPath == ""

\* Between blocks: the last line that is neither blank nor a fence is the path
\* of the next block, unless it is a marker.
ParseOutside(st, l) ==
    CASE l = "SEARCH" -> [st EXCEPT !.mode = "search", !.search = <<>>, !.replace = <<>>]
      [] l \in {"blank", "fence"} -> st
      [] l \in Markers \ {"SEARCH"} -> [st EXCEPT !.path = NoPath]
      [] OTHER -> [st EXCEPT !.path = l]

ParseSearch(st, l) ==
    IF l = "DIVIDER" THEN [st EXCEPT !.mode = "replace"]
    ELSE [st EXCEPT !.search = Append(@, l)]

\* The end of a block; one without a path is dropped.
ParseReplace(st, l) ==
    IF l = "REPLACE"
    THEN [st EXCEPT !.mode = "outside", !.path = NoPath,
                    !.blocks = IF st.path = NoPath THEN @
                               ELSE Append(@, [path |-> st.path, search |-> st.search,
                                               replace |-> st.replace])]
    ELSE [st EXCEPT !.replace = Append(@, l)]

ParseLine(st, l) ==
    CASE st.mode = "outside" -> ParseOutside(st, l)
      [] st.mode = "search" -> ParseSearch(st, l)
      [] st.mode = "replace" -> ParseReplace(st, l)

NoAnswer == [mode |-> "outside", path |-> NoPath, search |-> <<>>, replace |-> <<>>, blocks |-> <<>>]

\* An unclosed block at the end of the answer is ignored.
ParseBlocks(text) == FoldLeft(ParseLine, NoAnswer, text).blocks

-----------------------------------------------------------------------------
(* The version bump of package.json, and the strategy                      *)

\* Every "<name>": "<range operator><version>" of the text, in whatever object
\* of the manifest it stands, gets the new version and keeps its operator.
BugBumpEntry(e, name, latest) ==
    IF e.key = name THEN [e EXCEPT !.op = "^", !.version = latest] ELSE e
BumpEntry(e, name, latest) ==
    IF e.key = name THEN [e EXCEPT !.version = latest] ELSE e

BumpPackageJson(entries, name, latest) ==
    [i \in DOMAIN entries |-> BumpEntry(entries[i], name, latest)]

\* A line feed at the end starts no line.
CountLines(text) ==
    IF text = <<>> THEN 0
    ELSE 1 + Cardinality({i \in DOMAIN text : text[i] = NL})
           - (IF Last(text) = NL THEN 1 ELSE 0)

ChooseFilePatchStrategy(lineCount, fullFileMax) ==
    IF lineCount < fullFileMax THEN "full-file" ELSE "search-replace"

-----------------------------------------------------------------------------
(* What the operators promise                                              *)

\* The words of a line: its longest runs without a blank.
WordList(line) ==
    SelectSeq(FoldLeft(LAMBDA ws, c : IF c = SP THEN Append(ws, <<>>)
                                      ELSE [ws EXCEPT ![Len(ws)] = Append(@, c)],
                       <<<<>>>>, line),
              LAMBDA w : w # <<>>)

\* The piece and the search have the same words line by line.
SameWords(piece, search) ==
    LET p == SplitLines(piece)
        q == SplitLines(search)
    IN  /\ Len(p) = Len(q)
        /\ \A i \in DOMAIN p : WordList(p[i]) = WordList(q[i])

\* One block takes c1 to c2: a piece with the words of the search has become
\* the replacement and every character outside it is kept; where the search
\* occurs literally the piece is its first occurrence.
AppliedOne(c1, b, c2) ==
    \E i \in 0..Len(c1) : \E j \in i..Len(c1) :
      /\ c2 = SubSeq(c1, 1, i) \o b.replace \o SubSeq(c1, j + 1, Len(c1))
      /\ SameWords(SubSeq(c1, i + 1, j), b.search)
      /\ \A k \in Occurrences(c1, b.search) : SubSeq(c1, i + 1, j) = b.search /\ i < k

\* Or nothing has changed and the search does not occur.
Untouched(c1, b, c2) ==
    /\ c2 = c1
    /\ b.search # <<>> => Occurrences(c1, b.search) = {}

Outcomes(c1, b) ==
    {c1} \union {SubSeq(c1, 1, i) \o b.replace \o SubSeq(c1, j + 1, Len(c1)) :
                   i \in 0..Len(c1), j \in 0..Len(c1)}

\* ApplyBlocks accounts for every block, and its text is one that the blocks
\* can make of the original, each applied exactly or not at all.
AppliedExactly(original, blocks, res) ==
    /\ res.applied + Len(res.failures) = Len(blocks)
    /\ ToSet(res.failures) \subseteq ToSet(blocks)
    /\ LET Step(S, b) == UNION {{c2 \in Outcomes(c1, b) : \/ AppliedOne(c1, b, c2)
                                                          \/ Untouched(c1, b, c2)} : c1 \in S}
       IN  res.content \in FoldLeft(Step, {original}, blocks)
    /\ res.applied = 0 => res.content = original

\* A text that writes out blocks, each with its path, its two parts free of
\* markers, and prose around them, is read back as these blocks.
Render(blocks, prose) ==
    FoldLeft(LAMBDA t, b : t \o prose \o <<b.path, "SEARCH">> \o b.search \o <<"DIVIDER">>
                             \o b.replace \o <<"REPLACE">> \o prose,
             <<>>, blocks)

ReadBack(blocks, prose) == ParseBlocks(Render(blocks, prose)) = blocks

\* The last line above line i that is neither blank nor a fence is p, and no
\* marker; the last marker above it is m.
PathAbove(text, i, p) ==
    /\ p \notin Markers \cup {"blank", "fence"}
    /\ \E j \in 1..(i - 1) : text[j] = p /\ \A k \in (j + 1)..(i - 1) : text[k] \in {"blank", "fence"}
MarkerAbove(text, i, m) ==
    \E j \in 1..(i - 1) : text[j] = m /\ \A k \in (j + 1)..(i - 1) : text[k] \notin Markers

\* The block stands at line i, under its path and up to the next markers of
\* their kinds.
DividerOf(b, i) == i + Len(b.search) + 1
EndOf(b, i) == DividerOf(b, i) + Len(b.replace) + 1
StandsAt(text, b, i) ==
    /\ EndOf(b, i) <= Len(text)
    /\ text[i] = "SEARCH" /\ text[DividerOf(b, i)] = "DIVIDER" /\ text[EndOf(b, i)] = "REPLACE"
    /\ \A k \in DOMAIN b.search : b.search[k] = text[i + k] /\ b.search[k] # "DIVIDER"
    /\ \A k \in DOMAIN b.replace :
         b.replace[k] = text[DividerOf(b, i) + k] /\ b.replace[k] # "REPLACE"
    /\ PathAbove(text, i, b.path)

\* Each block has its three markers, and none of them inside its parts.
WellFormedAnswer(text) == \A i \in DOMAIN text :
    /\ text[i] = "SEARCH" => MarkerAbove(text, i, "REPLACE") \/ \A k \in 1..(i - 1) : text[k] \notin Markers
    /\ text[i] = "DIVIDER" => MarkerAbove(text, i, "SEARCH")
    /\ text[i] = "REPLACE" => MarkerAbove(text, i, "DIVIDER")

\* A complete block starts at line i.
Complete(text, i) ==
    /\ text[i] = "SEARCH" /\ \E p \in {text[k] : k \in 1..(i - 1)} : PathAbove(text, i, p)
    /\ \E k \in i..Len(text) : text[k] = "REPLACE"

\* Whatever the text, the blocks that were read stand in it, in order and
\* apart; and every complete block of a well-formed answer is read.
AnswerIsRead(text, blocks) ==
    \E at \in [DOMAIN blocks -> DOMAIN text] :
      /\ \A n \in DOMAIN blocks : StandsAt(text, blocks[n], at[n])
      /\ \A m, n \in DOMAIN blocks : m < n => EndOf(blocks[m], at[m]) < at[n]
      /\ WellFormedAnswer(text) =>
           \A i \in DOMAIN text : Complete(text, i) => \E n \in DOMAIN blocks : at[n] = i

\* Lines are counted as SplitLines makes them, an empty last one aside.
CountedRight(text) ==
    CountLines(text) = LET ls == SplitLines(text)
                       IN  IF Last(ls) = <<>> THEN Len(ls) - 1 ELSE Len(ls)

\* The bump changes the version of one key and nothing else.
BumpedExactly(entries, name, latest) ==
    LET new == BumpPackageJson(entries, name, latest)
    IN  /\ DOMAIN new = DOMAIN entries
        /\ \A i \in DOMAIN entries :
             /\ new[i].key = entries[i].key /\ new[i].op = entries[i].op
             /\ new[i].version = IF entries[i].key = name THEN latest ELSE entries[i].version
=============================================================================
