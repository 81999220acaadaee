------------------------ MODULE LearningLoopProofs -------------------------
(***************************************************************************)
(* What the learning loop leaves in the database, for any pull requests,   *)
(* rows, polls, clients, bounds and faults: theorems about LearningLoop.   *)
(***************************************************************************)
EXTENDS LearningLoop, FiniteSetTheorems, TLAPS

\* A recorder knows what it was called with, and a record found by its search
\* is of the same pull request when it is updated.
RecordInv ==
  \A a \in Recorders :
    /\ pc[a] \in {"find", "write"} => input[a] \in Input
    /\ pc[a] = "write" /\ existing[a] # 0 =>
         existing[a] \in DOMAIN patterns /\ patterns[existing[a]].pr = input[a].pr

\* What a poll holds about the rows of one pull request: it never makes up an
\* outcome, and has the rejection on record before it resolves them.
PollInv(p) ==
  /\ pc[p] \in {"fetch", "find", "write", "resolve"} =>
       bucket[p] # {} /\ \A r, s \in bucket[p] : RowPR[r] = RowPR[s]
  /\ pc[p] \in {"find", "write"} =>
       outcome[p] = "pr-rejected" /\ \A r \in bucket[p] : input[p].pr = RowPR[r]
  /\ pc[p] = "resolve" => outcome[p] \in Resolved
  /\ pc[p] \in {"find", "write", "resolve"} => \A r \in bucket[p] :
       /\ outcome[p] = "pr-merged" => github[RowPR[r]] = "merged"
       /\ outcome[p] = "pr-rejected" => RowPR[r] \in wasClosed
  /\ pc[p] = "resolve" /\ outcome[p] = "pr-rejected" => \A r \in bucket[p] :
       Readable(RowPR[r]) => Recorded(RowPR[r]) # {}

\* History: a pull request that is closed was closed.
ClosedKnown == \A g \in PRs : github[g] = "closed" => g \in wasClosed

IInv ==
  /\ TypeOK /\ RecordInv /\ ClosedKnown
  /\ \A p \in Pollers : PollInv(p)
  /\ ResolutionsAreTrue /\ NoLessonLost

LEMMA ActorsApart ==
  /\ \A c \in Clients : c \in Recorders /\ c \notin Pollers
  /\ \A p \in Pollers : p \in Recorders /\ p \notin Clients
<1> QED  BY ActorsAssumption DEF Pollers, Recorders

LEMMA InputTypes ==
  /\ NoInput \notin Input /\ NoInput.pr \notin PRs
  /\ \A r \in Rows : RowDep[r] # None => RowDep[r] \in Deps
  /\ \A i \in Input : i.pr \in PRs
<1> QED  BY NoneAssumption DEF NoInput, Input, Deps

LEMMA TypeInit == Init => TypeOK /\ RecordInv
<1> QED  BY BoundsAssumption DEF Init, TypeOK, RecordInv, Resolved

\* The types after the end of an iteration.
LEMMA LeaveType ==
  ASSUME TypeOK, NEW p \in Pollers, Leave(p)
  PROVE  /\ pc' \in [Recorders -> {"idle", "next", "fetch", "find", "write", "resolve"}]
         /\ bucket' \in [Pollers -> SUBSET Rows]
         /\ outcome' \in [Pollers -> Resolved \union {None}]
         /\ input' \in [Recorders -> Input \union {NoInput}]
         /\ existing' \in [Recorders -> Nat]
         /\ \A a \in Recorders : existing'[a] <= Len(patterns)
<1>1. p \in Recorders /\ Len(patterns) \in Nat
  BY ActorsApart DEF TypeOK
<1>2. /\ pc' \in [Recorders -> {"idle", "next", "fetch", "find", "write", "resolve"}]
      /\ bucket' \in [Pollers -> SUBSET Rows]
      /\ outcome' \in [Pollers -> Resolved \union {None}]
      /\ input' \in [Recorders -> Input \union {NoInput}]
  BY DEF TypeOK, Leave
<1>3. existing' \in [Recorders -> Nat] /\ \A a \in Recorders : existing'[a] <= Len(patterns)
  BY <1>1 DEF TypeOK, Leave
<1> QED  BY <1>2, <1>3

\* What a step of the recorder writes is an input or a record, found or new.
LEMMA RecorderTypeStep ==
  ASSUME TypeOK, RecordInv, NEW a \in Recorders,
         FindExisting(a) \/ WriteRecord(a) \/ WriteRejected(a)
  PROVE  TypeOK'
<1> USE DEF TypeOK, pollVars, githubVars
<1>1. CASE FindExisting(a)
  <2>1. PICK i \in IF Recorded(input[a].pr) = {} THEN {0} ELSE Recorded(input[a].pr) :
               existing' = [existing EXCEPT ![a] = i]
    BY <1>1 DEF FindExisting
  <2>2. i \in Nat /\ i <= Len(patterns)
    BY <2>1 DEF Recorded
  <2>3. overlap' \subseteq PRs
    <3>1. input[a].pr \in PRs
      BY <1>1, InputTypes DEF FindExisting, RecordInv
    <3> QED  BY <1>1, <3>1 DEF FindExisting
  <2>4. existing' \in [Recorders -> Nat] /\ \A b \in Recorders : existing'[b] <= Len(patterns)
    BY <2>1, <2>2
  <2> QED  BY <1>1, <2>3, <2>4 DEF FindExisting
<1>2. CASE WriteRecord(a)
  <2>1. input[a] \in Input
    BY <1>2 DEF WriteRecord, RecordInv
  <2>2. patterns' \in Seq(Input) /\ Len(patterns') >= Len(patterns)
    <3>1. CASE existing[a] = 0
      BY <1>2, <2>1, <3>1 DEF WriteRecord
    <3>2. CASE existing[a] # 0
      BY <1>2, <2>1, <3>2 DEF WriteRecord
    <3> QED  BY <3>1, <3>2
  <2>3. existing' \in [Recorders -> Nat] /\ \A b \in Recorders : existing'[b] <= Len(patterns')
    BY <1>2, <2>2 DEF WriteRecord
  <2> QED  BY <1>2, <2>2, <2>3 DEF WriteRecord
<1>3. CASE WriteRejected(a)
  <2>1. CASE a \in Pollers /\ Leave(a)
    BY <1>3, <2>1, LeaveType DEF WriteRejected
  <2>2. CASE /\ a \in Clients
             /\ pc' = [pc EXCEPT ![a] = "idle"]
             /\ input' = [input EXCEPT ![a] = NoInput]
             /\ existing' = [existing EXCEPT ![a] = 0]
             /\ UNCHANGED <<bucket, outcome>>
    <3>1. existing' \in [Recorders -> Nat] /\ \A b \in Recorders : existing'[b] <= Len(patterns)
      BY <2>2
    <3> QED  BY <1>3, <2>2, <3>1 DEF WriteRejected
  <2> QED  BY <1>3, <2>1, <2>2 DEF WriteRejected
<1> QED  BY <1>1, <1>2, <1>3

\* The rest of a poll.
LEMMA PollTypeStep ==
  ASSUME TypeOK, NEW p \in Pollers, PollInv(p),
         \/ StartPoll(p) \/ \E g \in PRs : NextUrl(p, g)
         \/ Fetch(p) \/ FetchFails(p) \/ Resolve(p) \/ ResolveRejected(p)
         \/ FinishPoll(p) \/ Crash(p)
  PROVE  TypeOK'
<1>p. p \in Recorders
  BY ActorsApart
<1> USE <1>p DEF TypeOK, pollVars, githubVars, recordVars
<1>1. CASE StartPoll(p)
  <2>1. PICK scope \in Scopes(p) : todo' = [todo EXCEPT ![p] = Selected \intersect scope]
    BY <1>1 DEF StartPoll
  <2> QED  BY <1>1, <2>1 DEF StartPoll, Selected
<1>2. ASSUME NEW g \in PRs, NextUrl(p, g) PROVE TypeOK'
  <2> DEFINE rows == {r \in todo[p] : RowPR[r] = g}
  <2>1. rows \subseteq Rows
    OBVIOUS
  <2>2. todo' = [todo EXCEPT ![p] = @ \ rows]
    BY <1>2 DEF NextUrl
  <2>3. \/ bucket' = [bucket EXCEPT ![p] = rows] /\ pc' = [pc EXCEPT ![p] = "fetch"]
        \/ UNCHANGED <<bucket, pc>>
    BY <1>2 DEF NextUrl
  <2> HIDE DEF rows
  <2>4. todo' \in [Pollers -> SUBSET Rows]
    BY <2>1, <2>2
  <2>5. bucket' \in [Pollers -> SUBSET Rows]
    BY <2>1, <2>3
  <2>6. pc' \in [Recorders -> {"idle", "next", "fetch", "find", "write", "resolve"}]
    BY <2>3
  <2> QED  BY <1>2, <2>4, <2>5, <2>6 DEF NextUrl
<1>3. CASE Fetch(p)
  <2> DEFINE state == Classify(github[UrlOf(p)])
  <2>1. PICK first \in bucket[p] :
          IF state = "pr-rejected" /\ RowDep[first] # None
          THEN /\ input' = [input EXCEPT ![p] =
                      [pr |-> UrlOf(p), dep |-> RowDep[first], change |-> None]]
               /\ pc' = [pc EXCEPT ![p] = "find"]
          ELSE /\ pc' = [pc EXCEPT ![p] = IF state = None THEN "next" ELSE "resolve"]
               /\ UNCHANGED input
    BY <1>3 DEF Fetch
  <2>2. UrlOf(p) \in PRs /\ first \in Rows
    BY <2>1, RowsAssumption DEF UrlOf
  <2>3. state \in Resolved \union {None}
    BY <2>2 DEF Classify, Resolved
  <2>4. outcome' = [outcome EXCEPT ![p] = state]
    BY <1>3 DEF Fetch
  <2>5. bucket' = IF state = None THEN [bucket EXCEPT ![p] = {}] ELSE bucket
    BY <1>3 DEF Fetch
  <2> HIDE DEF state
  <2>6. outcome' \in [Pollers -> Resolved \union {None}] /\ bucket' \in [Pollers -> SUBSET Rows]
    BY <2>3, <2>4, <2>5
  <2>7. input' \in [Recorders -> Input \union {NoInput}]
    BY <2>1, <2>2, InputTypes DEF Input
  <2>8. pc' \in [Recorders -> {"idle", "next", "fetch", "find", "write", "resolve"}]
    BY <2>1
  <2> QED  BY <1>3, <2>6, <2>7, <2>8 DEF Fetch
<1>4. CASE FetchFails(p) \/ ResolveRejected(p)
  <2>1. Leave(p) /\ UNCHANGED <<githubVars, status, todo, overlap, patterns>>
    BY <1>4 DEF FetchFails, ResolveRejected
  <2> QED  BY <2>1, LeaveType
<1>5. CASE Resolve(p)
  <2>1. Leave(p) /\ UNCHANGED <<githubVars, todo, overlap, patterns>>
    BY <1>5 DEF Resolve
  <2>2. status' \in [Rows -> {"absent", "pr-opened"} \union Resolved]
    BY <1>5 DEF Resolve, PollInv
  <2> QED  BY <2>1, <2>2, LeaveType
<1>6. CASE FinishPoll(p)
  BY <1>6 DEF FinishPoll
<1>7. CASE Crash(p)
  <2>1. existing' \in [Recorders -> Nat] /\ \A b \in Recorders : existing'[b] <= Len(patterns)
    BY <1>7 DEF Crash
  <2> QED  BY <1>7, <2>1 DEF Crash
<1> QED  BY <1>1, <1>2, <1>3, <1>4, <1>5, <1>6, <1>7

LEMMA OtherTypeStep ==
  ASSUME TypeOK, Environment \/ \E c \in Clients : StartClick(c)
  PROVE  TypeOK'
<1> USE DEF TypeOK, pollVars, githubVars, recordVars
<1>1. ASSUME NEW g \in PRs, MergePR(g) \/ ClosePR(g) PROVE TypeOK'
  BY <1>1 DEF MergePR, ClosePR
<1>2. ASSUME NEW g \in PRs, ReopenPR(g) PROVE TypeOK'
  <2>1. reopens' \in [PRs -> 0 .. MaxReopens]
    BY <1>2, BoundsAssumption DEF ReopenPR
  <2> QED  BY <1>2, <2>1 DEF ReopenPR
<1>3. ASSUME NEW r \in Rows, LinkRow(r) PROVE TypeOK'
  BY <1>3 DEF LinkRow
<1>4. ASSUME NEW c \in Clients, StartClick(c) PROVE TypeOK'
  <2>1. PICK r \in Rows, change \in Kinds \union {None} :
          /\ RowDep[r] # None
          /\ input' = [input EXCEPT ![c] =
                        [pr |-> RowPR[r], dep |-> RowDep[r], change |-> change]]
    BY <1>4 DEF StartClick
  <2>2. input' \in [Recorders -> Input \union {NoInput}]
    BY <2>1, InputTypes, RowsAssumption DEF Input
  <2> QED  BY <1>4, <2>2 DEF StartClick
<1> QED  BY <1>1, <1>2, <1>3, <1>4 DEF Environment

\* Every step of the learning loop, by its actor.
LEMMA Steps ==
  ASSUME Next
  PROVE  \/ Environment \/ \E c \in Clients : StartClick(c)
         \/ \E a \in Recorders : FindExisting(a) \/ WriteRecord(a) \/ WriteRejected(a)
         \/ \E p \in Pollers :
              \/ StartPoll(p) \/ \E g \in PRs : NextUrl(p, g)
              \/ Fetch(p) \/ FetchFails(p) \/ Resolve(p) \/ ResolveRejected(p)
              \/ FinishPoll(p) \/ Crash(p)
<1> QED  BY ActorsApart DEF Next, PollStep, Failure

LEMMA TypeStep ==
  ASSUME TypeOK, RecordInv, \A p \in Pollers : PollInv(p), [Next]_vars
  PROVE  TypeOK'
<1>1. CASE Next
  BY <1>1, Steps, RecorderTypeStep, PollTypeStep, OtherTypeStep
<1>2. CASE UNCHANGED vars
  BY <1>2 DEF vars, githubVars, pollVars, recordVars, TypeOK
<1> QED  BY <1>1, <1>2

\* A write changes no pull request of a record, and adds the one it is for.
LEMMA RecordsGrow ==
  ASSUME TypeOK, RecordInv, NEW a \in Recorders, WriteRecord(a), NEW g0, g0 = input[a].pr
  PROVE  /\ \A i \in DOMAIN patterns : i \in DOMAIN patterns' /\ patterns'[i].pr = patterns[i].pr
         /\ Recorded(g0)' # {}
         /\ \A g : g # g0 => Recorded(g)' = Recorded(g)
         /\ existing[a] # 0 => Recorded(g0)' = Recorded(g0)
         /\ existing[a] = 0 => \E i : Recorded(g0)' = Recorded(g0) \union {i}
<1>1. input[a] \in Input /\ patterns \in Seq(Input)
  BY DEF WriteRecord, RecordInv, TypeOK
<1>2. CASE existing[a] = 0
  <2>1. patterns' = Append(patterns, input[a])
    BY <1>2 DEF WriteRecord
  <2>2. /\ DOMAIN patterns' = DOMAIN patterns \union {Len(patterns) + 1}
        /\ \A i \in DOMAIN patterns : patterns'[i] = patterns[i]
        /\ patterns'[Len(patterns) + 1] = input[a]
        /\ Len(patterns) + 1 \notin DOMAIN patterns
    BY <1>1, <2>1
  <2>3. Recorded(g0)' = Recorded(g0) \union {Len(patterns) + 1}
    BY <2>2 DEF Recorded
  <2>4. \A g : g # g0 => Recorded(g)' = Recorded(g)
    BY <2>2 DEF Recorded
  <2> QED  BY <1>2, <2>2, <2>3, <2>4
<1>3. CASE existing[a] # 0
  <2>1. patterns' = [patterns EXCEPT ![existing[a]] = input[a]]
    BY <1>3 DEF WriteRecord
  <2>2. existing[a] \in Recorded(g0)
    BY <1>3 DEF WriteRecord, RecordInv, Recorded
  <2>3. /\ DOMAIN patterns' = DOMAIN patterns
        /\ \A i \in DOMAIN patterns : patterns'[i].pr = patterns[i].pr
    BY <1>1, <2>1, <2>2 DEF Recorded
  <2>4. \A g : Recorded(g)' = Recorded(g)
    BY <2>3 DEF Recorded
  <2> QED  BY <1>3, <2>2, <2>3, <2>4
<1> QED  BY <1>2, <1>3

\* What any step does to the world a poll has looked at.
World ==
  /\ wasClosed \subseteq wasClosed'
  /\ \A g \in PRs : github[g] = "merged" => github'[g] = "merged"
  /\ \A i \in DOMAIN patterns : i \in DOMAIN patterns' /\ patterns'[i].pr = patterns[i].pr

LEMMA WorldStep ==
  ASSUME TypeOK, RecordInv, [Next]_vars
  PROVE  World
<1>1. CASE \E a \in Recorders : WriteRecord(a)
  BY <1>1, RecordsGrow DEF World, WriteRecord, githubVars
<1>2. ASSUME ~ \E a \in Recorders : WriteRecord(a) PROVE UNCHANGED patterns
  <2> USE DEF recordVars
  <2>1. CASE Next
    <3>1. CASE Environment
      BY <3>1 DEF Environment, MergePR, ClosePR, ReopenPR, LinkRow
    <3>2. CASE \E c \in Clients : StartClick(c)
      BY <3>2 DEF StartClick
    <3>3. CASE \E a \in Recorders : FindExisting(a) \/ WriteRejected(a)
      BY <3>3 DEF FindExisting, WriteRejected
    <3>4. CASE \E p \in Pollers :
              \/ StartPoll(p) \/ \E g \in PRs : NextUrl(p, g)
              \/ Fetch(p) \/ FetchFails(p) \/ Resolve(p) \/ ResolveRejected(p)
              \/ FinishPoll(p) \/ Crash(p)
      BY <3>4 DEF StartPoll, NextUrl, Fetch, FetchFails, Resolve, ResolveRejected,
                  FinishPoll, Crash
    <3> QED  BY <1>2, <2>1, <3>1, <3>2, <3>3, <3>4, Steps
  <2>2. CASE UNCHANGED vars
    BY <2>2 DEF vars
  <2> QED  BY <2>1, <2>2
<1>3. /\ wasClosed \subseteq wasClosed'
      /\ \A g \in PRs : github[g] = "merged" => github'[g] = "merged"
  <2> USE DEF githubVars
  <2>1. CASE Next
    <3>1. CASE Environment
      BY <3>1 DEF Environment, MergePR, ClosePR, ReopenPR, LinkRow, TypeOK
    <3>2. CASE \E c \in Clients : StartClick(c)
      BY <3>2 DEF StartClick
    <3>3. CASE \E a \in Recorders : FindExisting(a) \/ WriteRecord(a) \/ WriteRejected(a)
      BY <3>3 DEF FindExisting, WriteRecord, WriteRejected
    <3>4. CASE \E p \in Pollers :
              \/ StartPoll(p) \/ \E g \in PRs : NextUrl(p, g)
              \/ Fetch(p) \/ FetchFails(p) \/ Resolve(p) \/ ResolveRejected(p)
              \/ FinishPoll(p) \/ Crash(p)
      BY <3>4 DEF StartPoll, NextUrl, Fetch, FetchFails, Resolve, ResolveRejected,
                  FinishPoll, Crash
    <3> QED  BY <2>1, <3>1, <3>2, <3>3, <3>4, Steps
  <2>2. CASE UNCHANGED vars
    BY <2>2 DEF vars
  <2> QED  BY <2>1, <2>2
<1> QED  BY <1>1, <1>2, <1>3 DEF World

\* A recorder keeps its input until it has written, and a record keeps its
\* pull request.
LEMMA RecordStep ==
  ASSUME TypeOK, RecordInv, \A p \in Pollers : PollInv(p), [Next]_vars
  PROVE  RecordInv'
<1>w. World
  BY WorldStep
<1>s. ASSUME NEW b \in Recorders,
             \/ pc'[b] \notin {"find", "write"}
             \/ pc'[b] = pc[b] /\ input'[b] = input[b] /\ existing'[b] = existing[b]
      PROVE  /\ pc'[b] \in {"find", "write"} => input'[b] \in Input
             /\ pc'[b] = "write" /\ existing'[b] # 0 =>
                  existing'[b] \in DOMAIN patterns' /\ patterns'[existing'[b]].pr = input'[b].pr
  BY <1>s, <1>w DEF RecordInv, World
<1> USE DEF pollVars, githubVars, recordVars
<1>1. CASE Environment
  BY <1>1, <1>s DEF RecordInv, Environment, MergePR, ClosePR, ReopenPR, LinkRow
<1>2. ASSUME NEW c \in Clients, StartClick(c) PROVE RecordInv'
  <2>1. input' \in [Recorders -> Input \union {NoInput}] /\ input'[c] \in Input
    <3>1. PICK r \in Rows, change \in Kinds \union {None} :
            /\ RowDep[r] # None
            /\ input' = [input EXCEPT ![c] =
                          [pr |-> RowPR[r], dep |-> RowDep[r], change |-> change]]
      BY <1>2 DEF StartClick
    <3> QED  BY <3>1, InputTypes, RowsAssumption, ActorsApart DEF Input, TypeOK
  <2>2. pc'[c] = "find"
    BY <1>2, ActorsApart DEF StartClick, TypeOK
  <2>3. \A b \in Recorders \ {c} :
          pc'[b] = pc[b] /\ input'[b] = input[b] /\ existing'[b] = existing[b]
    BY <1>2 DEF StartClick, TypeOK
  <2> QED  BY <2>1, <2>2, <2>3, <1>s DEF RecordInv
<1>3. ASSUME NEW a \in Recorders, FindExisting(a) PROVE RecordInv'
  <2>1. PICK i \in IF Recorded(input[a].pr) = {} THEN {0} ELSE Recorded(input[a].pr) :
               existing' = [existing EXCEPT ![a] = i]
    BY <1>3 DEF FindExisting
  <2>2. pc'[a] = "write" /\ existing'[a] = i /\ input' = input /\ patterns' = patterns
    BY <1>3, <2>1 DEF FindExisting, TypeOK
  <2>3. input'[a] \in Input
    BY <1>3, <2>2 DEF FindExisting, RecordInv
  <2>4. \A b \in Recorders \ {a} :
          pc'[b] = pc[b] /\ input'[b] = input[b] /\ existing'[b] = existing[b]
    BY <1>3, <2>1 DEF FindExisting, TypeOK
  <2>5. existing'[a] # 0 =>
          existing'[a] \in DOMAIN patterns' /\ patterns'[existing'[a]].pr = input'[a].pr
    BY <2>1, <2>2 DEF Recorded
  <2> QED  BY <2>2, <2>3, <2>4, <2>5, <1>s DEF RecordInv
<1>4. ASSUME NEW a \in Recorders, WriteRecord(a) \/ WriteRejected(a) PROVE RecordInv'
  <2>1. pc'[a] \notin {"find", "write"}
    BY <1>4 DEF WriteRecord, WriteRejected, Leave, TypeOK
  <2>2. \A b \in Recorders \ {a} :
          pc'[b] = pc[b] /\ input'[b] = input[b] /\ existing'[b] = existing[b]
    BY <1>4 DEF WriteRecord, WriteRejected, Leave, TypeOK
  <2> QED  BY <2>1, <2>2, <1>s DEF RecordInv
<1>5. ASSUME NEW p \in Pollers, Fetch(p) PROVE RecordInv'
  <2>1. PICK first \in bucket[p] :
          \/ /\ RowDep[first] # None
             /\ input' = [input EXCEPT ![p] =
                    [pr |-> UrlOf(p), dep |-> RowDep[first], change |-> None]]
             /\ pc' = [pc EXCEPT ![p] = "find"]
          \/ /\ pc' = [pc EXCEPT ![p] = "next"] \/ pc' = [pc EXCEPT ![p] = "resolve"]
             /\ UNCHANGED input
    BY <1>5 DEF Fetch
  <2>2. UrlOf(p) \in PRs /\ first \in Rows
    BY <2>1, RowsAssumption DEF UrlOf, TypeOK
  <2>3. pc'[p] = "find" => input'[p] \in Input
    BY <2>1, <2>2, InputTypes, ActorsApart DEF Input, TypeOK
  <2>4. pc'[p] \in {"find", "next", "resolve"}
    BY <2>1, ActorsApart DEF TypeOK
  <2>5. \A b \in Recorders \ {p} :
          pc'[b] = pc[b] /\ input'[b] = input[b] /\ existing'[b] = existing[b]
    BY <1>5, <2>1 DEF Fetch, TypeOK
  <2> QED  BY <2>3, <2>4, <2>5, <1>s DEF RecordInv
<1>6. ASSUME NEW p \in Pollers,
             \/ StartPoll(p) \/ \E g \in PRs : NextUrl(p, g)
             \/ FetchFails(p) \/ Resolve(p) \/ ResolveRejected(p)
             \/ FinishPoll(p) \/ Crash(p)
      PROVE  RecordInv'
  <2>1. pc'[p] \notin {"find", "write"}
    BY <1>6, ActorsApart
       DEF StartPoll, NextUrl, FetchFails, Resolve, ResolveRejected, FinishPoll, Crash, Leave, TypeOK
  <2>2. \A b \in Recorders \ {p} :
          pc'[b] = pc[b] /\ input'[b] = input[b] /\ existing'[b] = existing[b]
    BY <1>6
       DEF StartPoll, NextUrl, FetchFails, Resolve, ResolveRejected, FinishPoll, Crash, Leave, TypeOK
  <2> QED  BY <2>1, <2>2, <1>s DEF RecordInv
<1>7. CASE UNCHANGED vars
  BY <1>7, <1>s DEF vars, RecordInv
<1> QED  BY <1>1, <1>2, <1>3, <1>4, <1>5, <1>6, <1>7, Steps

LEMMA ClosedStep ==
  ASSUME TypeOK, ClosedKnown, [Next]_vars
  PROVE  ClosedKnown'
<1> USE DEF githubVars, ClosedKnown
<1>1. CASE Environment
  BY <1>1 DEF Environment, MergePR, ClosePR, ReopenPR, LinkRow, TypeOK
<1>2. CASE UNCHANGED githubVars
  BY <1>2
<1>3. ASSUME Next, ~Environment PROVE UNCHANGED githubVars
  BY <1>3, Steps DEF StartClick, FindExisting, WriteRecord, WriteRejected,
     StartPoll, NextUrl, Fetch, FetchFails, Resolve, ResolveRejected, FinishPoll, Crash
<1> QED  BY <1>1, <1>2, <1>3 DEF vars

\* What a poll holds stays true while others move: pull requests and records
\* do not take back what it has seen.
LEMMA PollStable ==
  ASSUME TypeOK, World, NEW p \in Pollers, PollInv(p),
         pc'[p] = pc[p], bucket'[p] = bucket[p], outcome'[p] = outcome[p], input'[p] = input[p]
  PROVE  PollInv(p)'
<1>1. \A g : Recorded(g) # {} => Recorded(g)' # {}
  BY DEF World, Recorded
<1>2. \A g : Readable(g)' = Readable(g)
  BY DEF Readable
<1>3. \A r \in bucket[p] : RowPR[r] \in PRs
  BY RowsAssumption DEF TypeOK
<1> QED  BY <1>1, <1>2, <1>3 DEF PollInv, World

\* Between two pull requests a poll holds nothing.
LEMMA PollBetween ==
  ASSUME NEW p \in Pollers, pc'[p] \in {"idle", "next"}
  PROVE  PollInv(p)'
<1> QED  BY DEF PollInv

LEMMA FetchStep ==
  ASSUME TypeOK, ClosedKnown, NEW p \in Pollers, PollInv(p), Fetch(p)
  PROVE  PollInv(p)'
<1> DEFINE state == Classify(github[UrlOf(p)])
<1>1. PICK first \in bucket[p] :
        IF state = "pr-rejected" /\ RowDep[first] # None
        THEN /\ input' = [input EXCEPT ![p] =
                    [pr |-> UrlOf(p), dep |-> RowDep[first], change |-> None]]
             /\ pc' = [pc EXCEPT ![p] = "find"]
        ELSE /\ pc' = [pc EXCEPT ![p] = IF state = None THEN "next" ELSE "resolve"]
             /\ UNCHANGED input
  BY DEF Fetch
<1>2. /\ bucket[p] # {} /\ \A r \in bucket[p] : RowPR[r] = UrlOf(p)
      /\ first \in Rows /\ UrlOf(p) \in PRs
  BY <1>1, RowsAssumption DEF Fetch, PollInv, UrlOf, TypeOK
<1>3. /\ state = None \/ state = "pr-merged" \/ state = "pr-rejected"
      /\ state = "pr-merged" => github[UrlOf(p)] = "merged"
      /\ state = "pr-rejected" => github[UrlOf(p)] = "closed"
  BY <1>2, NoneAssumption DEF Classify, TypeOK
<1>4. /\ outcome'[p] = state
      /\ bucket'[p] = IF state = None THEN {} ELSE bucket[p]
      /\ UNCHANGED <<github, wasClosed, patterns>>
  BY DEF Fetch, TypeOK, githubVars
<1>5. CASE state = "pr-rejected" /\ RowDep[first] # None
  <2>1. pc'[p] = "find" /\ input'[p].pr = UrlOf(p)
    BY <1>1, <1>5, ActorsApart DEF TypeOK
  <2>2. bucket'[p] = bucket[p] /\ UrlOf(p) \in wasClosed
    BY <1>2, <1>3, <1>4, <1>5, NoneAssumption DEF ClosedKnown
  <2> HIDE DEF state
  <2> QED  BY <2>1, <2>2, <1>2, <1>4, <1>5 DEF PollInv
<1>6. CASE ~ (state = "pr-rejected" /\ RowDep[first] # None)
  <2>1. CASE state = None
    BY <1>1, <1>6, <2>1, PollBetween, ActorsApart DEF TypeOK
  <2>2. CASE state # None
    <3>1. pc'[p] = "resolve" /\ bucket'[p] = bucket[p]
      BY <1>1, <1>4, <1>6, <2>2, ActorsApart DEF TypeOK
    <3>2. state = "pr-rejected" => ~ Readable(UrlOf(p)) /\ UrlOf(p) \in wasClosed
      BY <1>1, <1>2, <1>3, <1>6 DEF Readable, ClosedKnown
    <3>3. \A g : Readable(g)' = Readable(g)
      BY DEF Readable
    <3> HIDE DEF state
    <3> QED  BY <1>2, <1>3, <1>4, <2>2, <3>1, <3>2, <3>3 DEF PollInv, Resolved
  <2> QED  BY <2>1, <2>2
<1> QED  BY <1>5, <1>6

\* No step of a poll breaks what a poll holds.
LEMMA PollInvStep ==
  ASSUME TypeOK, RecordInv, ClosedKnown, \A p \in Pollers : PollInv(p), [Next]_vars
  PROVE  \A p \in Pollers : PollInv(p)'
<1>w. World
  BY WorldStep
<1>s. ASSUME NEW q \in Pollers,
             \/ pc'[q] \in {"idle", "next"}
             \/ /\ pc'[q] = pc[q] /\ bucket'[q] = bucket[q]
                /\ outcome'[q] = outcome[q] /\ input'[q] = input[q]
      PROVE  PollInv(q)'
  BY <1>s, <1>w, PollStable, PollBetween
<1> USE DEF pollVars, githubVars, recordVars
<1>1. CASE Environment
  BY <1>1, <1>s DEF Environment, MergePR, ClosePR, ReopenPR, LinkRow
<1>2. ASSUME NEW c \in Clients,
             StartClick(c) \/ FindExisting(c) \/ WriteRecord(c) \/ WriteRejected(c),
             NEW q \in Pollers
      PROVE  PollInv(q)'
  <2>1. q # c /\ c \notin Pollers /\ q \in Recorders
    BY ActorsApart
  <2>2. pc'[q] = pc[q] /\ input'[q] = input[q]
    BY <1>2, <2>1 DEF StartClick, FindExisting, WriteRecord, WriteRejected, TypeOK
  <2>3. UNCHANGED <<bucket, outcome>>
    BY <1>2, <2>1 DEF StartClick, FindExisting, WriteRecord, WriteRejected
  <2> QED  BY <1>s, <2>2, <2>3
<1>3. ASSUME NEW p \in Pollers, NEW q \in Pollers,
             \/ StartPoll(p) \/ \E g \in PRs : NextUrl(p, g)
             \/ Fetch(p) \/ FetchFails(p) \/ Resolve(p) \/ ResolveRejected(p)
             \/ FinishPoll(p) \/ Crash(p)
             \/ FindExisting(p) \/ WriteRecord(p) \/ WriteRejected(p)
      PROVE  PollInv(q)'
  <2>p. p \in Recorders /\ p \notin Clients /\ q \in Recorders
    BY ActorsApart
  <2>1. CASE q # p
    <3>1. pc'[q] = pc[q] /\ input'[q] = input[q]
      <4>1. CASE Fetch(p)
        BY <4>1, <2>1, <2>p DEF Fetch, TypeOK
      <4> QED  BY <1>3, <2>1, <2>p, <4>1
         DEF StartPoll, NextUrl, FetchFails, Resolve, ResolveRejected, FinishPoll, Crash,
             Leave, FindExisting, WriteRecord, WriteRejected, TypeOK
    <3>2. bucket'[q] = bucket[q] /\ outcome'[q] = outcome[q]
      <4>1. CASE Fetch(p)
        BY <4>1, <2>1, <2>p DEF Fetch, TypeOK
      <4> QED  BY <1>3, <2>1, <2>p, <4>1
         DEF StartPoll, NextUrl, FetchFails, Resolve, ResolveRejected, FinishPoll, Crash,
             Leave, FindExisting, WriteRecord, WriteRejected, TypeOK
    <3> QED  BY <1>s, <3>1, <3>2
  <2>2. CASE q = p
    <3>1. CASE StartPoll(p) \/ FetchFails(p) \/ Resolve(p) \/ ResolveRejected(p)
               \/ FinishPoll(p) \/ Crash(p) \/ WriteRejected(p)
      <4>1. pc'[p] \in {"idle", "next"}
        BY <3>1, <2>p DEF StartPoll, FetchFails, Resolve, ResolveRejected, FinishPoll, Crash,
             Leave, WriteRejected, TypeOK
      <4> QED  BY <1>s, <2>2, <4>1
    <3>2. ASSUME NEW g \in PRs, NextUrl(p, g) PROVE PollInv(p)'
      <4> DEFINE rows == {r \in todo[p] : RowPR[r] = g}
      <4>1. CASE bucket' = [bucket EXCEPT ![p] = rows] /\ pc' = [pc EXCEPT ![p] = "fetch"]
        <5>1. pc'[p] = "fetch" /\ bucket'[p] = rows
          BY <4>1, <2>p DEF TypeOK
        <5>2. rows # {} /\ \A r, s \in rows : RowPR[r] = RowPR[s]
          BY <3>2 DEF NextUrl
        <5> HIDE DEF rows
        <5> QED  BY <5>1, <5>2 DEF PollInv
      <4>2. CASE UNCHANGED <<bucket, pc>>
        BY <3>2, <4>2, <1>s DEF NextUrl
      <4> QED  BY <3>2, <4>1, <4>2 DEF NextUrl
    <3>3. CASE FindExisting(p)
      <4>1. /\ pc[p] = "find" /\ pc'[p] = "write"
            /\ UNCHANGED <<bucket, outcome, input, github, wasClosed>>
        BY <3>3, <2>p DEF FindExisting, TypeOK
      <4> QED  BY <2>2, <4>1 DEF PollInv
    <3>4. CASE WriteRecord(p)
      <4>1. /\ pc[p] = "write" /\ pc'[p] = "resolve"
            /\ UNCHANGED <<bucket, outcome, github, wasClosed>>
        BY <3>4, <2>p DEF WriteRecord, TypeOK
      <4>2. \A r \in bucket[p] : Recorded(RowPR[r])' # {}
        BY <3>4, <4>1, <2>p, RecordsGrow DEF PollInv
      <4>3. \A g : Readable(g)' = Readable(g)
        BY DEF Readable
      <4> QED  BY <2>2, <4>1, <4>2, <4>3 DEF PollInv, Resolved
    <3> QED  BY <1>3, <2>2, <3>1, <3>2, <3>3, <3>4, FetchStep
  <2> QED  BY <2>1, <2>2
<1>4. CASE UNCHANGED vars
  BY <1>4, <1>s DEF vars
<1> QED  BY <1>1, <1>2, <1>3, <1>4, Steps DEF Recorders

\* What the rows say: a step changes a row only to link it or to resolve it.
LEMMA RowsStep ==
  ASSUME TypeOK, RecordInv, \A p \in Pollers : PollInv(p), [Next]_vars,
         ResolutionsAreTrue, NoLessonLost
  PROVE  ResolutionsAreTrue' /\ NoLessonLost'
<1>w. World /\ (\A g : Recorded(g) # {} => Recorded(g)' # {}) /\ (\A g : Readable(g)' = Readable(g))
  BY WorldStep DEF World, Recorded, Readable
<1>p. RowPR \in [Rows -> PRs]
  BY RowsAssumption
<1> DEFINE Fine(r) ==
      /\ status'[r] = "pr-merged" => github'[RowPR[r]] = "merged"
      /\ status'[r] = "pr-rejected" => RowPR[r] \in wasClosed'
      /\ status'[r] = "pr-rejected" /\ Readable(RowPR[r]) => Recorded(RowPR[r])' # {}
<1>s. ASSUME NEW r \in Rows, status'[r] \in {status[r], "pr-opened"} PROVE Fine(r)
  BY <1>s, <1>w, <1>p DEF World, ResolutionsAreTrue, NoLessonLost
<1>1. ASSUME NEW r \in Rows PROVE Fine(r)
  <2> USE DEF pollVars, githubVars, recordVars
  <2>1. CASE Environment
    BY <2>1, <1>s DEF Environment, MergePR, ClosePR, ReopenPR, LinkRow, TypeOK
  <2>2. ASSUME NEW p \in Pollers, Resolve(p) PROVE Fine(r)
    <3>1. CASE r \in bucket[p]
      <4>1. status'[r] = outcome[p] /\ pc[p] = "resolve" /\ PollInv(p)
        BY <2>2, <3>1 DEF Resolve
      <4>2. /\ outcome[p] = "pr-merged" => github[RowPR[r]] = "merged"
            /\ outcome[p] = "pr-rejected" => RowPR[r] \in wasClosed
            /\ outcome[p] = "pr-rejected" /\ Readable(RowPR[r]) => Recorded(RowPR[r]) # {}
        BY <3>1, <4>1 DEF PollInv
      <4> QED  BY <1>w, <1>p, <4>1, <4>2 DEF World
    <3>2. CASE r \notin bucket[p]
      BY <2>2, <3>2, <1>s DEF Resolve
    <3> QED  BY <3>1, <3>2
  <2>3. CASE UNCHANGED status
    BY <2>3, <1>s
  <2>4. ASSUME Next, ~ Environment, ~ \E p \in Pollers : Resolve(p) PROVE UNCHANGED status
    BY <2>4, Steps DEF StartClick, FindExisting, WriteRecord, WriteRejected,
       StartPoll, NextUrl, Fetch, FetchFails, ResolveRejected, FinishPoll, Crash
  <2> QED  BY <2>1, <2>2, <2>3, <2>4 DEF vars
<1> QED  BY <1>1, <1>w DEF ResolutionsAreTrue, NoLessonLost

LEMMA Invariance == Spec => []IInv
<1>1. Init => IInv
  <2>1. ASSUME Init PROVE ClosedKnown /\ ResolutionsAreTrue /\ NoLessonLost
    BY <2>1, RowsAssumption DEF Init, ClosedKnown, ResolutionsAreTrue, NoLessonLost
  <2>2. ASSUME Init, NEW p \in Pollers PROVE PollInv(p)
    BY <2>2, ActorsApart DEF Init, PollInv
  <2> QED  BY <2>1, <2>2, TypeInit DEF IInv
<1>2. IInv /\ [Next]_vars => IInv'
  <2> SUFFICES ASSUME IInv, [Next]_vars PROVE IInv'
    OBVIOUS
  <2> USE DEF IInv
  <2>1. TypeOK' /\ RecordInv'
    BY TypeStep, RecordStep
  <2>2. ClosedKnown'
    BY ClosedStep
  <2>3. \A p \in Pollers : PollInv(p)'
    BY PollInvStep
  <2>4. ResolutionsAreTrue' /\ NoLessonLost'
    BY RowsStep
  <2> QED  BY <2>1, <2>2, <2>3, <2>4
<1> QED  BY <1>1, <1>2, PTL DEF Spec

\* Every variable keeps its type, however polls, clients and failures
\* interleave: only inputs are recorded, and what is found exists.
THEOREM TypeCorrect == Spec => []TypeOK
<1> QED  BY Invariance, PTL DEF IInv

\* pollPrStates: what a row says of its pull request is or was so, for any
\* number of polls that overlap, fail or die, and of reopenings.
THEOREM Truthful == Spec => []ResolutionsAreTrue
<1> QED  BY Invariance, PTL DEF IInv

\* pollPrStates: a row that no poll will look at again has its lesson on
\* record, whichever operation failed on the way.
THEOREM LessonsKept == Spec => []NoLessonLost
<1> QED  BY Invariance, PTL DEF IInv

(***************************************************************************)
(* recordRejection: two records of a pull request                          *)
(***************************************************************************)

\* As long as no two recorders of a pull request were in the critical section
\* at once, there is at most one of each, and who creates has found nothing.
Alone(g) ==
  /\ \A i, j \in Recorded(g) : i = j
  /\ \A a, b \in Writing(g) : a = b
  /\ \A a \in Writing(g) : existing[a] = 0 => Recorded(g) = {}

SingleInv == \A g \in PRs : g \notin overlap => Alone(g)

\* A step that is neither a search nor a write lets no one into the section.
LEMMA AloneStable ==
  ASSUME TypeOK, NEW g \in PRs, Alone(g), UNCHANGED patterns,
         \A b \in Recorders : pc'[b] = "write" =>
           pc[b] = "write" /\ input'[b] = input[b] /\ existing'[b] = existing[b]
  PROVE  Alone(g)'
<1>1. Recorded(g)' = Recorded(g)
  BY DEF Recorded
<1>2. Writing(g)' \subseteq Writing(g) /\ \A b \in Writing(g)' : existing'[b] = existing[b]
  BY DEF Writing
<1> QED  BY <1>1, <1>2 DEF Alone

LEMMA SingleStep ==
  ASSUME TypeOK, RecordInv, SingleInv, [Next]_vars
  PROVE  SingleInv'
<1> USE DEF pollVars, githubVars, recordVars
<1>s. ASSUME overlap \subseteq overlap', UNCHANGED patterns,
             \A b \in Recorders : pc'[b] = "write" =>
               pc[b] = "write" /\ input'[b] = input[b] /\ existing'[b] = existing[b]
      PROVE  SingleInv'
  BY <1>s, AloneStable DEF SingleInv
<1>1. CASE Environment
  BY <1>1, <1>s DEF Environment, MergePR, ClosePR, ReopenPR, LinkRow
<1>2. ASSUME NEW c \in Clients, StartClick(c) PROVE SingleInv'
  <2>1. \A b \in Recorders : pc'[b] = "write" => pc[b] = "write" /\ input'[b] = input[b]
    BY <1>2, ActorsApart DEF StartClick, TypeOK
  <2> QED  BY <1>2, <2>1, <1>s DEF StartClick
<1>3. ASSUME NEW a \in Recorders, WriteRejected(a) PROVE SingleInv'
  <2>1. \A b \in Recorders : pc'[b] = "write" =>
          pc[b] = "write" /\ input'[b] = input[b] /\ existing'[b] = existing[b]
    BY <1>3 DEF WriteRejected, Leave, TypeOK
  <2> QED  BY <1>3, <2>1, <1>s DEF WriteRejected
<1>4. ASSUME NEW p \in Pollers,
              \/ StartPoll(p) \/ \E g \in PRs : NextUrl(p, g)
              \/ Fetch(p) \/ FetchFails(p) \/ Resolve(p) \/ ResolveRejected(p)
              \/ FinishPoll(p) \/ Crash(p)
      PROVE  SingleInv'
  <2>1. UNCHANGED <<overlap, patterns>>
    BY <1>4 DEF StartPoll, NextUrl, Fetch, FetchFails, Resolve, ResolveRejected, FinishPoll, Crash
  <2>2. \A b \in Recorders : pc'[b] = "write" =>
          pc[b] = "write" /\ input'[b] = input[b] /\ existing'[b] = existing[b]
    <3>1. CASE Fetch(p)
      BY <3>1, ActorsApart DEF Fetch, TypeOK
    <3> QED  BY <1>4, <3>1, ActorsApart DEF StartPoll, NextUrl, FetchFails, Resolve,
             ResolveRejected, FinishPoll, Crash, Leave, TypeOK
  <2> QED  BY <2>1, <2>2, <1>s
<1>5. ASSUME NEW a \in Recorders, FindExisting(a), NEW g \in PRs, g \notin overlap'
      PROVE  Alone(g)'
  <2>1. PICK i \in IF Recorded(input[a].pr) = {} THEN {0} ELSE Recorded(input[a].pr) :
               existing' = [existing EXCEPT ![a] = i]
    BY <1>5 DEF FindExisting
  <2>2. /\ pc' = [pc EXCEPT ![a] = "write"] /\ UNCHANGED <<input, patterns>>
        /\ overlap' = IF Writing(input[a].pr) = {} THEN overlap ELSE overlap \union {input[a].pr}
    BY <1>5 DEF FindExisting
  <2>3. Alone(g) /\ Recorded(g)' = Recorded(g)
    BY <1>5, <2>2 DEF SingleInv, Recorded
  <2>4. CASE input[a].pr = g
    <3>1. Writing(g) = {}
      BY <1>5, <2>2, <2>4
    <3>2. \A b \in Writing(g)' : b = a
      BY <2>2, <3>1 DEF Writing, TypeOK
    <3>3. existing'[a] = 0 => Recorded(g) = {}
      BY <2>1, <2>4 DEF TypeOK, Recorded
    <3> QED  BY <2>3, <3>2, <3>3 DEF Alone
  <2>5. CASE input[a].pr # g
    <3>1. \A b \in Writing(g)' : b \in Writing(g) /\ existing'[b] = existing[b]
      BY <2>1, <2>2, <2>5 DEF Writing, TypeOK
    <3> QED  BY <2>3, <3>1 DEF Alone
  <2> QED  BY <2>4, <2>5
<1>6. ASSUME NEW a \in Recorders, WriteRecord(a), NEW g \in PRs, g \notin overlap'
      PROVE  Alone(g)'
  <2>1. Alone(g)
    BY <1>6 DEF WriteRecord, SingleInv
  <2>2. /\ pc[a] = "write" /\ a \notin Writing(g)'
        /\ \A b \in Writing(g)' : b \in Writing(g) /\ b # a /\ existing'[b] = existing[b]
    BY <1>6 DEF WriteRecord, Writing, TypeOK
  <2>3. CASE input[a].pr = g
    <3>1. a \in Writing(g) /\ Writing(g)' = {}
      BY <2>1, <2>2, <2>3 DEF Alone, Writing
    <3>2. \A i, j \in Recorded(g)' : i = j
      BY <1>6, <2>1, <2>3, <3>1, RecordsGrow DEF Alone
    <3> QED  BY <3>1, <3>2 DEF Alone
  <2>4. CASE input[a].pr # g
    <3>1. Recorded(g)' = Recorded(g)
      BY <1>6, <2>4, RecordsGrow
    <3> QED  BY <2>1, <2>2, <3>1 DEF Alone
  <2> QED  BY <2>3, <2>4
<1>7. CASE UNCHANGED vars
  BY <1>7, <1>s DEF vars
<1> QED  BY <1>1, <1>2, <1>3, <1>4, <1>5, <1>6, <1>7, Steps DEF SingleInv

\* recordRejection: a pull request has a second record only after two recorders
\* were between the search and the creation at once.
THEOREM Duplicates == Spec => []DuplicatesNeedOverlap
<1>1. Init => SingleInv
  BY DEF Init, SingleInv, Alone, Recorded, Writing
<1>2. IInv /\ SingleInv /\ [Next]_vars => SingleInv'
  BY SingleStep DEF IInv
<1>3. SingleInv => DuplicatesNeedOverlap
  <2> SUFFICES ASSUME SingleInv, NEW g \in PRs, g \notin overlap
               PROVE  ~ (Cardinality(Recorded(g)) > 1)
    BY DEF DuplicatesNeedOverlap
  <2>1. \A i, j \in Recorded(g) : i = j
    BY DEF SingleInv, Alone
  <2>2. CASE Recorded(g) = {}
    BY <2>2, FS_EmptySet
  <2>3. ASSUME NEW i \in Recorded(g) PROVE Cardinality(Recorded(g)) = 1
    <3>1. Recorded(g) = {i}
      BY <2>1, <2>3
    <3> QED  BY <3>1, FS_Singleton
  <2> QED  BY <2>2, <2>3
<1> QED  BY <1>1, <1>2, <1>3, Invariance, PTL DEF Spec
=============================================================================
