--------------------------- MODULE ScanViewProofs ---------------------------
(***************************************************************************)
(* Proofs about ScanView: a draft pull request stands on the card of its   *)
(* dependency, and the page of a scan that is over is complete, for every  *)
(* queue of dependencies, every lag, any number of visits and wherever the *)
(* scan runs.                                                              *)
(***************************************************************************)
EXTENDS ScanView, TLAPS

Running == stage \in {"running", "completing"}

\* Only an open stream has events on their way; a page is done when it has
\* asked for the row; a stored pull request was opened, and so was one that was
\* read; the row of a running scan says so.
Plain ==
    /\ conn # "open" => wire = <<>>
    /\ done = (get # "none")
    /\ \A d \in Deps : saved[d] = "pr" => emitted[d] = "pr"
    /\ \A d \in Deps : snap.saved[d] = "pr" => emitted[d] = "pr"
    /\ stage = "running" => row = "running"

\* From a runner in the server, a terminal event is on its way, or was received,
\* only when it has come to its end; a stream is opened to a running scan by a
\* page without cards.
Ends ==
    home = "server" =>
      /\ done => ~Running
      /\ \A i \in DOMAIN wire : Terminal(wire[i]) => ~Running
      /\ conn = "connecting" /\ Running => view.cards = <<>>

\* A runner elsewhere sends nothing: all there is are the server's answers.
Elsewhere ==
    home # "server" =>
      /\ view.cards = <<>>
      /\ \A i \in DOMAIN wire : wire[i].type = "done"

\* The row was read when the runner had written its last issue, if the runner
\* is in the server or the row says so.
Read ==
    get \in {"read", "back"} /\ (home = "server" \/ snap.row # "running") =>
      snap.saved = saved /\ stage # "running"

\* A pull request on a card was opened for its dependency.
CardsTrue ==
    \A i \in DOMAIN view.cards : view.cards[i].pr => emitted[view.cards[i].dep] = "pr"

\* The issues sent to a page with these cards: those on its wire at the places
\* 1, 2, ..., at place 0 the last one received.
IssueAt(cards, w, j) == IF j = 0 THEN cards # <<>> ELSE w[j].type = "issue"

DepAt(cards, w, j) == IF j = 0 THEN cards[Len(cards)].dep ELSE w[j].arg

\* The issue at place j is the last one up to place n.
LastIssue(cards, w, j, n) ==
    /\ j \in 0..n
    /\ IssueAt(cards, w, j)
    /\ \A k \in (j + 1)..n : w[k].type # "issue"

\* The pull request of an event on its way is that of the last issue before it,
\* if this page has seen any; the last issue sent is the one being worked on.
Announced ==
    \A i \in DOMAIN wire : wire[i].type = "pr" =>
      \A j \in 0..(i - 1) :
        LastIssue(view.cards, wire, j, i - 1) => emitted[DepAt(view.cards, wire, j)] = "pr"

Current ==
    conn = "open" /\ stage = "running" /\ cur # None =>
      \A j \in 0..Len(wire) :
        LastIssue(view.cards, wire, j, Len(wire)) => DepAt(view.cards, wire, j) = cur

IInv == TypeOK /\ Plain /\ Ends /\ Elsewhere /\ Read /\ CardsTrue /\ Announced /\ Current

-----------------------------------------------------------------------------
(* The view: one more entry *)

LEMMA DeriveType ==
  ASSUME NEW v \in Views, NEW e \in Events
  PROVE  Derive(v, e) \in Views
<1>1. CASE e.type = "phase"
  <2>1. e.arg \in ToSet(Steps)
    BY <1>1 DEF Events
  <2>2. PhaseMap(e.arg) \in {"SCAN", "DONE", "ERROR"} \union ToSet(Steps)
    BY <2>1 DEF PhaseMap, Steps, ToSet
  <2>3. QED BY <1>1, <2>2 DEF Derive, Views
<1>2. CASE e.type = "issue"
  <2>1. e.arg \in Deps
    BY <1>2 DEF Events
  <2>2. [dep |-> e.arg, pr |-> FALSE] \in Card
    BY <2>1 DEF Card
  <2>3. Append(v.cards, [dep |-> e.arg, pr |-> FALSE]) \in Seq(Card)
    BY <2>2 DEF Views
  <2>4. QED BY <1>2, <2>1, <2>3 DEF Derive, Views
<1>3. CASE e.type = "pr" /\ v.cards # <<>>
  <2>1. v.cards \in Seq(Card) /\ PrCard(v.cards) \in DOMAIN v.cards
    BY <1>3 DEF Views, PrCard
  <2>2. v.cards[PrCard(v.cards)] \in Card
    BY <2>1
  <2>3. [v.cards EXCEPT ![PrCard(v.cards)].pr = TRUE] \in Seq(Card)
    <3>1. [v.cards[PrCard(v.cards)] EXCEPT !.pr = TRUE] \in Card
      BY <2>2 DEF Card
    <3>2. QED BY <2>1, <3>1
  <2>4. QED BY <1>3, <2>3 DEF Derive, Views
<1>4. CASE e.type \in {"done", "error"}
  BY <1>4 DEF Derive, Views
<1>5. CASE e.type = "pr" /\ v.cards = <<>>
  BY <1>5 DEF Derive
<1>6. QED BY <1>1, <1>2, <1>3, <1>4, <1>5 DEF Events

\* An issue adds its card at the end.
LEMMA DeriveIssue ==
  ASSUME NEW v \in Views, NEW e \in Events, e.type = "issue"
  PROVE  Derive(v, e).cards = Append(v.cards, [dep |-> e.arg, pr |-> FALSE])
BY DEF Derive, Views

\* No other entry adds one or changes the dependency of one; a pull request
\* marks the last one.
LEMMA DeriveOther ==
  ASSUME NEW v \in Views, NEW e \in Events, e.type # "issue"
  PROVE  /\ Len(Derive(v, e).cards) = Len(v.cards)
         /\ \A i \in DOMAIN v.cards :
              /\ Derive(v, e).cards[i].dep = v.cards[i].dep
              /\ Derive(v, e).cards[i].pr =>
                   v.cards[i].pr \/ (e.type = "pr" /\ i = Len(v.cards))
<1>1. CASE e.type = "pr" /\ v.cards # <<>>
  <2>1. Derive(v, e).cards = [v.cards EXCEPT ![Len(v.cards)].pr = TRUE]
    BY <1>1 DEF Derive, Views, PrCard
  <2>2. v.cards \in Seq(Card)
    BY DEF Views
  <2>3. \A i \in DOMAIN v.cards : v.cards[i] \in Card
    BY <2>2
  <2>4. QED BY <1>1, <2>1, <2>2, <2>3 DEF Card
<1>2. CASE ~(e.type = "pr" /\ v.cards # <<>>)
  BY <1>2 DEF Derive, Views
<1>3. QED BY <1>1, <1>2

LEMMA EmptyViewType == EmptyView \in Views /\ EmptyView.cards = <<>>
BY DEF EmptyView, Views

LEMMA NoSnapType == NoSnap \in Snaps
BY DEF NoSnap, Snaps, Found

-----------------------------------------------------------------------------
(* The events on their way *)

LEMMA WireEvent ==
  ASSUME TypeOK, NEW i \in DOMAIN wire
  PROVE  wire[i] \in Events
BY DEF TypeOK

LEMMA DepAtType ==
  ASSUME TypeOK, NEW j \in 0..Len(wire), IssueAt(view.cards, wire, j)
  PROVE  DepAt(view.cards, wire, j) \in Deps
<1>1. CASE j = 0
  <2>1. view.cards \in Seq(Card) /\ view.cards # <<>>
    BY <1>1 DEF TypeOK, Views, IssueAt
  <2>2. view.cards[Len(view.cards)] \in Card
    BY <2>1
  <2>3. QED BY <1>1, <2>2 DEF DepAt, Card
<1>2. CASE j # 0
  <2>1. j \in DOMAIN wire
    BY <1>2 DEF TypeOK
  <2>2. wire[j] \in Events /\ wire[j].type = "issue"
    BY <1>2, <2>1, WireEvent DEF IssueAt
  <2>3. QED BY <1>2, <2>2 DEF DepAt, Events
<1>3. QED BY <1>1, <1>2

\* Sending an event leaves the places before it as they are.
LEMMA SentPlaces ==
  ASSUME NEW c, NEW w \in Seq(Events), NEW e \in Events,
         NEW n \in 0..Len(w), NEW j \in 0..n
  PROVE  /\ LastIssue(c, Append(w, e), j, n) <=> LastIssue(c, w, j, n)
         /\ DepAt(c, Append(w, e), j) = DepAt(c, w, j)
BY DEF LastIssue, IssueAt, DepAt

\* Announced does not depend on more than the pull requests opened so far.
LEMMA AnnouncedKept ==
  ASSUME TypeOK, Announced, view' = view,
         \A d \in Deps : emitted[d] = "pr" => emitted'[d] = "pr",
         \/ wire' = wire
         \/ wire' = <<>>
         \/ \E e \in Events : e.type # "pr" /\ wire' = Append(wire, e)
  PROVE  Announced'
<1>0. wire \in Seq(Events)
  BY DEF TypeOK
<1>1. ASSUME NEW i \in 1..Len(wire), wire[i].type = "pr",
             NEW j \in 0..(i - 1), LastIssue(view.cards, wire, j, i - 1)
      PROVE  emitted'[DepAt(view.cards, wire, j)] = "pr"
  <2>1. emitted[DepAt(view.cards, wire, j)] = "pr"
    BY <1>0, <1>1 DEF Announced
  <2>2. j \in 0..Len(wire) /\ IssueAt(view.cards, wire, j)
    BY <1>0, <1>1 DEF LastIssue
  <2>3. QED BY <2>1, <2>2, DepAtType
<1>2. CASE wire' = wire
  BY <1>0, <1>1, <1>2 DEF Announced
<1>3. CASE wire' = <<>>
  BY <1>3 DEF Announced
<1>4. CASE \E e \in Events : e.type # "pr" /\ wire' = Append(wire, e)
  <2>1. PICK e \in Events : e.type # "pr" /\ wire' = Append(wire, e)
    BY <1>4
  <2>2. SUFFICES ASSUME NEW i \in DOMAIN wire', wire'[i].type = "pr",
                        NEW j \in 0..(i - 1),
                        LastIssue(view.cards, wire', j, i - 1)
                 PROVE  emitted'[DepAt(view.cards, wire', j)] = "pr"
    BY DEF Announced
  <2>3. i \in 1..Len(wire) /\ wire[i].type = "pr"
    BY <2>1, <2>2, <1>0
  <2>4. i - 1 \in 0..Len(wire)
    BY <2>3
  <2>5. /\ LastIssue(view.cards, wire, j, i - 1)
        /\ DepAt(view.cards, wire', j) = DepAt(view.cards, wire, j)
    BY <2>1, <2>2, <2>4, <1>0, SentPlaces
  <2>6. QED BY <2>2, <2>3, <2>5, <1>1
<1>5. QED BY <1>2, <1>3, <1>4

\* Current does not depend on more than the issue being worked on.
LEMMA CurrentKept ==
  ASSUME TypeOK, Current, view' = view, conn' = conn, stage' = stage,
         cur' = cur,
         \/ wire' = wire
         \/ \E e \in Events : e.type # "issue" /\ wire' = Append(wire, e)
  PROVE  Current'
<1>0. wire \in Seq(Events)
  BY DEF TypeOK
<1>1. CASE wire' = wire
  BY <1>1 DEF Current
<1>2. CASE \E e \in Events : e.type # "issue" /\ wire' = Append(wire, e)
  <2>1. PICK e \in Events : e.type # "issue" /\ wire' = Append(wire, e)
    BY <1>2
  <2>2. SUFFICES ASSUME conn = "open", stage = "running", cur # None,
                        NEW j \in 0..Len(wire'),
                        LastIssue(view.cards, wire', j, Len(wire'))
                 PROVE  DepAt(view.cards, wire', j) = cur
    BY DEF Current
  <2>3. Len(wire') = Len(wire) + 1 /\ wire'[Len(wire) + 1] = e
    BY <2>1, <1>0
  <2>4. j # Len(wire) + 1
    BY <2>1, <2>2, <2>3, <1>0 DEF LastIssue, IssueAt
  <2>5. j \in 0..Len(wire) /\ Len(wire) \in 0..Len(wire)
    BY <2>2, <2>3, <2>4, <1>0
  <2>6. LastIssue(view.cards, wire', j, Len(wire))
    BY <2>2, <2>3, <2>5, <1>0 DEF LastIssue
  <2>7. /\ LastIssue(view.cards, wire, j, Len(wire))
        /\ DepAt(view.cards, wire', j) = DepAt(view.cards, wire, j)
    BY <2>1, <2>5, <2>6, <1>0, SentPlaces
  <2>8. QED BY <2>2, <2>5, <2>7 DEF Current
<1>3. QED BY <1>1, <1>2

-----------------------------------------------------------------------------
(* The steps of the runner *)

LEMMA EventTypes ==
  /\ \A d \in Deps : Event("issue", d) \in Events
  /\ \A p \in ToSet(Steps) : Event("phase", p) \in Events
  /\ \A t \in {"pr", "done", "error"} : Event(t, None) \in Events
BY DEF Event, Events

LEMMA StepNames ==
  /\ \A i \in 1..5 : Steps[i] \in ToSet(Steps)
  /\ {"issue", "DIAGNOSE", "PATCH", "VERIFY", "SUBMIT"} \subseteq ToSet(Steps)
BY DEF Steps, ToSet

LEMMA EmitWire ==
  ASSUME TypeOK, NEW e \in Events, Emit(e)
  PROVE  /\ wire' \in Seq(Events)
         /\ home = "server" /\ conn = "open" => wire' = Append(wire, e)
         /\ ~(home = "server" /\ conn = "open") => wire' = wire
BY DEF TypeOK, Emit

\* What the steps of the runner leave alone, and what they may send.
LEMMA ServerFrame ==
  ASSUME TypeOK, Server
  PROVE  /\ UNCHANGED <<home, client, cancel>>
         /\ \/ wire' = wire
            \/ /\ home = "server" /\ conn = "open"
               /\ \E e \in Events : wire' = Append(wire, e)
<1>1. ASSUME NEW e \in Events, Emit(e)
      PROVE  \/ wire' = wire
             \/ /\ home = "server" /\ conn = "open"
                /\ \E f \in Events : wire' = Append(wire, f)
  BY <1>1, EmitWire
<1>2. ASSUME NEW d \in Deps, EmitIssue(d)
      PROVE  UNCHANGED <<home, client, cancel>> /\ Emit(Event("issue", d))
  BY <1>2 DEF EmitIssue
<1>3. CASE EmitPhase
  <2>1. UNCHANGED <<home, client, cancel>>
    BY <1>3 DEF EmitPhase
  <2>2. PICK i \in 1..4 : Emit(Event("phase", Steps[i + 1]))
    BY <1>3 DEF EmitPhase
  <2>3. Event("phase", Steps[i + 1]) \in Events
    BY EventTypes, StepNames
  <2>4. QED BY <2>1, <2>2, <2>3, <1>1
<1>4. CASE EmitPr \/ EmitDone \/ EmitError
  BY <1>4, <1>1, EventTypes DEF EmitPr, EmitDone, EmitError
<1>5. CASE SaveIssue \/ Complete \/ SaveFailure \/ Release
  BY <1>5 DEF SaveIssue, Complete, SaveFailure, Release
<1>6. QED BY <1>1, <1>2, <1>3, <1>4, <1>5, EventTypes DEF Server

LEMMA ServerType ==
  ASSUME TypeOK, Server
  PROVE  TypeOK'
<1>1. /\ UNCHANGED <<home, page, visits, conn, view, done, get, snap, early, cancelling,
                      cancel>>
      /\ wire' \in Seq(Events)
  <2>1. wire \in Seq(Events)
    BY DEF TypeOK
  <2>2. QED BY <2>1, ServerFrame DEF client
<1>2. /\ stage' \in {"running", "completing", "failing", "ended", "gone"}
      /\ row' \in {None, "running", "completed", "failed", "cancelled"}
      /\ cur' \in Deps \union {None}
  BY DEF TypeOK, Server, EmitIssue, EmitPhase, EmitPr, SaveIssue, Complete,
         EmitDone, EmitError, SaveFailure, Release
<1>3. step' \in ToSet(Steps) \union {"DETECT"}
  <2>1. ASSUME NEW i \in 1..4, step' = Steps[i + 1]
        PROVE  step' \in ToSet(Steps)
    BY <2>1, StepNames
  <2>2. QED BY <2>1, StepNames
     DEF TypeOK, Server, EmitIssue, EmitPhase, EmitPr, SaveIssue, Complete,
         EmitDone, EmitError, SaveFailure, Release
<1>4. emitted' \in [Deps -> Found] /\ saved' \in [Deps -> Found]
  BY DEF TypeOK, Found, Server, EmitIssue, EmitPhase, EmitPr, SaveIssue, Complete,
         EmitDone, EmitError, SaveFailure, Release
<1>5. QED BY <1>1, <1>2, <1>3, <1>4 DEF TypeOK

\* Pull requests are opened, never withdrawn.
LEMMA PrStands ==
  ASSUME TypeOK, Server
  PROVE  \A d \in Deps : emitted[d] = "pr" => emitted'[d] = "pr"
BY DEF TypeOK, Server, EmitIssue, EmitPhase, EmitPr, SaveIssue, Complete,
       EmitDone, EmitError, SaveFailure, Release

\* Only a running scan stores an issue, and nothing is running again.
LEMMA RunningStops ==
  ASSUME TypeOK, Server
  PROVE  /\ Running' => Running
         /\ stage # "running" => saved' = saved /\ stage' # "running"
         /\ stage' = "running" => row' = row
BY DEF TypeOK, Running, Server, EmitIssue, EmitPhase, EmitPr, SaveIssue, Complete,
       EmitDone, EmitError, SaveFailure, Release

LEMMA ServerPlain ==
  ASSUME IInv, Server
  PROVE  Plain'
<1>0. TypeOK /\ Plain
  BY DEF IInv
<1>1. UNCHANGED <<conn, done, get, snap>> /\ (conn # "open" => wire' = wire)
  BY <1>0, ServerFrame DEF client
<1>2. ASSUME NEW d \in Deps, saved'[d] = "pr"
      PROVE  emitted'[d] = "pr"
  <2>1. CASE saved'[d] = saved[d]
    BY <1>0, <1>2, <2>1, PrStands DEF Plain
  <2>2. CASE saved'[d] # saved[d]
    BY <1>0, <1>2, <2>2 DEF TypeOK, Server, EmitIssue, EmitPhase, EmitPr,
       SaveIssue, Complete, EmitDone, EmitError, SaveFailure, Release
  <2>3. QED BY <2>1, <2>2
<1>3. \A d \in Deps : snap.saved[d] = "pr" => emitted'[d] = "pr"
  BY <1>0, PrStands DEF Plain
<1>4. stage' = "running" => row' = "running"
  BY <1>0, RunningStops DEF Plain
<1>5. QED BY <1>0, <1>1, <1>2, <1>3, <1>4 DEF Plain

\* The event that ends a stream is the last thing before the runner's end.
LEMMA ServerEnds ==
  ASSUME IInv, Server
  PROVE  Ends'
<1>0. TypeOK /\ Ends /\ wire \in Seq(Events)
  BY DEF IInv, TypeOK
<1>1. UNCHANGED <<home, conn, done, view>> /\ (Running' => Running)
  BY <1>0, ServerFrame, RunningStops DEF client
<1>2. ASSUME home = "server", NEW i \in DOMAIN wire', Terminal(wire'[i]), Running'
      PROVE  FALSE
  <2>1. CASE i \in DOMAIN wire /\ wire'[i] = wire[i]
    BY <1>0, <1>1, <1>2, <2>1 DEF Ends
  <2>2. CASE ~(i \in DOMAIN wire /\ wire'[i] = wire[i])
    <3>1. PICK e \in Events : wire' = Append(wire, e)
      BY <1>0, <2>2, <1>2, ServerFrame
    <3>2. i = Len(wire) + 1 /\ wire'[i] = e
      BY <3>1, <2>2, <1>2, <1>0
    <3>3. wire' # wire
      BY <3>1, <1>0
    <3>4. EmitDone \/ EmitError
      <4>1. ASSUME NEW f, f.type \notin {"done", "error"}, Emit(f)
            PROVE  FALSE
        <5>1. wire' = Append(wire, f)
          BY <4>1, <3>3 DEF Emit
        <5>2. wire'[i] = f
          BY <5>1, <3>2, <1>0
        <5>3. QED BY <5>2, <4>1, <1>2 DEF Terminal
      <4>2. ASSUME NEW d \in Deps, EmitIssue(d) PROVE FALSE
        BY <4>1, <4>2 DEF EmitIssue, Event
      <4>3. ~EmitPhase
        BY <4>1 DEF EmitPhase, Event
      <4>4. ~EmitPr
        BY <4>1 DEF EmitPr, Event
      <4>5. QED BY <3>3, <4>2, <4>3, <4>4
            DEF Server, SaveIssue, Complete, SaveFailure, Release
    <3>5. QED BY <3>4, <1>2 DEF EmitDone, EmitError, Running
  <2>3. QED BY <2>1, <2>2
<1>3. QED BY <1>0, <1>1, <1>2 DEF Ends

LEMMA ServerRead ==
  ASSUME IInv, Server
  PROVE  Read' /\ CardsTrue'
<1>0. TypeOK /\ Read /\ CardsTrue /\ view \in Views
  BY DEF IInv, TypeOK
<1>1. UNCHANGED <<home, done, get, snap, view>>
  BY <1>0, ServerFrame DEF client
<1>2. stage # "running" => saved' = saved /\ stage' # "running"
  BY <1>0, RunningStops
<1>3. \A i \in DOMAIN view.cards : view.cards[i].dep \in Deps
  <2>1. view.cards \in Seq(Card)
    BY <1>0 DEF Views
  <2>2. \A i \in DOMAIN view.cards : view.cards[i] \in Card
    BY <2>1
  <2>3. QED BY <2>2 DEF Card
<1>4. QED BY <1>0, <1>1, <1>2, <1>3, PrStands DEF Read, CardsTrue

LEMMA ServerElsewhere ==
  ASSUME IInv, Server
  PROVE  Elsewhere'
<1>1. UNCHANGED <<home, view>> /\ (home # "server" => wire' = wire)
  BY ServerFrame DEF IInv, client
<1>2. QED BY <1>1 DEF IInv, Elsewhere

\* The pull request sent is that of the dependency being worked on, whose issue
\* is the last one sent.
LEMMA ServerAnnounced ==
  ASSUME IInv, Server
  PROVE  Announced'
<1>0. TypeOK /\ Announced /\ Current /\ wire \in Seq(Events) /\ view' = view
  BY ServerFrame DEF IInv, TypeOK, client
<1>1. CASE EmitPr
  <2>0. Event("pr", None) \in Events /\ Emit(Event("pr", None))
    BY <1>1, EventTypes DEF EmitPr
  <2>1. CASE ~(home = "server" /\ conn = "open")
    <3>1. wire' = wire
      BY <1>0, <2>0, <2>1, EmitWire
    <3>2. QED BY <1>0, <3>1, PrStands, AnnouncedKept
  <2>2. CASE home = "server" /\ conn = "open"
    <3>1. wire' = Append(wire, Event("pr", None))
      BY <1>0, <2>0, <2>2, EmitWire
    <3>2. SUFFICES ASSUME NEW i \in DOMAIN wire', wire'[i].type = "pr",
                          NEW j \in 0..(i - 1),
                          LastIssue(view.cards, wire', j, i - 1)
                   PROVE  emitted'[DepAt(view.cards, wire', j)] = "pr"
      BY <1>0 DEF Announced
    <3>3. i \in 1..(Len(wire) + 1) /\ i - 1 \in 0..Len(wire)
      BY <3>1, <1>0
    <3>4. /\ LastIssue(view.cards, wire, j, i - 1)
          /\ DepAt(view.cards, wire', j) = DepAt(view.cards, wire, j)
      BY <3>1, <3>2, <3>3, <1>0, <2>0, SentPlaces
    <3>5. CASE i = Len(wire) + 1
      <4>1. DepAt(view.cards, wire, j) = cur
        BY <3>4, <3>5, <1>0, <1>1, <2>2 DEF Current, EmitPr
      <4>2. emitted' = [emitted EXCEPT ![cur] = "pr"] /\ cur \in Deps
        BY <1>0, <1>1 DEF EmitPr, TypeOK
      <4>3. QED BY <4>1, <4>2, <3>4, <1>0 DEF TypeOK
    <3>6. CASE i # Len(wire) + 1
      <4>1. i \in DOMAIN wire /\ wire[i].type = "pr"
        BY <3>1, <3>2, <3>3, <3>6, <1>0
      <4>2. emitted[DepAt(view.cards, wire, j)] = "pr"
        BY <4>1, <3>4, <1>0 DEF Announced
      <4>3. j \in 0..Len(wire) /\ IssueAt(view.cards, wire, j)
        BY <3>3, <3>4 DEF LastIssue
      <4>4. DepAt(view.cards, wire, j) \in Deps
        BY <4>3, <1>0, DepAtType
      <4>5. QED BY <4>2, <4>4, <3>4, <1>0, PrStands
    <3>7. QED BY <3>5, <3>6
  <2>3. QED BY <2>1, <2>2
<1>2. CASE ~EmitPr
  <2>1. wire' = wire \/ \E e \in Events : e.type # "pr" /\ wire' = Append(wire, e)
    <3>1. ASSUME NEW e \in Events, e.type # "pr", Emit(e)
          PROVE  wire' = wire \/ \E f \in Events : f.type # "pr" /\ wire' = Append(wire, f)
      BY <3>1 DEF Emit
    <3>2. ASSUME NEW d \in Deps, EmitIssue(d)
          PROVE  Emit(Event("issue", d)) /\ Event("issue", d).type # "pr"
      BY <3>2 DEF EmitIssue, Event
    <3>3. ASSUME EmitPhase
          PROVE  \E p \in ToSet(Steps) :
                   Emit(Event("phase", p)) /\ Event("phase", p).type # "pr"
      <4>1. PICK i \in 1..4 : Emit(Event("phase", Steps[i + 1]))
        BY <3>3 DEF EmitPhase
      <4>2. QED BY <4>1, StepNames DEF Event
    <3>4. CASE EmitDone \/ EmitError
      BY <3>1, <3>4, EventTypes DEF EmitDone, EmitError, Event
    <3>5. CASE SaveIssue \/ Complete \/ SaveFailure \/ Release
      BY <3>5 DEF SaveIssue, Complete, SaveFailure, Release
    <3>6. QED BY <1>2, <3>1, <3>2, <3>3, <3>4, <3>5, EventTypes DEF Server
  <2>2. QED BY <1>0, <2>1, PrStands, AnnouncedKept
<1>3. QED BY <1>1, <1>2

LEMMA ServerCurrent ==
  ASSUME IInv, Server
  PROVE  Current'
<1>0. /\ TypeOK /\ Current /\ wire \in Seq(Events)
      /\ UNCHANGED <<home, view, conn>>
  BY ServerFrame DEF IInv, TypeOK, client
<1>5. CASE home # "server"
  <2>1. view.cards = <<>> /\ \A i \in DOMAIN wire : wire[i].type # "issue"
    BY <1>5 DEF IInv, Elsewhere
  <2>2. wire' = wire
    BY <1>0, <1>5, ServerFrame
  <2>3. \A j \in 0..Len(wire) : ~IssueAt(view.cards, wire, j)
    BY <1>0, <2>1 DEF IssueAt
  <2>4. QED BY <1>0, <2>2, <2>3 DEF Current, LastIssue
<1>1. ASSUME home = "server", NEW d \in Deps, EmitIssue(d)
      PROVE  Current'
  <2>1. SUFFICES ASSUME conn = "open",
                        NEW j \in 0..Len(wire'),
                        LastIssue(view.cards, wire', j, Len(wire'))
                 PROVE  DepAt(view.cards, wire', j) = d
    BY <1>0, <1>1 DEF Current, EmitIssue
  <2>2. wire' = Append(wire, Event("issue", d))
    BY <1>0, <1>1, <2>1, EventTypes, EmitWire DEF EmitIssue
  <2>3. Len(wire') = Len(wire) + 1 /\ wire'[Len(wire) + 1] = Event("issue", d)
    BY <1>0, <2>2
  <2>4. j = Len(wire')
    BY <2>1, <2>3, <1>0 DEF LastIssue, Event
  <2>5. QED BY <2>3, <2>4, <1>0 DEF DepAt, Event
<1>2. CASE EmitPhase \/ EmitPr
  <2>1. stage' = stage /\ cur' = cur
    BY <1>2 DEF EmitPhase, EmitPr
  <2>2. PICK e \in Events : e.type # "issue" /\ Emit(e)
    <3>1. CASE EmitPr
      BY <3>1, EventTypes DEF EmitPr, Event
    <3>2. CASE EmitPhase
      <4>1. PICK i \in 1..4 : Emit(Event("phase", Steps[i + 1]))
        BY <3>2 DEF EmitPhase
      <4>2. QED BY <4>1, StepNames, EventTypes DEF Event
    <3>3. QED BY <1>2, <3>1, <3>2
  <2>3. wire' = wire \/ wire' = Append(wire, e)
    BY <2>2 DEF Emit
  <2>4. QED BY <1>0, <2>1, <2>2, <2>3, CurrentKept
<1>3. CASE SaveIssue \/ Complete \/ EmitDone \/ EmitError \/ SaveFailure \/ Release
  BY <1>3 DEF Current, SaveIssue, Complete, EmitDone, EmitError, SaveFailure, Release
<1>4. QED BY <1>1, <1>2, <1>3, <1>5 DEF Server

LEMMA ServerStep ==
  ASSUME IInv, Server
  PROVE  IInv'
<1>1. TypeOK
  BY DEF IInv
<1>2. QED BY <1>1, ServerType, ServerPlain, ServerEnds, ServerRead,
             ServerElsewhere, ServerAnnounced, ServerCurrent DEF IInv

-----------------------------------------------------------------------------
(* The steps of the page *)

LEMMA ClientType ==
  ASSUME TypeOK, Plain, Client
  PROVE  TypeOK'
<1>0. wire \in Seq(Events) /\ view \in Views /\ snap \in Snaps
  BY DEF TypeOK
<1>1. UNCHANGED <<server>> /\ cancel' \in BOOLEAN
  BY DEF Client, Open, Accept, Receive, StreamError, GetRead, GetFail, GetBack,
         CancelClick, CancelAnswer, Leave, TypeOK, Emitter
<1>2. wire' \in Seq(Events)
  <2>1. <<>> \in Seq(Events) /\ <<Event("done", None)>> \in Seq(Events)
    BY EventTypes
  <2>2. wire # <<>> => Tail(wire) \in Seq(Events)
    BY <1>0
  <2>3. QED BY <1>0, <2>1, <2>2
     DEF Client, Open, Accept, Receive, StreamError, GetRead, GetFail, GetBack,
         CancelClick, CancelAnswer, Leave
<1>3. view' \in Views
  <2>1. wire # <<>> => Head(wire) \in Events
    BY <1>0
  <2>2. QED BY <1>0, <2>1, DeriveType, EmptyViewType
     DEF Client, Open, Accept, Receive, StreamError, GetRead, GetFail, GetBack,
         CancelClick, CancelAnswer, Leave
<1>4. snap' \in Snaps
  <2>1. [row |-> row, saved |-> saved] \in Snaps
    BY DEF TypeOK, Snaps
  <2>2. QED BY <1>0, <2>1, NoSnapType
     DEF Client, Open, Accept, Receive, StreamError, GetRead, GetFail, GetBack,
         CancelClick, CancelAnswer, Leave
<1>5. page' \in {"away", "mounted"} /\ visits' \in 0..MaxVisits
  BY ViewAssumption DEF TypeOK, Client, Open, Accept, Receive, StreamError, GetRead,
     GetFail, GetBack, CancelClick, CancelAnswer, Leave
<1>6. /\ conn' \in {"none", "connecting", "open", "closed"}
      /\ get' \in {"none", "sent", "read", "back", "failed"}
  BY DEF TypeOK, Client, Open, Accept, Receive, StreamError, GetRead,
     GetFail, GetBack, CancelClick, CancelAnswer, Leave
<1>7. {done', early', cancelling'} \subseteq BOOLEAN /\ done' = (get' # "none")
  BY DEF TypeOK, Client, Open, Accept, Receive, StreamError, GetRead,
     GetFail, GetBack, CancelClick, CancelAnswer, Leave, Terminal
<1>8. QED BY <1>1, <1>2, <1>3, <1>4, <1>5, <1>6, <1>7 DEF TypeOK, server

LEMMA ClientStep ==
  ASSUME IInv, Client
  PROVE  IInv'
<1>0. /\ TypeOK /\ Plain /\ Ends /\ Elsewhere /\ Read /\ CardsTrue /\ Announced
      /\ Current /\ wire \in Seq(Events) /\ view \in Views
  BY DEF IInv, TypeOK
<1>1. TypeOK' /\ UNCHANGED server
  BY <1>0, ClientType
     DEF Client, Open, Accept, Receive, StreamError, GetRead, GetFail, GetBack,
         CancelClick, CancelAnswer, Leave
<1>2. CASE Open \/ Leave
  <2>1. view'.cards = <<>> /\ wire' = <<>>
    BY <1>2, EmptyViewType DEF Open, Leave
  <2>2. /\ UNCHANGED server /\ done' = FALSE /\ get' = "none" /\ conn' # "open"
        /\ snap' = NoSnap
    BY <1>2 DEF Open, Leave
  <2>3. Plain'
    BY <1>0, <2>1, <2>2 DEF server, Plain, NoSnap
  <2>4. Ends' /\ Elsewhere' /\ Read' /\ CardsTrue'
    BY <2>1, <2>2 DEF Ends, Elsewhere, Read, CardsTrue
  <2>5. Announced' /\ Current'
    BY <2>1, <2>2 DEF Announced, Current
  <2>6. QED BY <1>1, <2>3, <2>4, <2>5 DEF IInv
<1>3. CASE Accept
  <2>1. UNCHANGED <<server, view, done, get, snap>> /\ conn' = "open"
    BY <1>3 DEF Accept
  <2>2. \/ wire' = <<>>
        \/ /\ wire' = <<Event("done", None)>>
           /\ home = "server" => ~Running
    BY <1>3 DEF Accept, Emitter, Running
  <2>3. Plain' /\ Read' /\ CardsTrue'
    BY <1>0, <2>1 DEF server, Plain, Read, CardsTrue
  <2>4. Ends' /\ Announced'
    BY <1>0, <2>1, <2>2 DEF server, Ends, Announced, Running, Terminal, Event
  <2>7. Elsewhere'
    BY <1>0, <2>1, <2>2 DEF server, Elsewhere, Event
  <2>5. Current'
    <3>4. CASE home # "server"
      BY <2>1, <2>7, <3>4 DEF server, Elsewhere, Current, LastIssue, IssueAt
    <3>1. CASE home = "server" /\ stage = "running"
      <4>1. view.cards = <<>> /\ wire' = <<>>
        BY <1>0, <1>3, <2>2, <3>1 DEF Ends, Running, Accept
      <4>2. QED BY <4>1, <2>1 DEF Current, LastIssue, IssueAt
    <3>2. CASE stage # "running"
      BY <2>1, <3>2 DEF server, Current
    <3>3. QED BY <3>1, <3>2, <3>4
  <2>6. QED BY <1>1, <2>3, <2>4, <2>5, <2>7 DEF IInv
<1>4. CASE StreamError
  BY <1>0, <1>1, <1>4
     DEF StreamError, server, IInv, Plain, Ends, Elsewhere, Read, CardsTrue, Announced,
         Current, Running
<1>5. CASE GetRead \/ GetFail \/ GetBack
  <2>1. /\ UNCHANGED <<server, view, wire, conn, done>>
        /\ get # "none" /\ get' # "none"
    BY <1>5 DEF GetRead, GetFail, GetBack
  <2>2. Read'
    <3>1. CASE GetRead
      <4>1. snap' = [row |-> row, saved |-> saved]
        BY <3>1 DEF GetRead
      <4>2. (home = "server" \/ row # "running") => stage # "running"
        BY <1>0, <2>1 DEF Plain, Ends, Running
      <4>3. QED BY <4>1, <4>2, <2>1 DEF Read, server
    <3>2. CASE GetFail \/ GetBack
      BY <1>0, <2>1, <3>2 DEF GetFail, GetBack, Read, server
    <3>3. QED BY <1>5, <3>1, <3>2
  <2>3. Plain'
    BY <1>0, <1>5, <2>1 DEF server, Plain, GetRead, GetFail, GetBack
  <2>4. Ends' /\ Elsewhere' /\ CardsTrue'
    BY <1>0, <2>1 DEF server, Ends, Elsewhere, CardsTrue, Running
  <2>5. Announced' /\ Current'
    BY <1>0, <2>1 DEF server, Announced, Current
  <2>6. QED BY <1>1, <2>2, <2>3, <2>4, <2>5 DEF IInv
<1>6. CASE CancelClick \/ CancelAnswer
  BY <1>0, <1>1, <1>6
     DEF CancelClick, CancelAnswer, server, IInv, Plain, Ends, Elsewhere, Read, CardsTrue,
         Announced, Current, Running
<1>7. CASE Receive
  <2>1. PICK e \in Events : wire # <<>> /\ e = Head(wire)
    BY <1>0, <1>7 DEF Receive
  <2>2. /\ UNCHANGED <<server, snap>> /\ conn = "open"
        /\ view' = Derive(view, e)
        /\ done' = (done \/ Terminal(e))
        /\ conn' = IF ~Terminal(e) THEN "open" ELSE IF done THEN "closed" ELSE "connecting"
        /\ wire' = IF Terminal(e) THEN <<>> ELSE Tail(wire)
        /\ get' = IF Terminal(e) /\ ~done THEN "sent" ELSE get
    BY <1>7, <2>1 DEF Receive
  <2>3. /\ Len(wire) \in Nat \ {0} /\ wire[1] = e
        /\ Len(Tail(wire)) = Len(wire) - 1
        /\ \A i \in 1..(Len(wire) - 1) : Tail(wire)[i] = wire[i + 1]
    BY <1>0, <2>1
  <2>4. home = "server" /\ Terminal(e) => ~Running
    BY <1>0, <2>3 DEF Ends
  <2>5. Plain'
    BY <1>0, <2>2 DEF Plain, server, TypeOK
  <2>6. Ends'
    <3>1. ASSUME home = "server", NEW i \in DOMAIN wire', Terminal(wire'[i])
          PROVE  ~Running
      BY <3>1, <1>0, <2>2, <2>3 DEF Ends
    <3>2. QED BY <3>1, <1>0, <2>2, <2>4 DEF Ends, Running, server
  <2>12. Elsewhere'
    <3>1. CASE home # "server"
      <4>1. e.type = "done"
        BY <1>0, <2>3, <3>1 DEF Elsewhere
      <4>2. Terminal(e) /\ Derive(view, e).cards = view.cards
        BY <1>0, <4>1 DEF Terminal, Derive, Views
      <4>3. QED BY <1>0, <2>2, <3>1, <4>2 DEF Elsewhere, server
    <3>2. CASE home = "server"
      BY <2>2, <3>2 DEF Elsewhere, server
    <3>3. QED BY <3>1, <3>2
  <2>7. Read'
    BY <1>0, <2>2 DEF Read, server
  <2>8. CardsTrue'
    <3>1. CASE e.type = "issue"
      <4>1. view'.cards = Append(view.cards, [dep |-> e.arg, pr |-> FALSE])
        BY <1>0, <2>2, <3>1, DeriveIssue
      <4>2. view.cards \in Seq(Card)
        BY <1>0 DEF Views
      <4>3. QED BY <1>0, <4>1, <4>2, <2>2 DEF CardsTrue, server
    <3>2. CASE e.type # "issue"
      <4>1. view.cards \in Seq(Card) /\ view'.cards \in Seq(Card)
        BY <1>0, <1>1 DEF Views, TypeOK
      <4>2. SUFFICES ASSUME NEW i \in DOMAIN view'.cards, view'.cards[i].pr
                     PROVE  emitted[view'.cards[i].dep] = "pr"
        BY <2>2 DEF CardsTrue, server
      <4>3. /\ i \in DOMAIN view.cards /\ view'.cards[i].dep = view.cards[i].dep
            /\ view.cards[i].pr \/ (e.type = "pr" /\ i = Len(view.cards))
        BY <1>0, <2>2, <3>2, <4>1, <4>2, DeriveOther
      <4>4. CASE e.type = "pr" /\ i = Len(view.cards)
        <5>1. LastIssue(view.cards, wire, 0, 0)
          BY <4>1, <4>3, <4>4 DEF LastIssue, IssueAt
        <5>2. emitted[DepAt(view.cards, wire, 0)] = "pr"
          BY <5>1, <4>4, <1>0, <2>3 DEF Announced
        <5>3. QED BY <5>2, <4>3, <4>4 DEF DepAt
      <4>5. QED BY <4>3, <4>4, <1>0 DEF CardsTrue
    <3>3. QED BY <3>1, <3>2
  <2>9. CASE Terminal(e)
    BY <1>1, <2>2, <2>5, <2>6, <2>7, <2>8, <2>9, <2>12 DEF IInv, Announced, Current
  <2>10. CASE ~Terminal(e)
    \* The places of the wire move down by one, and the issue that is received
    \* becomes the one at place 0.
    <3>1. ASSUME NEW n \in 0..(Len(wire) - 1), NEW j \in 0..n,
                 LastIssue(view'.cards, wire', j, n)
          PROVE  \E i \in 0..(n + 1) :
                   /\ LastIssue(view.cards, wire, i, n + 1)
                   /\ DepAt(view.cards, wire, i) = DepAt(view'.cards, wire', j)
      <4>1. \A k \in (j + 1)..n : wire[k + 1].type # "issue"
        BY <3>1, <2>2, <2>3, <2>10 DEF LastIssue
      <4>2. \A k \in (j + 2)..(n + 1) : wire[k].type # "issue"
        <5>1. SUFFICES ASSUME NEW k \in (j + 2)..(n + 1) PROVE wire[k].type # "issue"
          OBVIOUS
        <5>2. k - 1 \in (j + 1)..n /\ (k - 1) + 1 = k
          BY <3>1
        <5>3. QED BY <4>1, <5>2
      <4>3. CASE j # 0
        <5>1. wire'[j] = wire[j + 1]
          BY <3>1, <2>2, <2>3, <2>10, <4>3
        <5>2. LastIssue(view.cards, wire, j + 1, n + 1)
          BY <3>1, <4>2, <4>3, <5>1 DEF LastIssue, IssueAt
        <5>3. DepAt(view.cards, wire, j + 1) = DepAt(view'.cards, wire', j)
          BY <3>1, <4>3, <5>1 DEF DepAt
        <5>4. QED BY <3>1, <5>2, <5>3
      <4>4. CASE j = 0 /\ e.type = "issue"
        <5>1. view'.cards = Append(view.cards, [dep |-> e.arg, pr |-> FALSE])
          BY <1>0, <2>2, <4>4, DeriveIssue
        <5>2. view.cards \in Seq(Card) /\ [dep |-> e.arg, pr |-> FALSE] \in Card
          BY <1>0, <4>4 DEF Views, Card, Events
        <5>3. DepAt(view'.cards, wire', 0) = e.arg
          BY <5>1, <5>2 DEF DepAt
        <5>4. LastIssue(view.cards, wire, 1, n + 1)
          BY <3>1, <2>3, <4>2, <4>4 DEF LastIssue, IssueAt
        <5>5. DepAt(view.cards, wire, 1) = e.arg
          BY <2>3 DEF DepAt
        <5>6. QED BY <3>1, <4>4, <5>3, <5>4, <5>5
      <4>5. CASE j = 0 /\ e.type # "issue"
        <5>1. /\ view.cards \in Seq(Card) /\ view'.cards \in Seq(Card)
              /\ view'.cards # <<>>
          BY <1>0, <1>1, <3>1, <4>5 DEF Views, TypeOK, LastIssue, IssueAt
        <5>2. Len(view.cards) = Len(view'.cards) /\ view.cards # <<>>
          BY <1>0, <2>2, <4>5, <5>1, DeriveOther
        <5>3. DepAt(view.cards, wire, 0) = DepAt(view'.cards, wire', 0)
          BY <1>0, <2>2, <4>5, <5>1, <5>2, DeriveOther DEF DepAt
        <5>4. LastIssue(view.cards, wire, 0, n + 1)
          BY <3>1, <2>3, <4>2, <4>5, <5>2 DEF LastIssue, IssueAt
        <5>5. QED BY <3>1, <4>5, <5>3, <5>4
      <4>6. QED BY <4>3, <4>4, <4>5
    <3>2. DOMAIN wire' = 1..(Len(wire) - 1) /\ Len(wire') = Len(wire) - 1
      BY <1>0, <2>2, <2>3, <2>10
    <3>3. Announced'
      <4>1. SUFFICES ASSUME NEW i \in 1..(Len(wire) - 1), wire'[i].type = "pr",
                            NEW j \in 0..(i - 1),
                            LastIssue(view'.cards, wire', j, i - 1)
                     PROVE  emitted[DepAt(view'.cards, wire', j)] = "pr"
        BY <2>2, <3>2 DEF Announced, server
      <4>2. i - 1 \in 0..(Len(wire) - 1) /\ (i - 1) + 1 = i
        OBVIOUS
      <4>3. PICK k \in 0..i :
              /\ LastIssue(view.cards, wire, k, i)
              /\ DepAt(view.cards, wire, k) = DepAt(view'.cards, wire', j)
        BY <4>1, <4>2, <3>1
      <4>4. i + 1 \in DOMAIN wire /\ wire[i + 1].type = "pr" /\ (i + 1) - 1 = i
        BY <4>1, <2>2, <2>3, <2>10, <1>0
      <4>5. QED BY <4>3, <4>4, <1>0 DEF Announced
    <3>4. Current'
      <4>1. SUFFICES ASSUME stage = "running", cur # None,
                            NEW j \in 0..(Len(wire) - 1),
                            LastIssue(view'.cards, wire', j, Len(wire) - 1)
                     PROVE  DepAt(view'.cards, wire', j) = cur
        BY <2>2, <3>2 DEF Current, server
      <4>2. /\ Len(wire) - 1 \in 0..(Len(wire) - 1)
            /\ (Len(wire) - 1) + 1 = Len(wire)
        BY <2>3
      <4>3. PICK k \in 0..Len(wire) :
              /\ LastIssue(view.cards, wire, k, Len(wire))
              /\ DepAt(view.cards, wire, k) = DepAt(view'.cards, wire', j)
        BY <4>1, <4>2, <3>1
      <4>4. QED BY <4>1, <4>3, <2>2, <1>0 DEF Current
    <3>5. QED BY <1>1, <2>5, <2>6, <2>7, <2>8, <2>12, <3>3, <3>4 DEF IInv
  <2>11. QED BY <2>9, <2>10
<1>8. QED BY <1>2, <1>3, <1>4, <1>5, <1>6, <1>7 DEF Client

-----------------------------------------------------------------------------
(* The theorems *)

LEMMA InvInit == Init => IInv
<1> SUFFICES ASSUME Init PROVE IInv
  OBVIOUS
<1>2. wire = <<>> /\ view.cards = <<>> /\ view \in Views /\ snap \in Snaps
  BY EmptyViewType, NoSnapType DEF Init
<1>3. TypeOK
  <2>0. home \in {"server", "elsewhere"}
    BY ViewAssumption DEF Init
  <2>1. /\ stage \in {"running", "completing", "failing", "ended", "gone"}
        /\ row \in {None, "running", "completed", "failed", "cancelled"}
        /\ cur \in Deps \union {None} /\ step \in ToSet(Steps) \union {"DETECT"}
        /\ emitted \in [Deps -> Found] /\ saved \in [Deps -> Found]
    BY DEF Init, Found
  <2>2. /\ page \in {"away", "mounted"} /\ visits \in 0..MaxVisits
        /\ conn \in {"none", "connecting", "open", "closed"} /\ wire \in Seq(Events)
    BY <1>2, ViewAssumption DEF Init
  <2>3. /\ get \in {"none", "sent", "read", "back", "failed"}
        /\ {done, early, cancel, cancelling} \subseteq BOOLEAN
        /\ done = (get # "none")
    BY DEF Init
  <2>4. QED BY <1>2, <2>0, <2>1, <2>2, <2>3 DEF TypeOK
<1>4. Plain /\ Ends /\ Elsewhere /\ Read
  <2>1. Plain
    <3>1. done = (get # "none")
      BY DEF Init
    <3>2. QED BY <1>2, <3>1 DEF Init, Plain, NoSnap
  <2>2. QED BY <1>2, <2>1 DEF Init, Ends, Elsewhere, Read
<1>5. CardsTrue /\ Announced /\ Current
  BY <1>2 DEF Init, CardsTrue, Announced, Current
<1>6. QED BY <1>3, <1>4, <1>5 DEF IInv

LEMMA InvStutter ==
  ASSUME IInv, UNCHANGED viewVars
  PROVE  IInv'
<1>1. UNCHANGED <<server, cancel, client, wire>>
  BY DEF viewVars
<1>2. TypeOK'
  BY <1>1 DEF IInv, TypeOK, server, client
<1>3. Plain' /\ Ends' /\ Elsewhere' /\ Read' /\ CardsTrue'
  BY <1>1 DEF IInv, Plain, Ends, Elsewhere, Read, CardsTrue, Running, server, client
<1>4. Announced' /\ Current'
  BY <1>1 DEF IInv, Announced, Current, server, client
<1>5. QED BY <1>2, <1>3, <1>4 DEF IInv

LEMMA Invariance == Spec => []IInv
<1>1. IInv /\ [Next]_viewVars => IInv'
  BY ServerStep, ClientStep, InvStutter DEF Next
<1>2. QED BY <1>1, InvInit, PTL DEF Spec

\* Every variable of the page and of the runner as it sees it keeps its type:
\* in particular the view derived from any stream is a view (use-scan-view.ts).
THEOREM TypeCorrect == Spec => []TypeOK
<1>1. IInv => TypeOK
  BY DEF IInv
<1>2. QED BY <1>1, Invariance, PTL

\* Every card that is shown is true: of the rows, when the row is back, or of
\* the stream.
LEMMA CardsAreTrue ==
  ASSUME IInv, NEW c \in Cards
  PROVE  c.dep \in Deps /\ (c.pr => emitted[c.dep] = "pr")
<1>1. CASE Enriched # {}
  <2>1. PICK d \in Deps : get = "back" /\ c = [dep |-> d, pr |-> snap.saved[d] = "pr"]
    BY <1>1 DEF Cards, Enriched
  <2>2. QED BY <2>1 DEF IInv, Plain
<1>2. CASE Enriched = {}
  <2>1. view.cards \in Seq(Card)
    BY DEF IInv, TypeOK, Views
  <2>2. PICK i \in DOMAIN view.cards : c = view.cards[i]
    BY <1>2 DEF Cards, ToSet
  <2>3. c \in Card
    BY <2>1, <2>2
  <2>4. QED BY <2>2, <2>3 DEF IInv, CardsTrue, Card
<1>3. QED BY <1>1, <1>2

\* A card shows a draft pull request only when one was opened for its
\* dependency, although the event names none, for every queue of dependencies,
\* every lag of the stream and every moment at which a page opens, loses its
\* stream or is left (use-scan-view.ts, case 'pr'; page.tsx, pose).
THEOREM PullRequestsOnTheirCards == Spec => []PrOnItsCard
<1>1. ASSUME IInv PROVE PrOnItsCard
  <2>1. \A c \in Cards : c.pr => emitted[c.dep] = "pr"
    BY <1>1, CardsAreTrue
  <2>2. ASSUME Pose = "success" PROVE \E d \in Deps : emitted[d] = "pr"
    <3>1. PICK c \in Cards : c.pr
      BY <2>2 DEF Pose
    <3>2. QED BY <1>1, <3>1, CardsAreTrue
  <2>3. QED BY <2>1, <2>2 DEF PrOnItsCard
<1>2. QED BY <1>1, Invariance, PTL

\* When a page asks for the row of a scan that runs in the server, or reads a row
\* that is no longer "running", the runner has written its last issue: what the
\* page then shows is every row (runner.ts, the rows before the last event and
\* before the status; use-scan-view.ts, enrichment).
THEOREM FinishedPages == Spec => []SettledPageIsComplete
<1>1. ASSUME IInv PROVE SettledPageIsComplete
  <2>1. SUFFICES ASSUME get = "back", home = "server" \/ snap.row # "running",
                        NEW d \in Deps, saved[d] # "no"
                 PROVE  [dep |-> d, pr |-> saved[d] = "pr"] \in Cards
    BY DEF SettledPageIsComplete, AllShown
  <2>2. snap.saved = saved
    BY <1>1, <2>1 DEF IInv, Read
  <2>3. d \in Enriched
    BY <2>1, <2>2 DEF Enriched
  <2>4. QED BY <2>2, <2>3 DEF Cards
<1>2. QED BY <1>1, Invariance, PTL
=============================================================================
