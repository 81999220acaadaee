------------------------------ MODULE ScanView ------------------------------
(***************************************************************************)
(* The page of one scan: hooks/use-scan-stream.ts, hooks/use-scan-view.ts  *)
(* and the state of app/(app)/scan/[id]/page.tsx, over the event stream of *)
(* api/scans/[id]/stream and the row read by GET api/scans/[id].           *)
(*                                                                         *)
(* The runner is reduced to what reaches the page: the events it emits, in *)
(* their order, and the writes to the Scan and Issue rows between them.    *)
(* The page opens at any moment, may lose its stream, may leave and come   *)
(* back.  Log lines, timings and layout are left out.                      *)
(***************************************************************************)
EXTENDS Naturals, Sequences, SequencesExt

CONSTANTS
    Queue,      \* the stale dependencies the scan works through, in its order
    MaxVisits,  \* bound: how often the page is opened
    MaxLag,     \* bound: events on their way to the page
    Failures,   \* subset of {"network", "database"}
    Homes,      \* the processes that may run the scan: "server", "elsewhere"
    None

Deps == ToSet(Queue)

ASSUME ViewAssumption ==
    /\ MaxVisits \in Nat /\ MaxLag \in Nat \ {0}
    /\ Failures \subseteq {"network", "database"}
    /\ Homes \subseteq {"server", "elsewhere"}
    /\ None \notin Deps /\ None \notin {"running", "completed", "failed", "cancelled"}

VARIABLES
    home,     \* of runScan: the server, or the monitor worker or the MCP server
    stage,    \* of runScan: "running", "completing", "failing", "ended", "gone"
    row,      \* Scan.status, None when no row has this id
    cur,      \* the dependency being worked on
    step,     \* the phase it has reached
    emitted,  \* the issue and pr events emitted so far, per dependency
    saved,    \* the Issue rows, per dependency
    cancel,   \* the cancel flag of the runner
    page,     \* "away" or "mounted"
    visits,
    conn,     \* the current EventSource: "none", "connecting", "open", "closed"
    wire,     \* events sent to it and not yet delivered
    view,     \* useScanView: what it has derived from the entries received
    done,     \* useScanStream: done
    get,      \* the GET made when done: "none", "sent", "read", "back", "failed"
    snap,     \* what the server read for it
    early,    \* history: the page subscribed before the terminal event
    cancelling

server == <<home, stage, row, cur, step, emitted, saved>>
client == <<page, visits, conn, view, done, get, snap, early, cancelling>>
viewVars == <<server, cancel, client, wire>>

-----------------------------------------------------------------------------
(* Types *)

Event(t, x) == [type |-> t, arg |-> x]

\* The events that end a stream.  Mutant: an error does not.
BugTerminal(e) == e.type = "done"
Terminal(e) == e.type \in {"done", "error"}

Steps == <<"issue", "DIAGNOSE", "PATCH", "VERIFY", "SUBMIT", "save">>
Found == {"no", "found", "pr"}

\* getScanEmitter finds it in the process of the runner only.
Emitter == home = "server" /\ stage \in {"running", "completing", "failing", "ended"}

NoSnap == [row |-> None, saved |-> [d \in Deps |-> "no"]]

-----------------------------------------------------------------------------
(* The view model: a fold over the entries, replaced by the row when the   *)
(* stream had nothing to show.  The code folds anew over all entries when  *)
(* one is added; as it only ever adds one at the end, that is one more     *)
(* step of the fold, from the view that the entries before it gave.        *)

PhaseMap(p) == CASE p = "DETECT" -> "SCAN"
                 [] p = "SUBMIT" -> "VERIFY"
                 [] OTHER -> p

\* The card an event 'pr', which names no dependency, goes to: the last one.
\* Mutant: the first one.
BugPrCard(cards) == 1
PrCard(cards) == Len(cards)

Derive(v, e) ==
    CASE e.type = "phase" -> [v EXCEPT !.phase = PhaseMap(e.arg)]
      [] e.type = "issue" -> [v EXCEPT !.cards = Append(@, [dep |-> e.arg, pr |-> FALSE]),
                                       !.active = e.arg]
      [] e.type = "pr" /\ v.cards # <<>> -> [v EXCEPT !.cards[PrCard(v.cards)].pr = TRUE]
      [] e.type = "done" -> [v EXCEPT !.phase = "DONE"]
      [] e.type = "error" -> [v EXCEPT !.phase = "ERROR"]
      [] OTHER -> v

EmptyView == [phase |-> "SCAN", cards |-> <<>>, active |-> None]

\* The rows the completed GET has brought, as cards; they replace the derived
\* ones when there are any.
Enriched == IF get = "back" THEN {d \in Deps : snap.saved[d] # "no"} ELSE {}

\* Mutant: what the stream showed is kept.
BugCards ==
    IF view.cards # <<>> THEN ToSet(view.cards)
    ELSE {[dep |-> d, pr |-> snap.saved[d] = "pr"] : d \in Enriched}

Cards ==
    IF Enriched # {}
    THEN {[dep |-> d, pr |-> snap.saved[d] = "pr"] : d \in Enriched}
    ELSE ToSet(view.cards)

IsPlayback == done /\ view.cards = <<>>

PlaybackPhase == IF get = "back" /\ snap.row \in {"failed", "cancelled"}
                 THEN "ERROR" ELSE "DONE"

Phase == IF IsPlayback THEN PlaybackPhase ELSE view.phase

ActiveNode == IF IsPlayback THEN None ELSE view.active

\* page.tsx: Bones celebrates a finished scan only when a pull request opened.
Pose == CASE Phase = "DONE" -> IF \E c \in Cards : c.pr THEN "success" ELSE "idle"
          [] Phase = "ERROR" -> "error"
          [] OTHER -> "working"

-----------------------------------------------------------------------------
(* The runner, as far as the page sees it *)

\* The rows a page may be opened for: none, one that is being scanned, and one
\* whose process has died (its emitter is gone, its status is not terminal).
Init ==
    /\ home \in Homes
    /\ \/ stage = "running" /\ row = "running"
       \/ stage = "gone" /\ row \in {None, "running"}
    /\ cur = None /\ step = "DETECT"
    /\ emitted = [d \in Deps |-> "no"]
    /\ saved = [d \in Deps |-> "no"]
    /\ cancel = FALSE
    /\ page = "away" /\ visits = 0
    /\ conn = "none" /\ wire = <<>> /\ view = EmptyView
    /\ done = FALSE /\ get = "none" /\ snap = NoSnap
    /\ early = FALSE /\ cancelling = FALSE

\* emitter.emit calls every subscriber; a stream that is not open misses it, and
\* so does every stream of the server when the runner is elsewhere.
Emit(e) ==
    \/ /\ home = "server" /\ conn = "open"
       /\ Len(wire) < MaxLag
       /\ wire' = Append(wire, e)
    \/ ~(home = "server" /\ conn = "open") /\ wire' = wire

\* The next dependency is announced.
EmitIssue(d) ==
    /\ stage = "running" /\ cur = None /\ ~cancel
    /\ \E i \in DOMAIN Queue :
         /\ d = Queue[i] /\ emitted[d] = "no"
         /\ \A j \in 1..(i - 1) : emitted[Queue[j]] # "no"
    /\ cur' = d /\ step' = "issue"
    /\ emitted' = [emitted EXCEPT ![d] = "found"]
    /\ Emit(Event("issue", d))
    /\ UNCHANGED <<home, stage, row, saved, cancel, client>>

\* The phases of a dependency in their order.
EmitPhase ==
    /\ stage = "running" /\ cur # None
    /\ \E i \in 1..4 :
         /\ step = Steps[i]
         /\ step' = Steps[i + 1]
         /\ Emit(Event("phase", Steps[i + 1]))
    /\ UNCHANGED <<home, stage, row, cur, emitted, saved, cancel, client>>

EmitPr ==
    /\ stage = "running" /\ cur # None /\ step = "SUBMIT"
    /\ emitted[cur] = "found"
    /\ emitted' = [emitted EXCEPT ![cur] = "pr"]
    /\ Emit(Event("pr", None))
    /\ UNCHANGED <<home, stage, row, cur, step, saved, cancel, client>>

\* db.issue.create; a rejected write is logged and the loop goes on.
\* A patch that failed early leaves the loop without a row.
SaveIssue ==
    /\ stage = "running" /\ cur # None /\ step = "SUBMIT"
    /\ \/ saved' = [saved EXCEPT ![cur] = emitted[cur]]
       \/ "database" \in Failures /\ saved' = saved
    /\ cur' = None /\ step' = "DETECT"
    /\ UNCHANGED <<home, stage, row, emitted, cancel, client, wire>>

\* The normal end: the row first, the event after it.
Complete ==
    /\ stage = "running" /\ cur = None
    /\ row' = "completed" /\ stage' = "completing"
    /\ UNCHANGED <<home, cur, step, emitted, saved, cancel, client, wire>>

EmitDone ==
    /\ stage = "completing"
    /\ stage' = "ended"
    /\ Emit(Event("done", None))
    /\ UNCHANGED <<home, row, cur, step, emitted, saved, cancel, client>>

\* A failure or a cancel: the event first, the row after it.
EmitError ==
    /\ stage = "running"
    /\ stage' = "failing"
    /\ Emit(Event("error", None))
    /\ UNCHANGED <<home, row, cur, step, emitted, saved, cancel, client>>

SaveFailure ==
    /\ stage = "failing"
    /\ stage' = "ended"
    /\ \/ row' = IF cancel THEN "cancelled" ELSE "failed"
       \/ "database" \in Failures /\ row' = row
    /\ UNCHANGED <<home, cur, step, emitted, saved, cancel, client, wire>>

\* Thirty seconds later the emitter leaves the map; subscribers keep theirs.
Release ==
    /\ stage = "ended" /\ stage' = "gone"
    /\ UNCHANGED <<home, row, cur, step, emitted, saved, cancel, client, wire>>

Server ==
    \/ \E d \in Deps : EmitIssue(d)
    \/ EmitPhase \/ EmitPr \/ SaveIssue
    \/ Complete \/ EmitDone \/ EmitError \/ SaveFailure \/ Release

-----------------------------------------------------------------------------
(* The page *)

Open ==
    /\ page = "away" /\ visits < MaxVisits
    /\ page' = "mounted" /\ visits' = visits + 1
    /\ conn' = "connecting" /\ wire' = <<>> /\ view' = EmptyView
    /\ done' = FALSE /\ get' = "none" /\ snap' = NoSnap
    /\ early' = FALSE /\ cancelling' = FALSE
    /\ UNCHANGED <<server, cancel>>

\* GET stream: with an emitter the request subscribes to it, and nothing that
\* was emitted before is sent; without one it answers with a synthetic done.
Accept ==
    /\ conn = "connecting" /\ conn' = "open"
    /\ wire' = IF Emitter THEN <<>> ELSE <<Event("done", None)>>
    /\ early' = (early \/ (~done /\ Emitter /\ stage \in {"running", "completing"}))
    /\ UNCHANGED <<server, cancel, page, visits, view, done, get, snap, cancelling>>

\* onmessage.  The first terminal event sets done, which both effects depend
\* on: the stream is opened anew and the row is fetched.
Receive ==
    /\ conn = "open" /\ wire # <<>>
    /\ LET e == Head(wire) IN
         /\ view' = Derive(view, e)
         /\ done' = (done \/ Terminal(e))
         /\ conn' = CASE ~Terminal(e) -> "open"
                      [] Terminal(e) /\ done -> "closed"
                      [] OTHER -> "connecting"
         /\ wire' = IF Terminal(e) THEN <<>> ELSE Tail(wire)
         /\ get' = IF Terminal(e) /\ ~done THEN "sent" ELSE get
    /\ UNCHANGED <<server, cancel, page, visits, snap, early, cancelling>>

\* onerror closes the source for good.
StreamError ==
    /\ "network" \in Failures
    /\ conn \in {"connecting", "open"}
    /\ conn' = "closed" /\ wire' = <<>>
    /\ early' = FALSE
    /\ UNCHANGED <<server, cancel, page, visits, view, done, get, snap, cancelling>>

\* GET api/scans/[id] reads the Scan row and its Issue rows in one query.
GetRead ==
    /\ get = "sent" /\ row # None
    /\ get' = "read"
    /\ snap' = [row |-> row, saved |-> saved]
    /\ UNCHANGED <<server, cancel, page, visits, conn, wire, view, done, early, cancelling>>

\* An unknown id is answered with 404; the call of notFound throws inside the
\* promise and ends in its catch, as every failure of the request does.
GetFail ==
    /\ \/ get = "sent" /\ row = None
       \/ get \in {"sent", "read"} /\ "network" \in Failures
    /\ get' = "failed"
    /\ UNCHANGED <<server, cancel, page, visits, conn, wire, view, done, snap, early, cancelling>>

GetBack ==
    /\ get = "read" /\ get' = "back"
    /\ UNCHANGED <<server, cancel, page, visits, conn, wire, view, done, snap, early, cancelling>>

\* F2: the request of the cancel button and the answer of requestCancel.
CancelClick ==
    /\ page = "mounted" /\ ~done /\ ~cancelling
    /\ cancelling' = TRUE
    /\ UNCHANGED <<server, cancel, wire, page, visits, conn, view, done, get, snap, early>>

CancelAnswer ==
    /\ cancelling /\ cancelling' = FALSE
    /\ cancel' = (cancel \/ Emitter)
    /\ UNCHANGED <<server, wire, page, visits, conn, view, done, get, snap, early>>

\* Unmounting closes the stream and drops the answers still to come.
Leave ==
    /\ page = "mounted" /\ page' = "away"
    /\ conn' = "none" /\ wire' = <<>> /\ view' = EmptyView
    /\ done' = FALSE /\ get' = "none" /\ snap' = NoSnap
    /\ early' = FALSE /\ cancelling' = FALSE
    /\ UNCHANGED <<server, cancel, visits>>

Client ==
    \/ Open \/ Accept \/ Receive \/ StreamError
    \/ GetRead \/ GetFail \/ GetBack
    \/ CancelClick \/ CancelAnswer \/ Leave

Next == Server \/ Client

Spec == Init /\ [][Next]_viewVars

\* The runner comes to an end (ScanRunner proves it), requests are answered and
\* events delivered; nobody has to open the page, to leave it or to cancel.
Fairness ==
    /\ WF_viewVars(Server)
    /\ WF_viewVars(Accept) /\ WF_viewVars(Receive)
    /\ WF_viewVars(GetRead \/ GetFail) /\ WF_viewVars(GetBack)

FairSpec == Spec /\ Fairness

-----------------------------------------------------------------------------
(* Properties *)

Events == [type : {"issue"}, arg : Deps]
          \union [type : {"phase"}, arg : ToSet(Steps)]
          \union [type : {"pr", "done", "error"}, arg : {None}]

Card == [dep : Deps, pr : BOOLEAN]

Views == [phase : {"SCAN", "DONE", "ERROR"} \union ToSet(Steps),
          cards : Seq(Card), active : Deps \union {None}]

Snaps == [row : {None, "running", "completed", "failed", "cancelled"},
          saved : [Deps -> Found]]

TypeOK ==
    /\ home \in {"server", "elsewhere"}
    /\ stage \in {"running", "completing", "failing", "ended", "gone"}
    /\ row \in {None, "running", "completed", "failed", "cancelled"}
    /\ cur \in Deps \union {None} /\ step \in ToSet(Steps) \union {"DETECT"}
    /\ emitted \in [Deps -> Found] /\ saved \in [Deps -> Found]
    /\ page \in {"away", "mounted"} /\ visits \in 0..MaxVisits
    /\ conn \in {"none", "connecting", "open", "closed"} /\ wire \in Seq(Events)
    /\ view \in Views /\ snap \in Snaps
    /\ get \in {"none", "sent", "read", "back", "failed"}
    /\ {done, early, cancel, cancelling} \subseteq BOOLEAN
    /\ done = (get # "none")

\* A card shows a draft pull request only when one was opened for that very
\* dependency, although the event does not say for which, and the mascot
\* celebrates only then (use-scan-view.ts, case 'pr'; page.tsx, pose).
PrOnItsCard ==
    /\ \A c \in Cards : c.pr => emitted[c.dep] = "pr"
    /\ Pose = "success" => \E d \in Deps : emitted[d] = "pr"

AllShown ==
    \A d \in Deps : saved[d] # "no" =>
      [dep |-> d, pr |-> saved[d] = "pr"] \in Cards

\* Once the GET made at the end is back, the page shows every Issue row there
\* will ever be for the scan, with its pull request, whenever it was opened, if
\* the scan runs in the server or is over when the row is read: the runner has
\* written all of them before its last event and before its row.
SettledPageIsComplete ==
    get = "back" /\ (home = "server" \/ snap.row # "running") => AllShown

\* The same without the condition: a page that is told that the scan is done
\* reads a row that is ("Scan already done or doesn't exist").  Not true of the
\* code: to the server a scan of another process that runs is not active.
FinishedPageIsComplete == get = "back" => AllShown

\* Not true of the code: the page of a failed scan shows its failure
\* (use-scan-view.ts, "a persisted failed/cancelled scan must render ERROR, not
\* DONE").  The runner sends the error before it writes the row, and the page
\* reads the row once, as soon as the error has ended its stream.
FailedRendersError ==
    get = "back" /\ row \in {"failed", "cancelled"} => Phase # "DONE"

\* A page that subscribed before the scan's terminal event, and neither loses
\* its stream nor is left, stops saying "live".
EarlyPageSettles == early /\ ~done ~> (done \/ ~early)
=============================================================================
