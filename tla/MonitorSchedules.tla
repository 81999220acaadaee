-------------------------- MODULE MonitorSchedules --------------------------
(***************************************************************************)
(* The schedule of one repository: the route that keeps it                 *)
(* (api/monitor-schedules/[repoFullName]/route.ts) and the panels in which *)
(* it is edited (components/monitor/MonitorPanel.tsx), one per browser tab.*)
(*                                                                         *)
(* PUT reads the row and writes it in two awaits, without a transaction.   *)
(***************************************************************************)
EXTENDS Naturals, FiniteSets

CONSTANTS
    Tabs,
    Pats,             \* the tokens a user may type
    MaxScheduleSteps  \* bounds the clicks

NoPat == "no pat"
NoSchedule == [enabled |-> FALSE, pat |-> NoPat]

ScheduleAssumption == NoPat \notin Pats /\ MaxScheduleSteps \in Nat

VARIABLES
    schedule,  \* the MonitorSchedule row; NoSchedule: there is none
    tab,       \* tab |-> what its panel shows
    call,      \* tab |-> its request to the route, or Quiet
    moves

scheduleVars == <<schedule, tab, call, moves>>

Quiet == [step |-> "none", pat |-> NoPat, enabled |-> FALSE]
EmptyTab == [loaded |-> FALSE, exists |-> FALSE, enabled |-> FALSE, ack |-> FALSE, pat |-> NoPat]

ScheduleInit ==
    /\ schedule = NoSchedule
    /\ tab = [t \in Tabs |-> EmptyTab]
    /\ call = [t \in Tabs |-> Quiet]
    /\ moves = 0

Move == moves < MaxScheduleSteps /\ moves' = moves + 1
Exists == schedule.pat # NoPat

-----------------------------------------------------------------------------
(* The panel *)

\* handleLoad: the box and the typed token are cleared once the row is there.
OpenTab(t) ==
    /\ Move
    /\ tab' = [tab EXCEPT ![t] =
         [loaded |-> TRUE, exists |-> Exists, enabled |-> schedule.enabled,
          ack |-> FALSE, pat |-> NoPat]]
    /\ UNCHANGED <<schedule, call>>

EditTab(t) ==
    /\ Move /\ tab[t].loaded
    /\ \E on, acked \in BOOLEAN, p \in Pats \cup {NoPat} :
         /\ acked => on
         /\ tab' = [tab EXCEPT ![t].enabled = on, ![t].ack = acked, ![t].pat = p]
    /\ UNCHANGED <<schedule, call>>

\* handleSave and its early returns.
SaveTab(t) ==
    /\ Move /\ tab[t].loaded /\ call[t] = Quiet
    /\ tab[t].enabled => tab[t].ack
    /\ tab[t].exists \/ tab[t].pat # NoPat
    /\ call' = [call EXCEPT ![t] =
         [step |-> "find", pat |-> tab[t].pat, enabled |-> tab[t].enabled]]
    /\ UNCHANGED <<schedule, tab>>

\* handleDelete, confirmed: the panel falls back to the defaults, and the token
\* that was typed stays in it.
DeleteTab(t) ==
    /\ Move /\ tab[t].loaded /\ tab[t].exists /\ call[t] = Quiet
    /\ call' = [call EXCEPT ![t] = [Quiet EXCEPT !.step = "delete"]]
    /\ UNCHANGED <<schedule, tab>>

-----------------------------------------------------------------------------
(* The route *)

\* The panel of another tab may have deleted the row it believes to exist.
BugNeedsPat(c) == FALSE
NeedsPat(c) == ~Exists /\ c.pat = NoPat

\* PUT, first await.  The ciphertext it goes on with is the typed token or the
\* stored one.
FindUnique(t) ==
    LET c == call[t]
        token == IF c.pat # NoPat THEN c.pat ELSE schedule.pat IN
    /\ c.step = "find"
    /\ call' = [call EXCEPT ![t] =
         IF NeedsPat(c) THEN [c EXCEPT !.step = "refused"]
         ELSE [c EXCEPT !.step = "upsert", !.pat = token]]
    /\ UNCHANGED <<schedule, tab, moves>>

\* PUT, second await, with the token of the first: what another tab stored or
\* deleted in between is overwritten.  The answer wipes the typed token.
Upsert(t) ==
    /\ call[t].step = "upsert"
    /\ schedule' = [enabled |-> call[t].enabled, pat |-> call[t].pat]
    /\ tab' = [tab EXCEPT ![t].exists = TRUE, ![t].enabled = call[t].enabled, ![t].pat = NoPat]
    /\ call' = [call EXCEPT ![t] = Quiet]
    /\ UNCHANGED moves

DeleteMany(t) ==
    /\ call[t].step = "delete"
    /\ schedule' = NoSchedule
    /\ tab' = [tab EXCEPT ![t] = [EmptyTab EXCEPT !.loaded = TRUE, !.pat = tab[t].pat]]
    /\ call' = [call EXCEPT ![t] = Quiet]
    /\ UNCHANGED moves

\* A refusal, the rate limit or a rejected query: the panel shows an error and
\* keeps what was typed.
CallFails(t) ==
    /\ call[t] # Quiet
    /\ call' = [call EXCEPT ![t] = Quiet]
    /\ UNCHANGED <<schedule, tab, moves>>

ScheduleNext == \E t \in Tabs :
    \/ OpenTab(t) \/ EditTab(t) \/ SaveTab(t) \/ DeleteTab(t)
    \/ FindUnique(t) \/ Upsert(t) \/ DeleteMany(t) \/ CallFails(t)

-----------------------------------------------------------------------------
(* Properties *)

\* Whatever the tabs read, write and delete between one another's awaits, no
\* write is under way, and so no schedule is ever stored, without a token to
\* fire with: its decryption would fail in the worker.
SchedulesCanFire ==
    /\ schedule.enabled => schedule.pat \in Pats
    /\ \A t \in Tabs : call[t].step = "upsert" => call[t].pat \in Pats
=============================================================================
