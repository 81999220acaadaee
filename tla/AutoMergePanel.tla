--------------------------- MODULE AutoMergePanel ---------------------------
(***************************************************************************)
(* The auto-merge settings of a repository: the panel in which they are    *)
(* read and changed (components/automerge/AutoMergePanel.tsx) and the      *)
(* route that keeps them (api/repo-settings/[repoFullName]/route.ts).      *)
(*                                                                         *)
(* A save is one await of the route, which upserts the whole row; a load   *)
(* may be answered after a later one, since Enter loads again while one is *)
(* pending.  Floors and dwell times are named by a few values.             *)
(***************************************************************************)
EXTENDS Naturals, FiniteSets

CONSTANTS
    PanelRepos,   \* repositories whose name has the form owner/name
    Floors,       \* the confidence floors the slider offers
    MaxPanelSteps \* bounds the clicks of the user

DefaultFloor == 90
SchemaDefaults == [enabled |-> FALSE, floor |-> DefaultFloor]
NoForm == [repo |-> "none", enabled |-> FALSE, floor |-> DefaultFloor]

PanelAssumption == "none" \notin PanelRepos /\ MaxPanelSteps \in Nat

VARIABLES
    settings,  \* the RepoSetting rows: repository |-> row, NoRow when there is none
    picked,    \* repoFullName, the name in the input
    form,      \* setting, what the editor shows, or NoForm
    ack,       \* the acknowledgement box
    loads,     \* the pending GETs
    puts,      \* the pending PUTs, one at most: the button is disabled
    acked,     \* history: the repository shown when the box was ticked, since the
               \* last load, or "none"
    displaced, \* history: since then the answer of a save has replaced the editor
    clicks

panelVars == <<settings, picked, form, ack, loads, puts, acked, displaced, clicks>>

NoRow == [enabled |-> FALSE, floor |-> 0]
Row(r) == IF settings[r] = NoRow THEN SchemaDefaults ELSE settings[r]
Shown(r, row) == [repo |-> r, enabled |-> row.enabled, floor |-> row.floor]

PanelInit ==
    /\ settings = [r \in PanelRepos |-> NoRow]
    /\ picked = "none" /\ form = NoForm /\ ack = FALSE
    /\ loads = {} /\ puts = {} /\ acked = "none" /\ displaced = FALSE /\ clicks = 0

Click == clicks < MaxPanelSteps /\ clicks' = clicks + 1

-----------------------------------------------------------------------------
(* The panel *)

Pick(r) ==
    /\ Click /\ picked # r /\ picked' = r
    /\ UNCHANGED <<settings, form, ack, loads, puts, acked, displaced>>

\* handleLoad: the GET reads the row at once and is answered later.
Load ==
    /\ Click /\ picked # "none"
    /\ loads' = loads \cup {Shown(picked, Row(picked))}
    /\ UNCHANGED <<settings, picked, form, ack, puts, acked, displaced>>

\* "require fresh ack after each load".
BugKeepAck(a) == a
KeepAck(a) == FALSE

Loaded(answer) ==
    /\ form' = answer /\ ack' = KeepAck(ack)
    /\ acked' = "none" /\ displaced' = FALSE
    /\ loads' = loads \ {answer}
    /\ UNCHANGED <<settings, picked, puts, clicks>>

LoadFails(answer) ==
    /\ loads' = loads \ {answer}
    /\ UNCHANGED <<settings, picked, form, ack, puts, acked, displaced, clicks>>

Edit ==
    /\ Click /\ form # NoForm
    /\ \E on \in BOOLEAN, f \in Floors : form' = [form EXCEPT !.enabled = on, !.floor = f]
    /\ UNCHANGED <<settings, picked, ack, loads, puts, acked, displaced>>

\* The button that puts the defaults back into the editor.
Reset ==
    /\ Click /\ form # NoForm /\ puts = {}
    /\ form' = Shown(form.repo, SchemaDefaults)
    /\ UNCHANGED <<settings, picked, ack, loads, puts, acked, displaced>>

\* The box is shown for an enabled form only.
ToggleAck ==
    /\ Click /\ form.enabled
    /\ ack' = ~ack
    /\ acked' = IF ack THEN "none" ELSE form.repo
    /\ displaced' = FALSE
    /\ UNCHANGED <<settings, picked, form, loads, puts>>

\* handleSave: the row is named by the loaded setting, never by the input.
BugSaveTarget == picked
SaveTarget == form.repo

Save ==
    /\ Click /\ form # NoForm /\ puts = {}
    /\ form.enabled => ack
    /\ puts' = {[target |-> SaveTarget, from |-> form, acked |-> acked,
                 displaced |-> displaced]}
    /\ UNCHANGED <<settings, picked, form, ack, loads, acked, displaced>>

-----------------------------------------------------------------------------
(* The route *)

\* PUT upserts the whole row; the answer replaces what the editor shows, also
\* when the user went on editing or has loaded another repository meanwhile.
Put(p) ==
    /\ settings' = [settings EXCEPT ![p.target] = [enabled |-> p.from.enabled, floor |-> p.from.floor]]
    /\ form' = Shown(p.target, p.from)
    /\ puts' = {}
    /\ displaced' = (displaced \/ acked # "none")
    /\ UNCHANGED <<picked, ack, loads, acked, clicks>>

\* The rate limit, an invalid body, a rejected write.
PutFails(p) ==
    /\ puts' = {}
    /\ UNCHANGED <<settings, picked, form, ack, loads, acked, displaced, clicks>>

PanelNext ==
    \/ \E r \in PanelRepos : Pick(r)
    \/ Load \/ Edit \/ Reset \/ ToggleAck \/ Save
    \/ \E l \in loads : Loaded(l) \/ LoadFails(l)
    \/ \E p \in puts : Put(p) \/ PutFails(p)

-----------------------------------------------------------------------------
(* Properties *)

\* However loads, edits and saves overlap, a save that turns auto-merge on
\* was acknowledged after the last load came in, and for the repository it
\* writes unless the answer of an earlier save has replaced the editor since;
\* and it writes the row of the repository whose settings the user saw, never
\* that of the name typed since.
SavesAreAcknowledged == \A p \in puts :
    /\ p.target = p.from.repo
    /\ p.from.enabled => p.acked # "none" /\ (p.acked = p.target \/ p.displaced)

\* The same without the exception ("the user MUST type the repo name + tick the
\* acknowledgement + click Save before anything changes server-side").  Not true
\* of the code: the answer of a save puts its repository back into the editor
\* and leaves the tick given for another one.
EnablingIsMeant == \A p \in puts : p.from.enabled => p.acked = p.target
=============================================================================
