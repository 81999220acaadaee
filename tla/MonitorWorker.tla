--------------------------- MODULE MonitorWorker ---------------------------
(***************************************************************************)
(* The continuous-monitor worker: worker/monitor.ts with the policy of     *)
(* lib/agent/monitor/scheduler.ts and the route through which the user     *)
(* edits schedules (app/api/monitor-schedules).                            *)
(*                                                                         *)
(* A fire is one call of handleFire, started by the cron task of a         *)
(* schedule; node-cron does not wait for the previous call, so fires of    *)
(* one schedule may overlap.  pc[f] names the await fire f is suspended    *)
(* at.  The route runs in another process: it changes rows, never the      *)
(* worker's tasks.  Time is counted in the minutes of cron.                *)
(***************************************************************************)
EXTENDS Naturals, FiniteSets

CONSTANTS
  Repos,         \* repositories that may have a MonitorSchedule row
  Fires,         \* the calls of handleFire a behaviour may contain
  MaxConcurrent, \* MAX_CONCURRENT_SCANS
  MinGap,        \* MIN_GAP_SECONDS, in the unit of now
  MaxTime,       \* bound on the clock
  Disturbances,  \* what else may happen, see below
  None           \* no row, no time, no repository

AllDisturbances ==
  { "db",      \* a database operation of the worker rejects
    "key",     \* a stored token cannot be decrypted
    "delete",  \* the user deletes a schedule
    "stop" }   \* the worker is stopped by a signal

ASSUME FiresAssumption == IsFiniteSet(Fires)
ASSUME LimitsAssumption == /\ MaxConcurrent \in Nat \ {0}
                           /\ MinGap \in Nat
                           /\ MaxTime \in Nat
ASSUME DisturbancesAssumption == Disturbances \subseteq AllDisturbances
ASSUME NoneAssumption ==
  None \notin Repos \union Nat \union
              [enabled : BOOLEAN, lastFired : Nat \union {None},
               lastError : BOOLEAN]

VARIABLES
  rows,       \* the MonitorSchedule rows
  logged,     \* fires with a monitor.fire row in AgentLog
  alarms,     \* fires with a monitor.error row in AgentLog
  up,         \* the worker process runs
  tasks,      \* keys of the global map tasks
  inFlight,   \* the global inFlightCount
  now,        \* the clock
  pc,         \* where a fire is suspended
  repo,       \* its schedule
  seen,       \* the row findUnique returned to it
  triggered,  \* when cron started it
  launched,   \* when it was allowed to fire
  recorded    \* when its success was written to the row, while that exists

dbVars     == <<rows, logged, alarms>>
workerVars == <<up, tasks, inFlight>>
fireVars   == <<repo, seen, triggered, launched, recorded>>
vars       == <<dbVars, workerVars, now, pc, fireVars>>

Time == Nat \union {None}
Row  == [enabled : BOOLEAN, lastFired : Time, lastError : BOOLEAN]

Holding == {"startlog", "creating", "scanning", "recording", "failing", "erring"}
Open    == {"reading", "deciding", "skiplog"} \union Holding
PCs     == {"none", "over", "rejected", "leaked", "dead"} \union Open

\* A fire is "over" when its call has returned, "rejected" when it rejected
\* before it took a slot (the cron callback prints that), "leaked" when it did
\* so with one, "dead" when the process ended.

\* Fires that hold a slot, and those that can no longer give theirs back.
Holders == {f \in Fires : pc[f] \in Holding}
Leaked  == {f \in Fires : pc[f] = "leaked"}

TypeOK ==
  /\ rows \in [Repos -> Row \union {None}]
  /\ logged \subseteq Fires
  /\ alarms \subseteq Fires
  /\ up \in BOOLEAN
  /\ tasks \subseteq Repos
  /\ inFlight \in Nat
  /\ now \in Nat
  /\ pc \in [Fires -> PCs]
  /\ repo \in [Fires -> Repos \union {None}]
  /\ seen \in [Fires -> Row \union {None}]
  /\ \A f \in Fires : pc[f] \in Open => repo[f] \in Repos
  /\ \A f \in Fires : pc[f] \in Open \ {"reading"} => seen[f] \in Row
  /\ triggered \in [Fires -> Time]
  /\ launched \in [Fires -> Time]
  /\ recorded \in [Fires -> Time]

Init ==
  /\ rows = [r \in Repos |-> None]
  /\ logged = {}
  /\ alarms = {}
  /\ up = FALSE
  /\ tasks = {}
  /\ inFlight = 0
  /\ now = 0
  /\ pc = [f \in Fires |-> "none"]
  /\ repo = [f \in Fires |-> None]
  /\ seen = [f \in Fires |-> None]
  /\ triggered = [f \in Fires |-> None]
  /\ launched = [f \in Fires |-> None]
  /\ recorded = [f \in Fires |-> None]
-----------------------------------------------------------------------------
(***************************************************************************)
(* Helpers.                                                                *)
(***************************************************************************)
Goto(f, from, to) == /\ pc[f] = from
                     /\ pc' = [pc EXCEPT ![f] = to]

MayReject == "db" \in Disturbances

\* decideFire off by one: the gap is over one unit too early.
BugShouldFire(row) ==
  /\ row.enabled
  /\ inFlight < MaxConcurrent
  /\ row.lastFired # None => now + 1 >= row.lastFired + MinGap

\* decideFire: enabled, below the cap and, if it has fired, long enough ago.
ShouldFire(row) ==
  /\ row.enabled
  /\ inFlight < MaxConcurrent
  /\ row.lastFired # None => now >= row.lastFired + MinGap

\* Give the slot back only on success.
BugReleaseSlot(f) ==
  inFlight' = IF pc[f] = "recording" THEN inFlight - 1 ELSE inFlight

\* The finally block of handleFire.
ReleaseSlot(f) == inFlight' = inFlight - 1
-----------------------------------------------------------------------------
(***************************************************************************)
(* Broken variants of the actions below; none is part of Next.             *)
(***************************************************************************)

\* The fire does not take a slot.
BugLaunch(f) ==
  /\ Goto(f, "deciding", "startlog")
  /\ ShouldFire(seen[f])
  /\ launched' = [launched EXCEPT ![f] = now]
  /\ UNCHANGED <<dbVars, workerVars, now, repo, seen, triggered, recorded>>

\* A skipped fire leaves no trace.
BugSkip(f) ==
  /\ Goto(f, "deciding", "over")
  /\ ~ShouldFire(seen[f])
  /\ UNCHANGED <<dbVars, workerVars, now, fireVars>>

\* The scan starts although its log row was not written.
BugLogStart(f) ==
  /\ Goto(f, "startlog", "creating")
  /\ \/ logged' = logged \union {f}
     \/ MayReject /\ UNCHANGED logged
  /\ UNCHANGED <<rows, alarms, workerVars, now, fireVars>>

\* A success that cannot be recorded is tried again for ever.
BugRecordRejected(f) ==
  /\ pc[f] = "recording"
  /\ MayReject \/ rows[repo[f]] = None
  /\ UNCHANGED vars
-----------------------------------------------------------------------------
(***************************************************************************)
(* The worker process and its surroundings.                                *)
(***************************************************************************)

\* startMonitorWorker: one cron task for every enabled row.  All the schedules
\* the route accepts have a cron expression validateCronExpression accepts.
Start ==
  /\ ~up
  /\ up' = TRUE
  /\ tasks' = {r \in Repos : rows[r] # None /\ rows[r].enabled}
  /\ UNCHANGED <<dbVars, inFlight, now, pc, fireVars>>

\* SIGTERM: shutdown stops the tasks and the process exits at once.
Stop ==
  /\ "stop" \in Disturbances
  /\ up
  /\ up' = FALSE
  /\ tasks' = {}
  /\ inFlight' = 0
  /\ pc' = [f \in Fires |-> IF pc[f] \in Open \union {"leaked"}
                         THEN "dead" ELSE pc[f]]
  /\ UNCHANGED <<dbVars, now, fireVars>>

Tick ==
  /\ now < MaxTime
  /\ now' = now + 1
  /\ UNCHANGED <<dbVars, workerVars, pc, fireVars>>

\* PUT: the schedule is created or changed; lastFiredAt and lastError stay.
PutSchedule(r, on) ==
  /\ rows' = [rows EXCEPT ![r] =
                IF rows[r] = None
                THEN [enabled |-> on, lastFired |-> None, lastError |-> FALSE]
                ELSE [@ EXCEPT !.enabled = on]]
  /\ UNCHANGED <<logged, alarms, workerVars, now, pc, fireVars>>

DeleteSchedule(r) ==
  /\ "delete" \in Disturbances
  /\ rows' = [rows EXCEPT ![r] = None]
  /\ recorded' = [f \in Fires |-> IF repo[f] = r THEN None ELSE recorded[f]]
  /\ UNCHANGED <<logged, alarms, workerVars, now, pc, repo, seen,
                 triggered, launched>>
-----------------------------------------------------------------------------
(***************************************************************************)
(* handleFire.                                                             *)
(***************************************************************************)

\* The cron task of a schedule runs its callback, at most once a minute.
Trigger(f, r) ==
  /\ up /\ r \in tasks
  /\ \A g \in Fires : repo[g] = r => triggered[g] # now
  /\ Goto(f, "none", "reading")
  /\ repo' = [repo EXCEPT ![f] = r]
  /\ triggered' = [triggered EXCEPT ![f] = now]
  /\ UNCHANGED <<dbVars, workerVars, now, seen, launched, recorded>>

\* findUnique; without a row the fire is over.
ReadRow(f) ==
  /\ pc[f] = "reading"
  /\ \/ /\ rows[repo[f]] # None
        /\ pc' = [pc EXCEPT ![f] = "deciding"]
        /\ seen' = [seen EXCEPT ![f] = rows[repo[f]]]
     \/ /\ rows[repo[f]] = None
        /\ pc' = [pc EXCEPT ![f] = "over"]
        /\ UNCHANGED seen
     \/ /\ MayReject
        /\ pc' = [pc EXCEPT ![f] = "rejected"]
        /\ UNCHANGED seen
  /\ UNCHANGED <<dbVars, workerVars, now, repo, triggered, launched, recorded>>

\* decideFire says no ...
Skip(f) ==
  /\ Goto(f, "deciding", "skiplog")
  /\ ~ShouldFire(seen[f])
  /\ UNCHANGED <<dbVars, workerVars, now, fireVars>>

\* ... or yes, and the slot is taken before the next await ...
Launch(f) ==
  /\ Goto(f, "deciding", "startlog")
  /\ ShouldFire(seen[f])
  /\ inFlight' = inFlight + 1
  /\ launched' = [launched EXCEPT ![f] = now]
  /\ UNCHANGED <<dbVars, up, tasks, now, repo, seen, triggered, recorded>>

\* ... unless decrypt throws.
DecryptFails(f) ==
  /\ "key" \in Disturbances
  /\ Goto(f, "deciding", "rejected")
  /\ ShouldFire(seen[f])
  /\ UNCHANGED <<dbVars, workerVars, now, fireVars>>

LogSkip(f) ==
  /\ \/ Goto(f, "skiplog", "over") /\ logged' = logged \union {f}
     \/ MayReject /\ Goto(f, "skiplog", "rejected") /\ UNCHANGED logged
  /\ UNCHANGED <<rows, alarms, workerVars, now, fireVars>>

LogStart(f) ==
  /\ Goto(f, "startlog", "creating")
  /\ logged' = logged \union {f}
  /\ UNCHANGED <<rows, alarms, workerVars, now, fireVars>>

\* The log row is written outside the try block: when that rejects, so does
\* handleFire, and no finally block gives the slot back.
LogStartRejected(f) ==
  /\ MayReject
  /\ Goto(f, "startlog", "leaked")
  /\ UNCHANGED <<dbVars, workerVars, now, fireVars>>

CreateScanRow(f) ==
  /\ \/ Goto(f, "creating", "scanning")
     \/ MayReject /\ Goto(f, "creating", "failing")
  /\ UNCHANGED <<dbVars, workerVars, now, fireVars>>

\* runScan resolves, whether its scan completed or failed: the caller
\* cannot tell the two apart.
RunScan(f) ==
  /\ Goto(f, "scanning", "recording")
  /\ UNCHANGED <<dbVars, workerVars, now, fireVars>>

RecordFire(f) ==
  /\ Goto(f, "recording", "over")
  /\ rows[repo[f]] # None
  /\ rows' = [rows EXCEPT ![repo[f]] =
                [@ EXCEPT !.lastFired = now, !.lastError = FALSE]]
  /\ recorded' = [recorded EXCEPT ![f] = now]
  /\ ReleaseSlot(f)
  /\ UNCHANGED <<logged, alarms, up, tasks, now, repo, seen, triggered, launched>>

\* The row is gone, or the write rejects.
RecordRejected(f) ==
  /\ Goto(f, "recording", "failing")
  /\ MayReject \/ rows[repo[f]] = None
  /\ UNCHANGED <<dbVars, workerVars, now, fireVars>>

\* The catch block: lastError, if that can be written ...
RecordError(f) ==
  /\ Goto(f, "failing", "erring")
  /\ \/ /\ rows[repo[f]] # None
        /\ rows' = [rows EXCEPT ![repo[f]] = [@ EXCEPT !.lastError = TRUE]]
     \/ /\ MayReject \/ rows[repo[f]] = None
        /\ UNCHANGED rows
  /\ UNCHANGED <<logged, alarms, workerVars, now, fireVars>>

\* ... and the log row, if that can be; then the finally block.
LogError(f) ==
  /\ Goto(f, "erring", "over")
  /\ \/ alarms' = alarms \union {f}
     \/ MayReject /\ UNCHANGED alarms
  /\ ReleaseSlot(f)
  /\ UNCHANGED <<rows, logged, up, tasks, now, fireVars>>

FireStep(f) ==
  \/ ReadRow(f) \/ Skip(f) \/ Launch(f) \/ DecryptFails(f) \/ LogSkip(f)
  \/ LogStart(f) \/ LogStartRejected(f) \/ CreateScanRow(f) \/ RunScan(f)
  \/ RecordFire(f) \/ RecordRejected(f) \/ RecordError(f) \/ LogError(f)

Next ==
  \/ Start \/ Stop \/ Tick
  \/ \E r \in Repos : \/ DeleteSchedule(r)
                      \/ \E on \in BOOLEAN : PutSchedule(r, on)
  \/ \E f \in Fires : FireStep(f) \/ \E r \in Repos : Trigger(f, r)

Spec == Init /\ [][Next]_vars

\* Every await of a fire is settled at last; a scan ends by itself.
FairSpec == Spec /\ \A f \in Fires : WF_vars(FireStep(f))
-----------------------------------------------------------------------------
(***************************************************************************)
(* Properties.                                                             *)
(***************************************************************************)

\* The books of the cap: inFlightCount is the number of fires that hold a slot
\* or have lost one, however fires, edits and restarts interleave, and never
\* more than the limit: at most MAX_CONCURRENT_SCANS scans run.
ConcurrencyCap ==
  /\ inFlight = Cardinality(Holders \union Leaked)
  /\ inFlight <= MaxConcurrent

\* A slot that was taken is held by a fire that will give it back, so that a
\* skipped fire is skipped only "until one finishes", whatever rejects, is
\* deleted or edited.  The one exception is a fire whose start row could not be
\* written: its slot is lost until the worker restarts.
Unlogged == {f \in Fires : launched[f] # None /\ f \notin logged /\ pc[f] # "dead"}
SlotsHeld == inFlight = Cardinality(Holders \union Unlogged)

\* The audit trail: a call that decided and returned has its monitor.fire row,
\* whatever it decided; without one it rejects.
EveryDecisionLogged ==
  \A f \in Fires : pc[f] = "over" /\ seen[f] # None => f \in logged

\* The log row comes first: no scan runs without one, whatever rejects.
NoUnloggedScan ==
  \A f \in Fires : pc[f] \in Holding \ {"startlog"} => f \in logged

\* MIN_GAP_SECONDS, as far as the code keeps it: a fire that cron started after the success
\* of an earlier one was recorded launches no sooner than MinGap after it.
GapAfterSuccess ==
  \A f, g \in Fires :
    /\ repo[f] = repo[g]
    /\ recorded[g] # None /\ launched[f] # None
    /\ triggered[f] > recorded[g]
    => launched[f] >= recorded[g] + MinGap

\* Every fire comes to its end.
EveryFireEnds == \A f \in Fires : pc[f] \in Open ~> pc[f] \notin Open
=============================================================================
