-------------------------- MODULE ScanRunnerProofs --------------------------
(***************************************************************************)
(* Theorems about ScanRunner, for any scans, dependencies, clients and     *)
(* slugs.  Which failures are allowed is said by each theorem: most hold   *)
(* whatever fails, isolation needs the reset between two dependencies.     *)
(***************************************************************************)
EXTENDS ScanRunner, FiniteSetTheorems, TLAPS

\* A pull request made of a scan's own dependency and tree is well formed.
LEMMA PatchOfType ==
  ASSUME TypeOK, NEW s \in Scans, cur[s] \in Deps
  PROVE  PatchOf(s) \in PullRequest
BY DEF PatchOf, PullRequest, TypeOK

\* The control locations are pairwise distinct strings, so membership in a
\* group of them is decided by expanding the groups.
LEMMA TypeInit == Init => TypeOK
BY DEF Init, TypeOK, PCs, Idle, LoopBody, Terminal

LEMMA TypeStep == TypeOK /\ [Next]_vars => TypeOK'
<1> SUFFICES ASSUME TypeOK, [Next]_vars PROVE TypeOK'
  OBVIOUS
<1> USE DEF TypeOK, Goto, PCs, Running, Settling, Idle, LoopBody, Terminal,
            dbVars, runnerVars, busVars
<1>1. ASSUME NEW s \in Scans, CreateScan(s) PROVE TypeOK'
  BY <1>1 DEF CreateScan
<1>2. ASSUME NEW s \in Scans, LaunchScan(s) PROVE TypeOK'
  BY <1>2 DEF LaunchScan
<1>3. ASSUME NEW s \in Scans, MarkRunning(s) PROVE TypeOK'
  BY <1>3 DEF MarkRunning
<1>4. ASSUME NEW s \in Scans, PassPreflight(s) \/ FindStaleDeps(s) \/ PassReadiness(s)
      PROVE  TypeOK'
  BY <1>4 DEF PassPreflight, FindStaleDeps, PassReadiness
<1>5. ASSUME NEW s \in Scans, ThrowIfCancelled(s) PROVE TypeOK'
  BY <1>5 DEF ThrowIfCancelled, Announce
<1>6. ASSUME NEW s \in Scans, TakeDep(s) PROVE TypeOK'
  BY <1>6 DEF TakeDep
<1>7. ASSUME NEW s \in Scans, Diagnose(s) PROVE TypeOK'
  BY <1>7 DEF Diagnose
<1>8. ASSUME NEW s \in Scans, Patch(s) PROVE TypeOK'
  BY <1>8 DEF Patch
<1>9. ASSUME NEW s \in Scans, SkipUnpatched(s) PROVE TypeOK'
  BY <1>9 DEF SkipUnpatched
<1>10. ASSUME NEW s \in Scans, Verify(s) \/ SkipSubmission(s) PROVE TypeOK'
  BY <1>10 DEF Verify, SkipSubmission
<1>11. ASSUME NEW s \in Scans, ReuseExistingPR(s) PROVE TypeOK'
  BY <1>11 DEF ReuseExistingPR, ExistingPRs
<1>12. ASSUME NEW s \in Scans, PushBranch(s) PROVE TypeOK'
  BY <1>12 DEF PushBranch
<1>13. ASSUME NEW s \in Scans, OpenPR(s) PROVE TypeOK'
  <2>1. PatchOf(s) \in PullRequest
    BY <1>13, PatchOfType DEF OpenPR
  <2> QED BY <1>13, <2>1 DEF OpenPR
<1>14. ASSUME NEW s \in Scans, SubmitFails(s) PROVE TypeOK'
  <2>1. pc[s] = "push" => PatchOf(s) \in PullRequest
    BY PatchOfType
  <2> QED BY <1>14, <2>1 DEF SubmitFails
<1>15. ASSUME NEW s \in Scans, Persist(s) PROVE TypeOK'
  <2>1. [scan |-> s, dep |-> cur[s], pr |-> link[s]] \in Issue
    BY <1>15 DEF Persist, Issue
  <2> QED BY <1>15, <2>1 DEF Persist
<1>16. ASSUME NEW s \in Scans, PersistFails(s) PROVE TypeOK'
  BY <1>16 DEF PersistFails
<1>17. ASSUME NEW s \in Scans, AutoMergeGate(s) PROVE TypeOK'
  BY <1>17 DEF AutoMergeGate
<1>18. ASSUME NEW s \in Scans, LeaveLoop(s) PROVE TypeOK'
  BY <1>18 DEF LeaveLoop
<1>19. ASSUME NEW s \in Scans, WriteCompleted(s) PROVE TypeOK'
  BY <1>19 DEF WriteCompleted
<1>20. ASSUME NEW s \in Scans, AnnounceDone(s) PROVE TypeOK'
  BY <1>20 DEF AnnounceDone, Announce, Finally
<1>21. ASSUME NEW s \in Scans, Refuse(s) \/ Fail(s) PROVE TypeOK'
  BY <1>21 DEF Refuse, Fail, EmitError, Announce
<1>22. ASSUME NEW s \in Scans, Settle(s) PROVE TypeOK'
  BY <1>22 DEF Settle, Finally
<1>23. ASSUME NEW s \in Scans, ExpireEmitter(s) PROVE TypeOK'
  BY <1>23 DEF ExpireEmitter
<1>24. ASSUME NEW s \in Scans, RequestCancel(s) PROVE TypeOK'
  BY <1>24 DEF RequestCancel
<1>25. ASSUME NEW c \in Clients, CloseStream(c) PROVE TypeOK'
  BY <1>25 DEF CloseStream
<1>26. ASSUME NEW c \in Clients, NEW s \in Scans, OpenStream(c, s) PROVE TypeOK'
  BY <1>26 DEF OpenStream
<1>27. CASE Crash
  BY <1>27 DEF Crash
<1>28. CASE UNCHANGED vars
  BY <1>28 DEF vars
<1>29. ASSUME NEW p \in prs, ClosePR(p) PROVE TypeOK'
  BY <1>29 DEF ClosePR
<1> QED
  BY <1>29, <1>1, <1>2, <1>3, <1>4, <1>5, <1>6, <1>7, <1>8, <1>9, <1>10, <1>11, <1>12,
     <1>13, <1>14, <1>15, <1>16, <1>17, <1>18, <1>19, <1>20, <1>21, <1>22,
     <1>23, <1>24, <1>25, <1>26, <1>27, <1>28 DEF Next, RunnerStep

\* Type correctness of the whole runner, whatever fails.
THEOREM TypeCorrect == Spec => []TypeOK
BY TypeInit, TypeStep, PTL DEF Spec
-----------------------------------------------------------------------------
(***************************************************************************)
(* Row, event and control.  TerminalAgreement alone is not inductive: that *)
(* a runner about to announce an error has not written "completed" yet     *)
(* follows from where it is suspended.  PhaseInv says what the row and the *)
(* terminal event are at each control location of a live runner; a runner  *)
(* that is gone or dead may have left any agreeing pair behind.            *)
(***************************************************************************)
PhaseInv ==
  \A s \in Scans :
    /\ pc[s] = "none" => status[s] = "none"
    /\ pc[s] \in {"queued", "starting"} => status[s] = "queued"
    /\ pc[s] \in Running \ {"starting", "completing"} => status[s] = "running"
    /\ pc[s] = "completing" => status[s] = "completed"
    /\ pc[s] \in Settling => status[s] \in {"queued", "running"}
    /\ pc[s] \in {"none", "queued"} \union Running => told[s] = "none"
    /\ pc[s] \in Settling => told[s] = "error"

IInv == TypeOK /\ PhaseInv /\ TerminalAgreement

LEMMA IInvInit == Init => IInv
BY TypeInit DEF Init, IInv, PhaseInv, TerminalAgreement, Running, Settling,
                LoopBody

LEMMA IInvStep == IInv /\ [Next]_vars => IInv'
<1> SUFFICES ASSUME IInv, [Next]_vars PROVE IInv'
  OBVIOUS
<1>0. TypeOK'
  BY TypeStep DEF IInv
<1> USE <1>0 DEF IInv, TypeOK, PhaseInv, TerminalAgreement, Goto, PCs,
            Running, Settling, Idle, LoopBody, Terminal, dbVars, runnerVars,
            busVars
<1>1. ASSUME NEW s \in Scans, CreateScan(s) PROVE IInv'
  BY <1>1 DEF CreateScan
<1>2. ASSUME NEW s \in Scans, LaunchScan(s) PROVE IInv'
  BY <1>2 DEF LaunchScan
<1>3. ASSUME NEW s \in Scans, MarkRunning(s) PROVE IInv'
  BY <1>3 DEF MarkRunning
<1>4. ASSUME NEW s \in Scans, PassPreflight(s) \/ FindStaleDeps(s) \/ PassReadiness(s)
      PROVE  IInv'
  BY <1>4 DEF PassPreflight, FindStaleDeps, PassReadiness
<1>5. ASSUME NEW s \in Scans, ThrowIfCancelled(s) PROVE IInv'
  BY <1>5 DEF ThrowIfCancelled, Announce
<1>6. ASSUME NEW s \in Scans, TakeDep(s) PROVE IInv'
  BY <1>6 DEF TakeDep
<1>7. ASSUME NEW s \in Scans, Diagnose(s) PROVE IInv'
  BY <1>7 DEF Diagnose
<1>8. ASSUME NEW s \in Scans, Patch(s) PROVE IInv'
  BY <1>8 DEF Patch
<1>9. ASSUME NEW s \in Scans, SkipUnpatched(s) PROVE IInv'
  BY <1>9 DEF SkipUnpatched
<1>10. ASSUME NEW s \in Scans, Verify(s) \/ SkipSubmission(s) PROVE IInv'
  BY <1>10 DEF Verify, SkipSubmission
<1>11. ASSUME NEW s \in Scans, ReuseExistingPR(s) PROVE IInv'
  BY <1>11 DEF ReuseExistingPR, ExistingPRs
<1>12. ASSUME NEW s \in Scans, PushBranch(s) PROVE IInv'
  BY <1>12 DEF PushBranch
<1>13. ASSUME NEW s \in Scans, OpenPR(s) PROVE IInv'
  BY <1>13 DEF OpenPR, PatchOf
<1>14. ASSUME NEW s \in Scans, SubmitFails(s) PROVE IInv'
  BY <1>14 DEF SubmitFails, PatchOf
<1>15. ASSUME NEW s \in Scans, Persist(s) PROVE IInv'
  BY <1>15 DEF Persist
<1>16. ASSUME NEW s \in Scans, PersistFails(s) PROVE IInv'
  BY <1>16 DEF PersistFails
<1>17. ASSUME NEW s \in Scans, AutoMergeGate(s) PROVE IInv'
  BY <1>17 DEF AutoMergeGate
<1>18. ASSUME NEW s \in Scans, LeaveLoop(s) PROVE IInv'
  BY <1>18 DEF LeaveLoop
<1>19. ASSUME NEW s \in Scans, WriteCompleted(s) PROVE IInv'
  BY <1>19 DEF WriteCompleted
<1>20. ASSUME NEW s \in Scans, AnnounceDone(s) PROVE IInv'
  BY <1>20 DEF AnnounceDone, Announce, Finally
<1>21. ASSUME NEW s \in Scans, Refuse(s) \/ Fail(s) PROVE IInv'
  BY <1>21 DEF Refuse, Fail, EmitError, Announce
<1>22. ASSUME NEW s \in Scans, Settle(s) PROVE IInv'
  BY <1>22 DEF Settle, Finally
<1>23. ASSUME NEW s \in Scans, ExpireEmitter(s) PROVE IInv'
  BY <1>23 DEF ExpireEmitter
<1>24. ASSUME NEW s \in Scans, RequestCancel(s) PROVE IInv'
  BY <1>24 DEF RequestCancel
<1>25. ASSUME NEW c \in Clients, CloseStream(c) PROVE IInv'
  BY <1>25 DEF CloseStream
<1>26. ASSUME NEW c \in Clients, NEW s \in Scans, OpenStream(c, s) PROVE IInv'
  BY <1>26 DEF OpenStream
<1>27. CASE Crash
  BY <1>27 DEF Crash
<1>28. CASE UNCHANGED vars
  BY <1>28 DEF vars
<1>29. ASSUME NEW p \in prs, ClosePR(p) PROVE IInv'
  BY <1>29 DEF ClosePR
<1> QED
  BY <1>29, <1>1, <1>2, <1>3, <1>4, <1>5, <1>6, <1>7, <1>8, <1>9, <1>10, <1>11, <1>12,
     <1>13, <1>14, <1>15, <1>16, <1>17, <1>18, <1>19, <1>20, <1>21, <1>22,
     <1>23, <1>24, <1>25, <1>26, <1>27, <1>28 DEF Next, RunnerStep

\* Row and event agree, whatever fails and whoever interferes.
THEOREM RowAndEventAgree == Spec => []TerminalAgreement
<1>1. IInv => TerminalAgreement
  BY DEF IInv
<1> QED BY IInvInit, IInvStep, <1>1, PTL DEF Spec
-----------------------------------------------------------------------------
(***************************************************************************)
(* The registry.  A scan has an emitter from the first await to the end of *)
(* the grace period: every action either leaves both the registry and the  *)
(* group its control location belongs to alone, or moves both.             *)
(***************************************************************************)
\* What every step of a runner has in common, and the only ways in which it
\* touches what it shares with the other scans.
LEMMA RunnerFrame ==
  ASSUME NEW s \in Scans, RunnerStep(s)
  PROVE  /\ pc[s] \in Running \union Settling
         /\ \E l \in Running \union Settling \union {"grace"} :
              pc' = [pc EXCEPT ![s] = l]
         /\ UNCHANGED emitters
         /\ UNCHANGED prs \/ prs' = prs \union {PatchOf(s)}
         /\ \/ UNCHANGED issues
            \/ issues' = issues \union {[scan |-> s, dep |-> cur[s], pr |-> link[s]]}
BY DEF RunnerStep, MarkRunning, PassPreflight, FindStaleDeps, PassReadiness,
  ThrowIfCancelled, TakeDep, Diagnose, Patch, SkipUnpatched, Verify,
  SkipSubmission, ReuseExistingPR, PushBranch, OpenPR, SubmitFails, Persist,
  PersistFails, AutoMergeGate, LeaveLoop, WriteCompleted, AnnounceDone, Refuse,
  Fail, Settle, EmitError, Finally, Goto, Running, Settling, LoopBody, dbVars,
  busVars

LEMMA EmitterStep == TypeOK /\ EmitterCoversRun /\ [Next]_vars => EmitterCoversRun'
<1> SUFFICES ASSUME TypeOK, EmitterCoversRun, [Next]_vars PROVE EmitterCoversRun'
  OBVIOUS
<1> USE DEF TypeOK, EmitterCoversRun, Goto, PCs, Running, Settling, Idle,
            LoopBody, dbVars, runnerVars, busVars
<1>1. ASSUME NEW s \in Scans, CreateScan(s) \/ LaunchScan(s) \/ ExpireEmitter(s)
      PROVE  EmitterCoversRun'
  BY <1>1 DEF CreateScan, LaunchScan, ExpireEmitter
<1>2. ASSUME NEW s \in Scans, RunnerStep(s) PROVE EmitterCoversRun'
  BY <1>2, RunnerFrame
<1>3. ASSUME NEW s \in Scans, RequestCancel(s) PROVE EmitterCoversRun'
  BY <1>3 DEF RequestCancel
<1>4. ASSUME NEW c \in Clients, CloseStream(c) PROVE EmitterCoversRun'
  BY <1>4 DEF CloseStream
<1>5. ASSUME NEW c \in Clients, NEW s \in Scans, OpenStream(c, s)
      PROVE  EmitterCoversRun'
  BY <1>5 DEF OpenStream
<1>6. CASE Crash
  BY <1>6 DEF Crash
<1>7. CASE UNCHANGED vars
  BY <1>7 DEF vars
<1>8. ASSUME NEW p \in prs, ClosePR(p) PROVE EmitterCoversRun'
  BY <1>8 DEF ClosePR
<1> QED
  BY <1>1, <1>2, <1>3, <1>4, <1>5, <1>6, <1>7, <1>8 DEF Next

\* A scan can be cancelled and streamed exactly while its runner lives,
\* whatever fails: getScanEmitter finds it from the synchronous prefix of
\* runScan to the timer of its finally block.
THEOREM EmitterWhileRunning == Spec => []EmitterCoversRun
<1>1. Init => EmitterCoversRun
  BY DEF Init, EmitterCoversRun, Running, Settling, LoopBody
<1> QED BY <1>1, TypeInit, TypeStep, EmitterStep, PTL DEF Spec
-----------------------------------------------------------------------------
(***************************************************************************)
(* What a step may never do.                                               *)
(***************************************************************************)

\* Where a scan is suspended that has announced its end or recorded it.
LEMMA EndedScansSettle ==
  ASSUME IInv, NEW s \in Scans, told[s] # "none" \/ status[s] \in Terminal
  PROVE  /\ pc[s] \in {"completing"} \union Settling \union {"grace", "gone", "dead"}
         /\ pc[s] = "completing" => told[s] = "none"
         /\ pc[s] \in Settling => status[s] \notin Terminal
BY DEF IInv, TypeOK, PhaseInv, PCs, Running, Settling, Idle, LoopBody, Terminal

LEMMA QuietStep ==
  ASSUME IInv, [Next]_vars, NEW s \in Scans,
         told[s] # "none" \/ status[s] \in Terminal
  PROVE  StaysAsItEnded(s)
<1>a. /\ pc[s] \in {"completing"} \union Settling \union {"grace", "gone", "dead"}
      /\ pc[s] = "completing" => told[s] = "none"
      /\ pc[s] \in Settling => status[s] \notin Terminal
  BY EndedScansSettle
<1>b. IInv
  OBVIOUS
<1>1. ASSUME NEW r \in Scans, r = s, RunnerStep(r)
      PROVE  AnnounceDone(s) \/ Settle(s)
  BY <1>a, <1>1 DEF RunnerStep, MarkRunning, PassPreflight, FindStaleDeps,
    PassReadiness, ThrowIfCancelled, TakeDep, Diagnose, Patch, SkipUnpatched,
    Verify, SkipSubmission, ReuseExistingPR, PushBranch, OpenPR, SubmitFails,
    Persist, PersistFails, AutoMergeGate, LeaveLoop, WriteCompleted, Refuse,
    Fail, EmitError, Goto, Settling
<1>2. AnnounceDone(s) \/ Settle(s) => StaysAsItEnded(s)
  BY <1>a, <1>b DEF StaysAsItEnded, AnnounceDone, Settle, Announce, Goto,
    Settling, IInv, TypeOK, dbVars
<1>3. ASSUME NEW r \in Scans, r # s, RunnerStep(r) PROVE StaysAsItEnded(s)
  <2>1. told'[s] = told[s] /\ status'[s] = status[s]
    BY <1>3, <1>b DEF RunnerStep, MarkRunning, PassPreflight, FindStaleDeps,
      PassReadiness, ThrowIfCancelled, TakeDep, Diagnose, Patch, SkipUnpatched,
      Verify, SkipSubmission, ReuseExistingPR, PushBranch, OpenPR, SubmitFails,
      Persist, PersistFails, AutoMergeGate, LeaveLoop, WriteCompleted,
      AnnounceDone, Refuse, Fail, EmitError, Settle, Announce, dbVars, busVars,
      IInv, TypeOK
  <2>2. PatchOf(r).by # s
    BY <1>3 DEF PatchOf
  <2>3. {p \in prs' : p.by = s} = {p \in prs : p.by = s}
    BY <1>3, <2>2, RunnerFrame
  <2>4. {i \in issues' : i.scan = s} = {i \in issues : i.scan = s}
    BY <1>3, RunnerFrame
  <2> QED BY <2>1, <2>3, <2>4 DEF StaysAsItEnded
<1>4. ASSUME NEW r \in Scans, \/ CreateScan(r) \/ LaunchScan(r)
                              \/ ExpireEmitter(r) \/ RequestCancel(r)
      PROVE  StaysAsItEnded(s)
  BY <1>4, <1>a, <1>b DEF StaysAsItEnded, CreateScan, LaunchScan,
    ExpireEmitter, RequestCancel, Goto, Settling, dbVars, runnerVars, busVars,
    IInv, TypeOK
<1>5. ASSUME UNCHANGED <<told, dbVars, prs>> PROVE StaysAsItEnded(s)
  BY <1>5 DEF StaysAsItEnded, dbVars
<1>6. ASSUME NEW r \in Scans, RunnerStep(r) PROVE StaysAsItEnded(s)
  BY <1>1, <1>2, <1>3, <1>6
<1>7. ASSUME NEW c \in Clients,
             CloseStream(c) \/ \E r \in Scans : OpenStream(c, r)
      PROVE  UNCHANGED <<told, dbVars, prs>>
  BY <1>7 DEF CloseStream, OpenStream
<1>8. Crash \/ UNCHANGED vars \/ (\E p \in prs : ClosePR(p))
        => UNCHANGED <<told, dbVars, prs>>
  BY DEF Crash, ClosePR, vars, busVars
<1> QED
  BY <1>4, <1>5, <1>6, <1>7, <1>8 DEF Next

\* After its terminal event, and once its row has a terminal status, a scan
\* opens no pull request, files no issue and changes neither of the two.
THEOREM QuietAfterTheEnd == Spec => QuietAfterTerminal
<1>1. IInv /\ [Next]_vars =>
        [\A s \in Scans :
           told[s] # "none" \/ status[s] \in Terminal => StaysAsItEnded(s)]_vars
  BY QuietStep
<1> QED BY IInvInit, IInvStep, <1>1, PTL DEF Spec, QuietAfterTerminal

\* While a cancel is pending the runner takes no further dependency, and the
\* flag is dropped only by the throw that ends the scan, by the end of the
\* scan or with the process.  The guard of TakeDep is all it takes.
THEOREM PendingCancelIsKept == Spec => PendingCancelStopsQueue
<1> USE DEF Goto, Idle, dbVars, runnerVars, busVars
<1>1. TypeOK /\ [Next]_vars =>
        [\A s \in Scans : s \in cancelledScans =>
           /\ cur'[s] = cur[s]
           /\ s \in cancelledScans' \/ pc'[s] \in {"cancelling", "grace"} \union Idle]_vars
  <2> SUFFICES ASSUME TypeOK, Next, NEW s \in Scans, s \in cancelledScans
               PROVE  /\ cur'[s] = cur[s]
                      /\ s \in cancelledScans' \/ pc'[s] \in {"cancelling", "grace"} \union Idle
    OBVIOUS
  <2>1. ASSUME NEW r \in Scans, TakeDep(r) PROVE cur'[s] = cur[s] /\ s \in cancelledScans'
    BY <2>1 DEF TakeDep, TypeOK
  <2>2. ASSUME NEW r \in Scans, ThrowIfCancelled(r) \/ AnnounceDone(r) \/ Settle(r)
        PROVE  /\ cur'[s] = cur[s]
               /\ s \in cancelledScans' \/ pc'[s] \in {"cancelling", "grace"}
    BY <2>2 DEF ThrowIfCancelled, AnnounceDone, Settle, Finally, TypeOK
  <2>3. ASSUME NEW r \in Scans, RunnerStep(r), ~TakeDep(r), ~ThrowIfCancelled(r),
               ~AnnounceDone(r), ~Settle(r)
        PROVE  UNCHANGED <<cur, cancelledScans>>
    BY <2>3 DEF RunnerStep, MarkRunning, PassPreflight, FindStaleDeps,
      PassReadiness, Diagnose, Patch, SkipUnpatched, Verify, SkipSubmission,
      ReuseExistingPR, PushBranch, OpenPR, SubmitFails, Persist, PersistFails,
      AutoMergeGate, LeaveLoop, WriteCompleted, Refuse, Fail, EmitError
  <2>4. ASSUME NEW r \in Scans, \/ CreateScan(r) \/ LaunchScan(r)
                                \/ ExpireEmitter(r) \/ RequestCancel(r)
        PROVE  cur' = cur /\ cancelledScans \subseteq cancelledScans'
    BY <2>4 DEF CreateScan, LaunchScan, ExpireEmitter, RequestCancel
  <2>5. ASSUME NEW c \in Clients, CloseStream(c) \/ \E r \in Scans : OpenStream(c, r)
        PROVE  UNCHANGED <<cur, cancelledScans>>
    BY <2>5 DEF CloseStream, OpenStream
  <2>6. CASE Crash
    BY <2>6 DEF Crash
  <2>7. ASSUME NEW p \in prs, ClosePR(p) PROVE UNCHANGED <<cur, cancelledScans>>
    BY <2>7 DEF ClosePR
  <2> QED BY <2>1, <2>2, <2>3, <2>4, <2>5, <2>6, <2>7 DEF Next
<1> QED BY <1>1, TypeInit, TypeStep, PTL DEF Spec, PendingCancelStopsQueue
-----------------------------------------------------------------------------
(***************************************************************************)
(* Isolation, when the reset between two dependencies succeeds.  What is   *)
(* in the working tree of a scan follows from where it is suspended:       *)
(* nothing before the patch, the patch of the current dependency after it. *)
(***************************************************************************)
TreeInv ==
  \A s \in Scans :
    /\ pc[s] \in {"diagnose", "patch"} => tree[s] = {}
    /\ pc[s] \in {"verify", "submit", "push"} => tree[s] = {cur[s]}

LEMMA CleanStep ==
  ASSUME "reset" \notin Faults
  PROVE  TypeOK /\ TreeInv /\ CleanPRs /\ [Next]_vars => TreeInv' /\ CleanPRs'
<1> SUFFICES ASSUME TypeOK, TreeInv, CleanPRs, [Next]_vars
             PROVE  TreeInv' /\ CleanPRs'
  OBVIOUS
<1> USE DEF TypeOK, TreeInv, CleanPRs, Goto, Idle, Settling, dbVars, runnerVars,
            busVars
<1>1. ASSUME NEW s \in Scans, TakeDep(s) PROVE TreeInv' /\ CleanPRs'
  BY <1>1 DEF TakeDep
<1>2. ASSUME NEW s \in Scans, Diagnose(s) PROVE TreeInv' /\ CleanPRs'
  BY <1>2 DEF Diagnose
<1>3. ASSUME NEW s \in Scans, Patch(s) PROVE TreeInv' /\ CleanPRs'
  BY <1>3 DEF Patch
<1>4. ASSUME NEW s \in Scans, Verify(s) \/ SkipSubmission(s) PROVE TreeInv' /\ CleanPRs'
  BY <1>4 DEF Verify, SkipSubmission
<1>5. ASSUME NEW s \in Scans, PushBranch(s) PROVE TreeInv' /\ CleanPRs'
  BY <1>5 DEF PushBranch
<1>6. ASSUME NEW s \in Scans, OpenPR(s) \/ SubmitFails(s) PROVE TreeInv' /\ CleanPRs'
  BY <1>6 DEF OpenPR, SubmitFails, PatchOf
<1>7. ASSUME NEW s \in Scans, RunnerStep(s), ~TakeDep(s), ~Diagnose(s), ~Patch(s),
             ~Verify(s), ~SkipSubmission(s), ~PushBranch(s), ~OpenPR(s), ~SubmitFails(s)
      PROVE  TreeInv' /\ CleanPRs'
  <2>1. UNCHANGED <<cur, prs>>
    BY <1>7 DEF RunnerStep, MarkRunning, PassPreflight, FindStaleDeps,
      PassReadiness, ThrowIfCancelled, SkipUnpatched, ReuseExistingPR, Persist,
      PersistFails, AutoMergeGate, LeaveLoop, WriteCompleted, AnnounceDone,
      Refuse, Fail, EmitError, Settle
  <2>2. \E l \in {"preflight", "detect", "sandbox", "loop", "persist",
                  "merge", "wrapup", "completing", "cancelling", "failing", "grace"} : pc' = [pc EXCEPT ![s] = l]
    BY <1>7 DEF RunnerStep, MarkRunning, PassPreflight, FindStaleDeps,
      PassReadiness, ThrowIfCancelled, SkipUnpatched, ReuseExistingPR, Persist,
      PersistFails, AutoMergeGate, LeaveLoop, WriteCompleted, AnnounceDone,
      Refuse, Fail, EmitError, Settle
  <2>3. tree' = tree \/ tree' = [tree EXCEPT ![s] = {}]
    BY <1>7 DEF RunnerStep, MarkRunning, PassPreflight, FindStaleDeps,
      PassReadiness, ThrowIfCancelled, SkipUnpatched, ReuseExistingPR, Persist,
      PersistFails, AutoMergeGate, LeaveLoop, WriteCompleted, AnnounceDone,
      Refuse, Fail, EmitError, Settle, Finally
  <2> QED BY <2>1, <2>2, <2>3
<1>8. ASSUME NEW s \in Scans, \/ CreateScan(s) \/ LaunchScan(s)
                              \/ ExpireEmitter(s) \/ RequestCancel(s)
      PROVE  TreeInv' /\ CleanPRs'
  BY <1>8 DEF CreateScan, LaunchScan, ExpireEmitter, RequestCancel
<1>9. ASSUME NEW c \in Clients, CloseStream(c) \/ \E s \in Scans : OpenStream(c, s)
      PROVE  TreeInv' /\ CleanPRs'
  BY <1>9 DEF CloseStream, OpenStream
<1>10. CASE Crash
  BY <1>10 DEF Crash
<1>11. CASE UNCHANGED vars
  BY <1>11 DEF vars
<1>12. ASSUME NEW p \in prs, ClosePR(p) PROVE TreeInv' /\ CleanPRs'
  BY <1>12 DEF ClosePR
<1> QED
  BY <1>1, <1>2, <1>3, <1>4, <1>5, <1>6, <1>7, <1>8, <1>9, <1>10, <1>11,
    <1>12 DEF Next

\* A pull request never carries the change of another dependency of the same
\* scan, if the reset of the working tree never fails: runner.ts only logs a
\* failed reset, so this hypothesis cannot be dropped.
THEOREM PRsAreClean ==
  ASSUME "reset" \notin Faults
  PROVE  Spec => []CleanPRs
<1>1. Init => TreeInv /\ CleanPRs
  BY DEF Init, TreeInv, CleanPRs
<1> QED BY <1>1, TypeInit, TypeStep, CleanStep, PTL DEF Spec
-----------------------------------------------------------------------------
(***************************************************************************)
(* The runner implements ScanLifecycle.                                    *)
(***************************************************************************)
LEMMA StopRequestsUnchanged ==
  ASSUME TypeOK, NEW s \in Scans, NEW l, l # "cancelling", pc[s] # "cancelling",
         pc' = [pc EXCEPT ![s] = l], UNCHANGED cancelledScans
  PROVE  UNCHANGED StopRequests
BY DEF TypeOK, StopRequests

LEMMA RefineInit == Init => Lifecycle!Init
BY DEF Init, Lifecycle!Init, StopRequests

LEMMA RefineStep == IInv /\ [Next]_vars => [Lifecycle!Next]_(Lifecycle!vars)
<1> SUFFICES ASSUME IInv, [Next]_vars PROVE [Lifecycle!Next]_(Lifecycle!vars)
  OBVIOUS
<1> TypeOK /\ PhaseInv
  BY DEF IInv
<1> USE DEF Goto, dbVars, runnerVars, busVars
<1> DEFINE Same == UNCHANGED <<status, told, StopRequests, prs>>
<1>same. Same => Lifecycle!vars' = Lifecycle!vars
  BY DEF Lifecycle!vars
<1>1. ASSUME NEW s \in Scans, CreateScan(s) PROVE Lifecycle!Accept(s)
  BY <1>1, StopRequestsUnchanged DEF CreateScan, PhaseInv, Lifecycle!Accept
<1>2. ASSUME NEW s \in Scans, MarkRunning(s) PROVE Lifecycle!Begin(s)
  BY <1>2, StopRequestsUnchanged DEF MarkRunning, PhaseInv, Running,
    Lifecycle!Begin
<1>3. ASSUME NEW s \in Scans, ThrowIfCancelled(s) PROVE Lifecycle!GiveUp(s)
  <2>1. UNCHANGED StopRequests
    BY <1>3 DEF ThrowIfCancelled, StopRequests, TypeOK
  <2> QED BY <1>3, <2>1 DEF ThrowIfCancelled, Announce, PhaseInv, Running,
       Lifecycle!GiveUp
<1>4. ASSUME NEW s \in Scans, Refuse(s) \/ Fail(s) PROVE Lifecycle!GiveUp(s)
  BY <1>4, StopRequestsUnchanged DEF Refuse, Fail, EmitError, Announce,
    PhaseInv, Running, LoopBody, Lifecycle!GiveUp
<1>5. ASSUME NEW s \in Scans, prs' = prs \union {PatchOf(s)},
             OpenPR(s) \/ SubmitFails(s), pc[s] = "push"
      PROVE  \E p \in PullRequest : Lifecycle!Deliver(s, p)
  <2>1. PatchOf(s) \in PullRequest
    BY <1>5, PatchOfType DEF TypeOK, LoopBody
  <2>2. {<<p.by, p>> : p \in prs'} = {<<p.by, p>> : p \in prs} \union {<<s, PatchOf(s)>>}
    BY <1>5 DEF PatchOf
  <2>3. UNCHANGED <<status, told, StopRequests>>
    BY <1>5, StopRequestsUnchanged DEF OpenPR, SubmitFails
  <2>4. status[s] = "running" /\ told[s] = "none"
    BY <1>5 DEF PhaseInv, Running, LoopBody
  <2> QED BY <2>1, <2>2, <2>3, <2>4 DEF Lifecycle!Deliver
<1>6. ASSUME NEW s \in Scans, WriteCompleted(s) PROVE Lifecycle!Complete(s)
  BY <1>6, StopRequestsUnchanged DEF WriteCompleted, PhaseInv, Running,
    Lifecycle!Complete
<1>7. ASSUME NEW s \in Scans, AnnounceDone(s) PROVE Lifecycle!SayDone(s)
  BY <1>7 DEF AnnounceDone, Announce, Finally, PhaseInv, Running, StopRequests,
     TypeOK, Lifecycle!SayDone
<1>8. ASSUME NEW s \in Scans, Settle(s) PROVE Lifecycle!Record(s) \/ Lifecycle!Forget
  <2>1. StopRequests' \subseteq StopRequests
    BY <1>8 DEF Settle, Finally, StopRequests, TypeOK
  <2>2. status[s] \in {"queued", "running"} /\ told[s] = "error"
    BY <1>8 DEF Settle, PhaseInv, Settling
  <2>3. pc[s] = "cancelling" => s \in StopRequests
    BY DEF StopRequests
  <2> QED BY <1>8, <2>1, <2>2, <2>3 DEF Settle, Lifecycle!Record,
    Lifecycle!Forget
<1>9. ASSUME NEW s \in Scans, RequestCancel(s) PROVE Lifecycle!AskToStop(s)
  BY <1>9 DEF RequestCancel, StopRequests, Lifecycle!AskToStop
<1>10. Crash => Lifecycle!Forget
  <2> SUFFICES ASSUME Crash PROVE Lifecycle!Forget
    OBVIOUS
  <2>1. StopRequests' \subseteq StopRequests
    BY DEF Crash, StopRequests, Idle, TypeOK
  <2> QED BY <2>1 DEF Crash, Lifecycle!Forget
<1>11. ASSUME NEW s \in Scans, LaunchScan(s) \/ ExpireEmitter(s) PROVE Same
  BY <1>11, StopRequestsUnchanged DEF LaunchScan, ExpireEmitter
<1>12. ASSUME NEW s \in Scans, RunnerStep(s), ~MarkRunning(s), ~ThrowIfCancelled(s),
              ~Refuse(s), ~Fail(s), ~WriteCompleted(s), ~AnnounceDone(s), ~Settle(s)
       PROVE  /\ UNCHANGED <<status, told, StopRequests>>
              /\ \/ UNCHANGED prs
                 \/ /\ pc[s] = "push"
                    /\ OpenPR(s) \/ SubmitFails(s)
                    /\ prs' = prs \union {PatchOf(s)}
  <2>1. /\ UNCHANGED <<status, told, cancelledScans>>
        /\ \/ UNCHANGED prs
           \/ /\ pc[s] = "push"
              /\ OpenPR(s) \/ SubmitFails(s)
              /\ prs' = prs \union {PatchOf(s)}
    BY <1>12 DEF RunnerStep, PassPreflight, FindStaleDeps, PassReadiness,
      TakeDep, Diagnose, Patch, SkipUnpatched, Verify, SkipSubmission,
      ReuseExistingPR, PushBranch, OpenPR, SubmitFails, Persist, PersistFails,
      AutoMergeGate, LeaveLoop
  <2>2. /\ pc[s] # "cancelling"
        /\ \E l \in Running : pc' = [pc EXCEPT ![s] = l]
    BY <1>12 DEF RunnerStep, PassPreflight, FindStaleDeps, PassReadiness,
      TakeDep, Diagnose, Patch, SkipUnpatched, Verify, SkipSubmission,
      ReuseExistingPR, PushBranch, OpenPR, SubmitFails, Persist, PersistFails,
      AutoMergeGate, LeaveLoop, Running, LoopBody
  <2> QED BY <2>1, <2>2, StopRequestsUnchanged DEF Running, LoopBody
<1>13. ASSUME \/ \E c \in Clients : \/ CloseStream(c)
                                    \/ \E s \in Scans : OpenStream(c, s)
              \/ \E p \in prs : ClosePR(p)
       PROVE  Same
  BY <1>13 DEF CloseStream, OpenStream, ClosePR, StopRequests
<1>14. CASE UNCHANGED vars
  BY <1>14, <1>same DEF vars, StopRequests
<1> HIDE DEF Same
<1>15. ASSUME NEW s \in Scans, RunnerStep(s) PROVE Lifecycle!Next \/ Same
  <2>1. CASE \/ MarkRunning(s) \/ ThrowIfCancelled(s) \/ Refuse(s) \/ Fail(s)
             \/ WriteCompleted(s) \/ AnnounceDone(s) \/ Settle(s)
    BY <2>1, <1>2, <1>3, <1>4, <1>6, <1>7, <1>8 DEF Lifecycle!Next
  <2>2. CASE ~(\/ MarkRunning(s) \/ ThrowIfCancelled(s) \/ Refuse(s) \/ Fail(s)
               \/ WriteCompleted(s) \/ AnnounceDone(s) \/ Settle(s))
    BY <2>2, <1>15, <1>12, <1>5 DEF Same, Lifecycle!Next
  <2> QED BY <2>1, <2>2
<1>16. Next => Lifecycle!Next \/ Same
  <2>1. ASSUME NEW s \in Scans, CreateScan(s) \/ RequestCancel(s) PROVE Lifecycle!Next
    BY <2>1, <1>1, <1>9 DEF Lifecycle!Next
  <2>2. Crash => Lifecycle!Next
    BY <1>10 DEF Lifecycle!Next
  <2> QED BY <2>1, <2>2, <1>11, <1>13, <1>15 DEF Next
<1> QED BY <1>14, <1>16, <1>same

\* ScanRunner implements ScanLifecycle, whatever fails: a scan is recorded as
\* cancelled only if a stop was asked for, as failed or cancelled only after an
\* error was announced, and delivers only while it is recorded as running.
THEOREM RunnerImplementsLifecycle == Spec => LifecycleSpec
BY RefineInit, RefineStep, IInvInit, IInvStep, PTL DEF Spec, LifecycleSpec,
  Lifecycle!Spec
-----------------------------------------------------------------------------
(***************************************************************************)
(* The books: Issue rows, pull requests and the counter prsOpened.         *)
(***************************************************************************)
BeforeSubmit == {"diagnose", "patch", "verify", "submit", "push"}
BeforeLoop == {"none", "queued", "starting", "preflight", "detect"}

\* The actions that leave the books of every scan alone: they write neither
\* issues nor prs, and enter the part of the loop before the submission only
\* by going on in it.
Aside(s) ==
  /\ UNCHANGED <<issues, prs, opened, cur, link>>
  /\ \E l \in PCs \ {"persist", "diagnose"} :
       /\ pc' = [pc EXCEPT ![s] = l]
       /\ l \in BeforeSubmit => pc[s] \in BeforeSubmit
       /\ l \in BeforeLoop => pc[s] \in BeforeLoop
  /\ \/ todo' = todo
     \/ /\ pc[s] \in BeforeLoop /\ todo' \in [Scans -> SUBSET Deps]
        /\ \A r \in Scans \ {s} : todo'[r] = todo[r]

Books(s) == \/ TakeDep(s) \/ ReuseExistingPR(s) \/ OpenPR(s) \/ SubmitFails(s)
            \/ Persist(s) \/ PersistFails(s)
            \/ SkipSubmission(s)

LEMMA AsideOrBooks ==
  ASSUME TypeOK, NEW s \in Scans,
         CreateScan(s) \/ LaunchScan(s) \/ RunnerStep(s) \/ ExpireEmitter(s),
         ~Books(s)
  PROVE  Aside(s)
<1> USE DEF Aside, Books, BeforeSubmit, BeforeLoop, Goto, PCs, Idle, Running,
            Settling, LoopBody, dbVars, runnerVars, busVars, TypeOK
<1>1. CASE CreateScan(s) \/ LaunchScan(s) \/ ExpireEmitter(s)
  BY <1>1 DEF CreateScan, LaunchScan, ExpireEmitter
<1>2. CASE FindStaleDeps(s)
  BY <1>2 DEF FindStaleDeps
<1>3. CASE \/ MarkRunning(s) \/ PassPreflight(s) \/ PassReadiness(s)
           \/ ThrowIfCancelled(s) \/ Diagnose(s) \/ Patch(s) \/ SkipUnpatched(s)
           \/ Verify(s) \/ PushBranch(s) \/ AutoMergeGate(s) \/ LeaveLoop(s)
  BY <1>3 DEF MarkRunning, PassPreflight, PassReadiness, ThrowIfCancelled,
    Diagnose, Patch, SkipUnpatched, Verify, SkipSubmission, PushBranch,
    AutoMergeGate, LeaveLoop
<1>4. CASE \/ WriteCompleted(s) \/ AnnounceDone(s) \/ Refuse(s) \/ Fail(s)
           \/ Settle(s)
  BY <1>4 DEF WriteCompleted, AnnounceDone, Refuse, Fail, EmitError, Settle
<1> QED BY <1>1, <1>2, <1>3, <1>4 DEF RunnerStep

\* So do the routes and the maintainers.
LEMMA RoutesAside ==
  ASSUME \/ \E s \in Scans : RequestCancel(s)
         \/ \E c \in Clients : CloseStream(c) \/ \E s \in Scans : OpenStream(c, s)
         \/ \E p \in prs : ClosePR(p)
         \/ UNCHANGED vars
  PROVE  UNCHANGED <<issues, prs, runnerVars>>
BY DEF RequestCancel, CloseStream, OpenStream, ClosePR, vars, dbVars

\* The link of an iteration is a pull request the search for its dependency
\* returns, and there is none before the submission.
LinkInv ==
  \A s \in Scans :
    /\ pc[s] \in BeforeSubmit => link[s] = None
    /\ pc[s] = "persist" /\ link[s] # None => <<cur[s], link[s].dep>> \in SlugPrefix

LEMMA LinkStep ==
  TypeOK /\ LinkInv /\ LinksMatchTheSlug /\ [Next]_vars
    => LinkInv' /\ LinksMatchTheSlug'
<1> SUFFICES ASSUME TypeOK, LinkInv, LinksMatchTheSlug, [Next]_vars
             PROVE  LinkInv' /\ LinksMatchTheSlug'
  OBVIOUS
<1> USE DEF LinkInv, LinksMatchTheSlug, BeforeSubmit
<1>1. ASSUME NEW s \in Scans, TakeDep(s) \/ PersistFails(s)
      PROVE  LinkInv' /\ LinksMatchTheSlug'
  BY <1>1 DEF TakeDep, PersistFails, Goto, dbVars, TypeOK
<1>2. ASSUME NEW s \in Scans, ReuseExistingPR(s) PROVE LinkInv' /\ LinksMatchTheSlug'
  <2>1. PICK p \in ExistingPRs(cur[s]) : link' = [link EXCEPT ![s] = p]
    BY <1>2 DEF ReuseExistingPR
  <2>2. <<cur[s], p.dep>> \in SlugPrefix
    BY DEF ExistingPRs
  <2> QED BY <1>2, <2>1, <2>2 DEF ReuseExistingPR, Goto, dbVars, TypeOK
<1>3. ASSUME NEW s \in Scans, OpenPR(s) PROVE LinkInv' /\ LinksMatchTheSlug'
  <2>1. cur[s] \in Deps
    BY <1>3 DEF OpenPR, Goto, TypeOK, LoopBody
  <2>2. <<cur[s], PatchOf(s).dep>> \in SlugPrefix
    BY <2>1, SlugAssumption DEF PatchOf
  <2> QED BY <1>3, <2>2 DEF OpenPR, Goto, dbVars, TypeOK
<1>4. ASSUME NEW s \in Scans,
             SubmitFails(s) \/ SkipSubmission(s)
      PROVE  LinkInv' /\ LinksMatchTheSlug'
  BY <1>4 DEF SubmitFails, Verify, SkipSubmission, Goto, dbVars, TypeOK
<1>5. ASSUME NEW s \in Scans, Persist(s) PROVE LinkInv' /\ LinksMatchTheSlug'
  <2>1. pc[s] = "persist"
        /\ \E l \in {"loop", "merge"} : pc' = [pc EXCEPT ![s] = l]
    BY <1>5 DEF Persist, Goto
  <2>2. LinkInv'
    BY <1>5, <2>1 DEF Persist, TypeOK
  <2>3. LinksMatchTheSlug'
    BY <1>5, <2>1 DEF Persist
  <2> QED BY <2>2, <2>3
<1>6. ASSUME NEW s \in Scans, Aside(s) PROVE LinkInv' /\ LinksMatchTheSlug'
  BY <1>6 DEF Aside, TypeOK
<1>7. CASE Crash
  BY <1>7 DEF Crash, Idle, dbVars, TypeOK
<1>8. CASE UNCHANGED <<issues, prs, runnerVars>>
  BY <1>8 DEF runnerVars
<1> HIDE DEF LinkInv, LinksMatchTheSlug, BeforeSubmit
<1>9. ASSUME NEW s \in Scans,
             CreateScan(s) \/ LaunchScan(s) \/ RunnerStep(s) \/ ExpireEmitter(s)
      PROVE  LinkInv' /\ LinksMatchTheSlug'
  <2>1. CASE Books(s)
    BY <2>1, <1>1, <1>2, <1>3, <1>4, <1>5 DEF Books
  <2>2. CASE ~Books(s)
    BY <2>2, <1>6, <1>9, AsideOrBooks
  <2> QED BY <2>1, <2>2
<1> QED BY <1>7, <1>8, <1>9, RoutesAside DEF Next

\* For any slugs, a linked pull request is one the search for the row's
\* dependency returns, the one the iteration itself has opened included.
THEOREM LinksAreSearched == Spec => []LinksMatchTheSlug
<1>1. Init => LinkInv /\ LinksMatchTheSlug
  BY DEF Init, LinkInv, LinksMatchTheSlug, BeforeSubmit
<1> QED BY <1>1, TypeInit, TypeStep, LinkStep, PTL DEF Spec

\* A pull request no row links yet is the link of the iteration that opened it.
OrphanInv ==
  \A p \in prs : \/ \E i \in issues : i.pr = p
                 \/ pc[p.by] = "persist" /\ link[p.by] = p

LEMMA OrphanStep ==
  ASSUME Faults \intersect {"db", "lost", "crash"} = {}
  PROVE  TypeOK /\ OrphanInv /\ [Next]_vars => OrphanInv'
<1> SUFFICES ASSUME TypeOK, OrphanInv, [Next]_vars PROVE OrphanInv'
  OBVIOUS
<1> USE DEF OrphanInv
<1>a. \A p \in prs : p.by \in Scans
  BY DEF TypeOK, PullRequest
<1>1. ASSUME NEW s \in Scans,
             \/ TakeDep(s) \/ ReuseExistingPR(s) \/ SubmitFails(s)
             \/ SkipSubmission(s)
      PROVE  OrphanInv'
  <2>1. pc[s] # "persist" /\ UNCHANGED <<issues, prs>>
    BY <1>1 DEF TakeDep, ReuseExistingPR, SubmitFails, Verify, SkipSubmission,
      Goto, dbVars
  <2>2. \A r \in Scans \ {s} : pc'[r] = pc[r] /\ link'[r] = link[r]
    BY <1>1 DEF TakeDep, ReuseExistingPR, SubmitFails, Verify, SkipSubmission,
      Goto, TypeOK
  <2> QED BY <1>a, <2>1, <2>2
<1>2. ASSUME NEW s \in Scans, OpenPR(s) PROVE OrphanInv'
  <2>1. PatchOf(s).by = s
    BY DEF PatchOf
  <2>2. pc[s] # "persist" /\ UNCHANGED issues /\ prs' = prs \union {PatchOf(s)}
        /\ pc'[s] = "persist" /\ link'[s] = PatchOf(s)
        /\ \A r \in Scans \ {s} : pc'[r] = pc[r] /\ link'[r] = link[r]
    BY <1>2 DEF OpenPR, Goto, TypeOK, dbVars
  <2> QED BY <1>a, <2>1, <2>2
<1>3. ASSUME NEW s \in Scans, Persist(s) PROVE OrphanInv'
  <2>1. /\ UNCHANGED <<prs, link>>
        /\ issues' = issues \union {[scan |-> s, dep |-> cur[s], pr |-> link[s]]}
    BY <1>3 DEF Persist
  <2>2. \A r \in Scans \ {s} : pc'[r] = pc[r]
    BY <1>3 DEF Persist, Goto, TypeOK
  <2>3. \E i \in issues' : i.pr = link[s]
    <3> DEFINE row == [scan |-> s, dep |-> cur[s], pr |-> link[s]]
    <3>1. row \in issues' /\ row.pr = link[s]
      BY <2>1
    <3> QED BY <3>1
  <2> QED BY <1>a, <2>1, <2>2, <2>3
<1>4. ASSUME NEW s \in Scans, Aside(s), ~Books(s), pc[s] # "persist" PROVE OrphanInv'
  <2>1. /\ UNCHANGED <<issues, prs, link>>
        /\ \A r \in Scans \ {s} : pc'[r] = pc[r]
    BY <1>4 DEF Aside, TypeOK
  <2> QED BY <1>4, <1>a, <2>1
<1>5. ASSUME NEW s \in Scans, 
             CreateScan(s) \/ LaunchScan(s) \/ RunnerStep(s) \/ ExpireEmitter(s),
             ~Books(s)
      PROVE  pc[s] # "persist"
  BY <1>5 DEF Books, CreateScan, LaunchScan, RunnerStep, ExpireEmitter,
    MarkRunning, PassPreflight, FindStaleDeps, PassReadiness, ThrowIfCancelled,
    Diagnose, Patch, SkipUnpatched, Verify, SkipSubmission, PushBranch,
    AutoMergeGate, LeaveLoop, WriteCompleted, AnnounceDone, Refuse, Fail,
    EmitError, Settle, Settling, Goto
<1>6. CASE UNCHANGED <<issues, prs, runnerVars>>
  BY <1>6 DEF runnerVars
<1>7. ~Crash /\ \A s \in Scans : ~PersistFails(s)
  BY DEF Crash, PersistFails
<1> QED
  BY <1>1, <1>2, <1>3, <1>4, <1>5, <1>6, <1>7, AsideOrBooks, RoutesAside
  DEF Books, Next

\* Every open pull request is linked by an Issue row once the iteration that
\* opened it is over, if no write is rejected, no answer lost and the process
\* survives: the code recovers from none of the three.
THEOREM NoPRIsOrphaned ==
  ASSUME Faults \intersect {"db", "lost", "crash"} = {}
  PROVE  Spec => []NoOrphanPR
<1>1. Init => OrphanInv
  BY DEF Init, OrphanInv
<1>2. OrphanInv => NoOrphanPR
  BY DEF OrphanInv, NoOrphanPR
<1> QED BY <1>1, <1>2, TypeInit, TypeStep, OrphanStep, PTL DEF Spec

\* A scan opens at most one pull request for each dependency it takes, so every
\* one it opens is new on GitHub and the counter and the set grow together.
PRsOf(s) == {p \in prs : p.by = s}

CountInv ==
  \A s \in Scans :
    /\ IsFiniteSet(PRsOf(s))
    /\ opened[s] = Cardinality(PRsOf(s))
    /\ pc[s] \in BeforeSubmit => cur[s] \notin todo[s]
    /\ \A p \in PRsOf(s) : /\ pc[s] \notin BeforeLoop
                           /\ p.dep \notin todo[s]
                           /\ pc[s] \in BeforeSubmit => p.dep # cur[s]

\* A step that opens no pull request, counts none and does not go back to a
\* dependency that has been taken keeps the invariant.
LEMMA CountKept ==
  ASSUME CountInv, UNCHANGED <<prs, opened>>,
         \A s \in Scans :
           /\ pc'[s] \in BeforeSubmit =>
                /\ cur'[s] \notin todo'[s]
                /\ \/ pc[s] \in BeforeSubmit /\ cur'[s] = cur[s]
                   \/ cur'[s] \in todo[s]
           /\ pc[s] \notin BeforeLoop =>
                pc'[s] \notin BeforeLoop /\ todo'[s] \subseteq todo[s]
  PROVE  CountInv'
<1>1. \A s \in Scans : PRsOf(s)' = PRsOf(s)
  BY DEF PRsOf
<1> QED BY <1>1 DEF CountInv

LEMMA CountStep ==
  ASSUME "lost" \notin Faults
  PROVE  TypeOK /\ CountInv /\ [Next]_vars => CountInv'
<1> SUFFICES ASSUME TypeOK, CountInv, [Next]_vars PROVE CountInv'
  OBVIOUS
<1>a. \A s \in Scans : pc[s] \in BeforeSubmit => cur[s] \notin todo[s]
  BY DEF CountInv
<1>1. ASSUME NEW s \in Scans, TakeDep(s) PROVE CountInv'
  BY <1>1, <1>a, CountKept DEF TakeDep, Goto, TypeOK, BeforeLoop, BeforeSubmit
<1>2. ASSUME NEW s \in Scans,
             \/ ReuseExistingPR(s) \/ SubmitFails(s) \/ SkipSubmission(s)
             \/ Persist(s) \/ PersistFails(s)
      PROVE  CountInv'
  <2>1. UNCHANGED <<prs, opened, todo, cur>>
    BY <1>2 DEF ReuseExistingPR, SubmitFails, SkipSubmission, Persist,
      PersistFails
  <2>2. \E l \in {"loop", "persist", "merge"} : pc' = [pc EXCEPT ![s] = l]
    BY <1>2 DEF ReuseExistingPR, SubmitFails, SkipSubmission, Persist,
      PersistFails, Goto
  <2> QED BY <1>a, <2>1, <2>2, CountKept DEF TypeOK, BeforeLoop, BeforeSubmit
<1>3. ASSUME NEW s \in Scans, OpenPR(s) PROVE CountInv'
  <2>1. PatchOf(s).by = s /\ PatchOf(s).dep = cur[s]
    BY DEF PatchOf
  <2>2. pc[s] = "push" /\ pc' = [pc EXCEPT ![s] = "persist"]
        /\ prs' = prs \union {PatchOf(s)} /\ opened' = [opened EXCEPT ![s] = @ + 1]
        /\ UNCHANGED <<cur, todo>>
    BY <1>3 DEF OpenPR, Goto
  <2>3. PatchOf(s) \notin PRsOf(s)
    BY <2>1, <2>2 DEF CountInv, BeforeSubmit
  <2>4. PRsOf(s)' = PRsOf(s) \union {PatchOf(s)}
    BY <2>1, <2>2 DEF PRsOf
  <2>5. /\ IsFiniteSet(PRsOf(s)')
        /\ Cardinality(PRsOf(s)') = Cardinality(PRsOf(s)) + 1
    BY <2>3, <2>4, FS_AddElement DEF CountInv
  <2>6. opened'[s] = Cardinality(PRsOf(s)')
    BY <2>2, <2>5 DEF CountInv, TypeOK
  <2>7. \A p \in PRsOf(s)' : p.dep \notin todo'[s] /\ pc'[s] \notin BeforeLoop
    BY <2>1, <2>2, <2>4, <1>a DEF CountInv, BeforeSubmit, BeforeLoop, TypeOK
  <2>8. pc'[s] \notin BeforeSubmit
    BY <2>2 DEF BeforeSubmit, TypeOK
  <2>9. ASSUME NEW r \in Scans \ {s}
        PROVE  /\ PRsOf(r)' = PRsOf(r)
               /\ pc'[r] = pc[r] /\ opened'[r] = opened[r]
    BY <2>1, <2>2 DEF PRsOf, TypeOK
  <2> QED BY <2>2, <2>5, <2>6, <2>7, <2>8, <2>9 DEF CountInv
<1>4. ASSUME NEW s \in Scans, Aside(s) PROVE CountInv'
  <2>1. PICK l \in PCs \ {"persist", "diagnose"} :
          /\ pc' = [pc EXCEPT ![s] = l]
          /\ l \in BeforeSubmit => pc[s] \in BeforeSubmit
          /\ l \in BeforeLoop => pc[s] \in BeforeLoop
    BY <1>4 DEF Aside
  <2>2. pc[s] \notin BeforeLoop => todo' = todo
    BY <1>4 DEF Aside
  <2>3. \A r \in Scans \ {s} : pc'[r] = pc[r] /\ todo'[r] = todo[r]
    BY <1>4, <2>1 DEF Aside, TypeOK
  <2>4. UNCHANGED <<prs, opened, cur>>
    BY <1>4 DEF Aside
  <2>5. pc'[s] = l
    BY <2>1 DEF TypeOK
  <2>6. BeforeSubmit \intersect BeforeLoop = {}
    BY DEF BeforeSubmit, BeforeLoop
  <2>7. ASSUME NEW r \in Scans
        PROVE  /\ pc'[r] \in BeforeSubmit =>
                    pc[r] \in BeforeSubmit /\ cur'[r] = cur[r] /\ todo'[r] = todo[r]
               /\ pc[r] \notin BeforeLoop =>
                    pc'[r] \notin BeforeLoop /\ todo'[r] = todo[r]
    BY <2>1, <2>2, <2>3, <2>4, <2>5, <2>6
  <2> QED BY <1>a, <2>4, <2>7, CountKept
<1>5. CASE Crash
  <2>1. UNCHANGED <<prs, opened, cur, todo>>
    BY <1>5 DEF Crash
  <2>2. \A s \in Scans : pc'[s] = pc[s] \/ pc'[s] = "dead"
    BY <1>5 DEF Crash
  <2> QED BY <1>a, <2>1, <2>2, CountKept DEF BeforeLoop, BeforeSubmit
<1>6. CASE UNCHANGED <<issues, prs, runnerVars>>
  BY <1>6, <1>a, CountKept DEF runnerVars
<1>7. ASSUME NEW s \in Scans,
             CreateScan(s) \/ LaunchScan(s) \/ RunnerStep(s) \/ ExpireEmitter(s)
      PROVE  CountInv'
  <2>1. CASE Books(s)
    BY <2>1, <1>1, <1>2, <1>3 DEF Books
  <2>2. CASE ~Books(s)
    BY <2>2, <1>4, <1>7, AsideOrBooks
  <2> QED BY <2>1, <2>2
<1> QED BY <1>5, <1>6, <1>7, RoutesAside DEF Next

\* The counter that ends up in Scan.prsOpened is the number of pull requests the
\* scan has opened on GitHub, unless an answer was lost: then the code counts
\* one too few.
THEOREM PrsOpenedIsExact ==
  ASSUME "lost" \notin Faults
  PROVE  Spec => []PrsOpenedExact
<1>1. Init => CountInv
  <2> SUFFICES ASSUME Init PROVE CountInv
    OBVIOUS
  <2>1. \A s \in Scans : PRsOf(s) = {}
    BY DEF Init, PRsOf
  <2> QED BY <2>1, FS_EmptySet DEF Init, CountInv, BeforeSubmit
<1>2. CountInv => PrsOpenedExact
  BY DEF CountInv, PRsOf, PrsOpenedExact
<1> QED BY <1>1, <1>2, TypeInit, TypeStep, CountStep, PTL DEF Spec
=============================================================================
