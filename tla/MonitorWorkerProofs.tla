------------------------ MODULE MonitorWorkerProofs ------------------------
(***************************************************************************)
(* Theorems about MonitorWorker, for any schedules, number of fires and    *)
(* limits, with every disturbance.                                         *)
(***************************************************************************)
EXTENDS MonitorWorker, FiniteSetTheorems, TLAPS

LEMMA TypeInit == Init => TypeOK
<1> SUFFICES ASSUME Init PROVE TypeOK
  OBVIOUS
<1> USE DEF Init
<1>1. \A f \in Fires : pc[f] = "none" /\ "none" \notin Open
  BY DEF Open, Holding
<1>2. pc \in [Fires -> PCs]
  BY DEF PCs
<1>3. /\ repo \in [Fires -> Repos \union {None}]
      /\ seen \in [Fires -> Row \union {None}]
      /\ rows \in [Repos -> Row \union {None}]
  OBVIOUS
<1>4. /\ triggered \in [Fires -> Time]
      /\ launched \in [Fires -> Time]
      /\ recorded \in [Fires -> Time]
  BY DEF Time
<1> QED BY <1>1, <1>2, <1>3, <1>4 DEF TypeOK

(***************************************************************************)
(* The slots.  CapInv is inductive with TypeOK: the check of the cap and   *)
(* the increment are one step, so no other fire can come in between.       *)
(***************************************************************************)
Slots == Holders \union Leaked

CapInv == inFlight = Cardinality(Slots) /\ inFlight <= MaxConcurrent

\* A fire that had a slot has it no longer: the count goes down by one.
LEMMA SlotGivenBack ==
  ASSUME TypeOK, CapInv, NEW f \in Slots, Slots' = Slots \ {f}
  PROVE  /\ inFlight - 1 \in Nat
         /\ inFlight - 1 = Cardinality(Slots')
<1>1. IsFiniteSet(Slots)
  BY FS_Subset, FiresAssumption DEF Slots, Holders, Leaked
<1>2. Cardinality(Slots') = Cardinality(Slots) - 1
  BY <1>1, FS_RemoveElement
<1>3. Cardinality(Slots') \in Nat
  BY <1>1, FS_RemoveElement, FS_CardinalityType
<1> QED BY <1>2, <1>3 DEF CapInv

\* A step that moves fires among the locations with a slot, or among those
\* without, and leaves the counter alone changes no books.
LEMMA SlotsKept ==
  ASSUME CapInv, UNCHANGED inFlight,
         \A f \in Fires : pc'[f] \in Holding \union {"leaked"}
                            <=> pc[f] \in Holding \union {"leaked"}
  PROVE  CapInv'
<1>1. Slots' = Slots
  BY DEF Slots, Holders, Leaked
<1> QED BY <1>1 DEF CapInv

LEMMA CapStep == TypeOK /\ CapInv /\ [Next]_vars => CapInv'
<1> SUFFICES ASSUME TypeOK, CapInv, [Next]_vars PROVE CapInv'
  OBVIOUS
<1>a. IsFiniteSet(Slots)
  BY FS_Subset, FiresAssumption DEF Slots, Holders, Leaked
<1>1. ASSUME NEW f \in Fires, Launch(f) PROVE CapInv'
  <2>1. f \notin Slots /\ Slots' = Slots \union {f}
    BY <1>1 DEF Launch, Goto, Slots, Holders, Leaked, Holding, TypeOK
  <2>2. Cardinality(Slots') = Cardinality(Slots) + 1
    BY <1>a, <2>1, FS_AddElement
  <2>3. inFlight' = inFlight + 1 /\ inFlight < MaxConcurrent
    BY <1>1 DEF Launch, ShouldFire
  <2> QED BY <2>2, <2>3, LimitsAssumption DEF CapInv, TypeOK
<1>2. ASSUME NEW f \in Fires, RecordFire(f) \/ LogError(f) PROVE CapInv'
  <2>1. f \in Slots /\ Slots' = Slots \ {f}
    BY <1>2 DEF RecordFire, LogError, Goto, Slots, Holders, Leaked, Holding, TypeOK
  <2>2. inFlight' = inFlight - 1
    BY <1>2 DEF RecordFire, LogError, ReleaseSlot
  <2>3. inFlight' = Cardinality(Slots')
    BY <2>1, <2>2, SlotGivenBack
  <2>4. inFlight \in Nat /\ inFlight <= MaxConcurrent /\ MaxConcurrent \in Nat
    BY LimitsAssumption DEF TypeOK, CapInv
  <2>5. inFlight' <= MaxConcurrent
    BY <2>2, <2>4
  <2> QED BY <2>3, <2>5 DEF CapInv
<1>3. CASE Stop
  <2>1. Slots' = {}
    BY <1>3 DEF Stop, Slots, Holders, Leaked, Holding, Open
  <2> QED BY <1>3, <2>1, FS_EmptySet, LimitsAssumption DEF Stop, CapInv
<1>4. ASSUME NEW f \in Fires,
             \/ ReadRow(f) \/ Skip(f) \/ DecryptFails(f) \/ LogSkip(f)
             \/ LogStart(f) \/ LogStartRejected(f) \/ CreateScanRow(f)
             \/ RunScan(f) \/ RecordRejected(f) \/ RecordError(f)
             \/ \E r \in Repos : Trigger(f, r)
      PROVE  CapInv'
  <2>1. UNCHANGED inFlight
    BY <1>4 DEF ReadRow, Skip, DecryptFails, LogSkip, LogStart, LogStartRejected,
      CreateScanRow, RunScan, RecordRejected, RecordError, Trigger, workerVars
  <2>2. \A g \in Fires : pc'[g] \in Holding \union {"leaked"}
                           <=> pc[g] \in Holding \union {"leaked"}
    BY <1>4 DEF ReadRow, Skip, DecryptFails, LogSkip, LogStart, LogStartRejected,
      CreateScanRow, RunScan, RecordRejected, RecordError, Trigger, Goto, Holding,
      TypeOK
  <2> QED BY <2>1, <2>2, SlotsKept
<1>5. CASE UNCHANGED <<inFlight, pc>>
  BY <1>5, SlotsKept
<1>6. CASE \/ Start \/ Tick
           \/ \E r \in Repos : DeleteSchedule(r) \/ \E on \in BOOLEAN : PutSchedule(r, on)
  BY <1>5, <1>6 DEF Start, Tick, DeleteSchedule, PutSchedule, workerVars
<1>7. CASE UNCHANGED vars
  BY <1>5, <1>7 DEF vars, workerVars
<1> QED BY <1>1, <1>2, <1>3, <1>4, <1>6, <1>7 DEF Next, FireStep

LEMMA CapInit == Init => CapInv
<1> SUFFICES ASSUME Init PROVE CapInv
  OBVIOUS
<1>1. Slots = {}
  BY DEF Init, Slots, Holders, Leaked, Holding
<1> QED BY <1>1, FS_EmptySet, LimitsAssumption DEF Init, CapInv

LEMMA TypeStep == TypeOK /\ CapInv /\ [Next]_vars => TypeOK'
<1> SUFFICES ASSUME TypeOK, CapInv, [Next]_vars PROVE TypeOK'
  OBVIOUS
<1> USE DEF TypeOK, Goto, PCs, Open, Holding, Time, dbVars, workerVars,
            fireVars
<1>1. CASE Start
  BY <1>1 DEF Start
<1>2. CASE Stop
  BY <1>2 DEF Stop
<1>3. CASE Tick
  BY <1>3 DEF Tick
<1>4. ASSUME NEW r \in Repos, NEW on \in BOOLEAN, PutSchedule(r, on) PROVE TypeOK'
  BY <1>4 DEF PutSchedule, Row
<1>5. ASSUME NEW r \in Repos, DeleteSchedule(r) PROVE TypeOK'
  BY <1>5 DEF DeleteSchedule
<1>6. ASSUME NEW f \in Fires, NEW r \in Repos, Trigger(f, r) PROVE TypeOK'
  BY <1>6 DEF Trigger
<1>7. ASSUME NEW f \in Fires, ReadRow(f) PROVE TypeOK'
  BY <1>7 DEF ReadRow
<1>8. ASSUME NEW f \in Fires, Skip(f) \/ DecryptFails(f) PROVE TypeOK'
  BY <1>8 DEF Skip, DecryptFails
<1>9. ASSUME NEW f \in Fires, Launch(f) PROVE TypeOK'
  BY <1>9 DEF Launch
<1>10. ASSUME NEW f \in Fires, LogSkip(f) \/ LogStart(f) \/ LogStartRejected(f)
       PROVE  TypeOK'
  BY <1>10 DEF LogSkip, LogStart, LogStartRejected
<1>11. ASSUME NEW f \in Fires, CreateScanRow(f) \/ RunScan(f) \/ RecordRejected(f)
       PROVE  TypeOK'
  BY <1>11 DEF CreateScanRow, RunScan, RecordRejected
<1>12. ASSUME NEW f \in Fires, RecordFire(f) \/ LogError(f) PROVE inFlight' \in Nat
  <2>1. f \in Slots /\ Slots' = Slots \ {f}
    BY <1>12 DEF RecordFire, LogError, Slots, Holders, Leaked
  <2> QED BY <1>12, <2>1, SlotGivenBack DEF RecordFire, LogError, ReleaseSlot
<1>13. ASSUME NEW f \in Fires, RecordFire(f) PROVE TypeOK'
  <2>1. repo[f] \in Repos /\ rows[repo[f]] \in Row /\ now \in Time
    BY <1>13 DEF RecordFire
  <2>2. [rows[repo[f]] EXCEPT !.lastFired = now, !.lastError = FALSE] \in Row
    BY <2>1 DEF Row
  <2>3. rows' \in [Repos -> Row \union {None}]
    BY <1>13, <2>1, <2>2 DEF RecordFire
  <2> QED BY <1>12, <1>13, <2>3 DEF RecordFire
<1>14. ASSUME NEW f \in Fires, RecordError(f) PROVE TypeOK'
  <2>1. rows' \in [Repos -> Row \union {None}]
    <3>1. CASE UNCHANGED rows
      BY <3>1
    <3>2. CASE rows[repo[f]] # None /\ ~UNCHANGED rows
      <4>1. repo[f] \in Repos /\ rows[repo[f]] \in Row
        BY <1>14, <3>2 DEF RecordError
      <4>2. [rows[repo[f]] EXCEPT !.lastError = TRUE] \in Row
        BY <4>1 DEF Row
      <4> QED BY <1>14, <3>2, <4>1, <4>2 DEF RecordError
    <3> QED BY <1>14, <3>1, <3>2 DEF RecordError
  <2> QED BY <1>14, <2>1 DEF RecordError
<1>15. ASSUME NEW f \in Fires, LogError(f) PROVE TypeOK'
  BY <1>12, <1>15 DEF LogError
<1>16. CASE UNCHANGED vars
  BY <1>16 DEF vars
<1> QED
  BY <1>1, <1>2, <1>3, <1>4, <1>5, <1>6, <1>7, <1>8, <1>9, <1>10, <1>11, <1>13,
     <1>14, <1>15, <1>16 DEF Next, FireStep

\* Type correctness; that inFlightCount never becomes negative needs the books.
THEOREM TypeCorrect == Spec => []TypeOK
BY TypeInit, CapInit, TypeStep, CapStep, PTL DEF Spec

\* At most MAX_CONCURRENT_SCANS scans run, whatever fires, fails or is edited,
\* and inFlightCount is the number of slots held or lost.
THEOREM CapIsKept == Spec => []ConcurrencyCap
<1>1. CapInv => ConcurrencyCap
  BY DEF CapInv, Slots, ConcurrencyCap
<1> QED BY <1>1, TypeInit, CapInit, TypeStep, CapStep, PTL DEF Spec

-----------------------------------------------------------------------------
(***************************************************************************)
(* The audit trail.                                                        *)
(***************************************************************************)

\* The steps by which a fire moves on, and the others: a step of one fire leaves
\* the others where they are, and no log row is ever lost.
LEMMA LogKept == [Next]_vars => logged \subseteq logged'
BY DEF Next, FireStep, vars, dbVars, Start, Stop, Tick, PutSchedule, DeleteSchedule,
  Trigger, ReadRow, Skip, Launch, DecryptFails, LogSkip, LogStart, LogStartRejected,
  CreateScanRow, RunScan, RecordFire, RecordRejected, RecordError, LogError

\* What the worker's surroundings do to the fires: stop them, at most.
LEMMA OutsideStep ==
  ASSUME TypeOK,
         \/ Start \/ Stop \/ Tick \/ UNCHANGED vars
         \/ \E r \in Repos : \/ DeleteSchedule(r)
                             \/ \E on \in BOOLEAN : PutSchedule(r, on)
  PROVE  /\ \A f \in Fires : pc'[f] = pc[f] \/ pc'[f] = "dead"
         /\ UNCHANGED seen
BY DEF fireVars, Start, Stop, Tick, DeleteSchedule, PutSchedule, vars, TypeOK

Logged == Holding \ {"startlog"}

LEMMA UnloggedStep == TypeOK /\ NoUnloggedScan /\ [Next]_vars => NoUnloggedScan'
<1> SUFFICES ASSUME TypeOK, NoUnloggedScan, [Next]_vars PROVE NoUnloggedScan'
  OBVIOUS
<1>1. ASSUME NEW f \in Fires, LogStart(f) PROVE NoUnloggedScan'
  BY <1>1 DEF LogStart, Goto, NoUnloggedScan, TypeOK
<1>2. ASSUME NEW f \in Fires, FireStep(f), ~LogStart(f) PROVE NoUnloggedScan'
  <2>1. /\ \A g \in Fires \ {f} : pc'[g] = pc[g]
        /\ pc'[f] \in Logged => pc[f] \in Logged
    BY <1>2 DEF FireStep, ReadRow, Skip, Launch, DecryptFails, LogSkip,
      LogStartRejected, CreateScanRow, RunScan, RecordFire, RecordRejected,
      RecordError, LogError, Goto, Logged, Holding, TypeOK
  <2> QED BY <2>1, LogKept DEF NoUnloggedScan, Logged
<1>3. ASSUME NEW f \in Fires, NEW r \in Repos, Trigger(f, r) PROVE NoUnloggedScan'
  BY <1>3, LogKept DEF Trigger, Goto, NoUnloggedScan, Holding, TypeOK
<1>4. CASE \/ Start \/ Stop \/ Tick \/ UNCHANGED vars
           \/ \E r \in Repos : \/ DeleteSchedule(r)
                               \/ \E on \in BOOLEAN : PutSchedule(r, on)
  BY <1>4, OutsideStep, LogKept DEF NoUnloggedScan, Holding
<1> QED BY <1>1, <1>2, <1>3, <1>4 DEF Next

LEMMA UnloggedInit == Init => NoUnloggedScan
BY DEF Init, NoUnloggedScan, Holding

\* No scan runs without its monitor.fire row, whatever is rejected.
THEOREM NoScanIsUnlogged == Spec => []NoUnloggedScan
BY UnloggedInit, UnloggedStep, TypeInit, CapInit, TypeStep, CapStep, PTL DEF Spec

\* A call that decided and returned has left its monitor.fire row, whatever is
\* rejected.
THEOREM DecisionsAreLogged == Spec => []EveryDecisionLogged
<1> DEFINE SeenLater == \A f \in Fires : pc[f] \in {"none", "reading"} => seen[f] = None
<1> DEFINE Inv == EveryDecisionLogged /\ SeenLater
<1>1. Init => Inv
  BY DEF Init, EveryDecisionLogged
<1>2. TypeOK /\ NoUnloggedScan /\ Inv /\ [Next]_vars => Inv'
  <2> SUFFICES ASSUME TypeOK, NoUnloggedScan, Inv, [Next]_vars PROVE Inv'
    OBVIOUS
  <2>1. ASSUME NEW f \in Fires, FireStep(f) PROVE Inv'
    <3>1. /\ \A g \in Fires \ {f} : pc'[g] = pc[g] /\ seen'[g] = seen[g]
          /\ pc'[f] \notin {"none", "reading"}
      BY <2>1 DEF FireStep, ReadRow, Skip, Launch, DecryptFails, LogSkip, LogStart,
        LogStartRejected, CreateScanRow, RunScan, RecordFire, RecordRejected,
        RecordError, LogError, Goto, fireVars, TypeOK
    <3>2. CASE ReadRow(f)
      BY <3>1, <3>2, LogKept DEF ReadRow, EveryDecisionLogged, TypeOK
    <3>3. CASE LogSkip(f) /\ pc'[f] = "over"
      BY <3>1, <3>3, LogKept DEF LogSkip, Goto, EveryDecisionLogged, TypeOK
    <3>4. CASE RecordFire(f) \/ LogError(f)
      <4>1. f \in logged
        BY <3>4 DEF RecordFire, LogError, Goto, NoUnloggedScan, Holding
      <4> QED BY <3>1, <4>1, LogKept DEF EveryDecisionLogged
    <3>5. CASE pc'[f] # "over"
      BY <3>1, <3>5, LogKept DEF EveryDecisionLogged
    <3> QED
      BY <2>1, <3>2, <3>3, <3>4, <3>5 DEF FireStep, Skip, Launch, DecryptFails,
        LogStart, LogStartRejected, CreateScanRow, RunScan, RecordRejected,
        RecordError, Goto, TypeOK
  <2>2. ASSUME NEW f \in Fires, NEW r \in Repos, Trigger(f, r) PROVE Inv'
    BY <2>2, LogKept DEF Trigger, Goto, EveryDecisionLogged, TypeOK
  <2>3. CASE \/ Start \/ Stop \/ Tick \/ UNCHANGED vars
             \/ \E r \in Repos : \/ DeleteSchedule(r)
                                 \/ \E on \in BOOLEAN : PutSchedule(r, on)
    BY <2>3, OutsideStep, LogKept DEF EveryDecisionLogged
  <2> QED BY <2>1, <2>2, <2>3 DEF Next
<1>3. Inv => EveryDecisionLogged
  OBVIOUS
<1> QED
  BY <1>1, <1>2, <1>3, UnloggedInit, UnloggedStep, TypeInit, CapInit, TypeStep,
     CapStep, PTL DEF Spec

\* Where a fire stands tells whether it was launched and whether it is logged.
BookOf(f) ==
  /\ pc[f] \in {"none", "reading", "deciding", "skiplog", "rejected"} => launched[f] = None
  /\ pc[f] \in {"none", "reading", "deciding", "skiplog", "rejected", "startlog", "leaked"}
       => f \notin logged
  /\ pc[f] \in {"startlog", "leaked"} => launched[f] # None
  /\ pc[f] = "over" /\ launched[f] # None => f \in logged
Books == \A f \in Fires : BookOf(f)

LEMMA BooksStep == TypeOK /\ NoUnloggedScan /\ Books /\ [Next]_vars => Books'
<1> SUFFICES ASSUME TypeOK, NoUnloggedScan, Books, [Next]_vars PROVE Books'
  OBVIOUS
<1>1. ASSUME NEW f \in Fires, FireStep(f), NEW g \in Fires \ {f}, BookOf(g)
      PROVE  BookOf(g)'
  <2>1. /\ pc'[g] = pc[g] /\ launched'[g] = launched[g]
        /\ g \in logged' <=> g \in logged
    BY <1>1 DEF FireStep, ReadRow, Skip, Launch, DecryptFails, LogSkip, LogStart,
      LogStartRejected, CreateScanRow, RunScan, RecordFire, RecordRejected,
      RecordError, LogError, Goto, dbVars, fireVars, TypeOK
  <2> QED BY <1>1, <2>1 DEF BookOf
<1>2. ASSUME NEW f \in Fires, FireStep(f), BookOf(f) PROVE BookOf(f)'
  <2>1. now # None
    BY NoneAssumption DEF TypeOK
  <2> USE <1>2, <2>1 DEF BookOf, Goto, Holding, TypeOK, dbVars, fireVars
  <2>2. CASE ReadRow(f) \/ Skip(f) \/ Launch(f) \/ DecryptFails(f)
    BY <2>2 DEF ReadRow, Skip, Launch, DecryptFails
  <2>3. CASE LogSkip(f) \/ LogStart(f) \/ LogStartRejected(f)
    BY <2>3 DEF LogSkip, LogStart, LogStartRejected
  <2>4. CASE CreateScanRow(f) \/ RunScan(f) \/ RecordRejected(f) \/ RecordError(f)
    BY <2>4 DEF CreateScanRow, RunScan, RecordRejected, RecordError
  <2>5. CASE RecordFire(f) \/ LogError(f)
    BY <2>5 DEF RecordFire, LogError, NoUnloggedScan
  <2> QED BY <2>2, <2>3, <2>4, <2>5 DEF FireStep
<1>3. ASSUME NEW f \in Fires, NEW r \in Repos, Trigger(f, r) PROVE Books'
  BY <1>3 DEF Trigger, Goto, Books, BookOf, dbVars, TypeOK
<1>4. CASE \/ Start \/ Stop \/ Tick \/ UNCHANGED vars
           \/ \E r \in Repos : \/ DeleteSchedule(r)
                               \/ \E on \in BOOLEAN : PutSchedule(r, on)
  <2>1. UNCHANGED <<logged, launched>>
    BY <1>4 DEF Start, Stop, Tick, DeleteSchedule, PutSchedule, vars, dbVars, fireVars
  <2> QED BY <1>4, <2>1, OutsideStep DEF Books, BookOf
<1> QED BY <1>1, <1>2, <1>3, <1>4 DEF Next, Books

\* Without an exception for rejected writes: a slot that was taken is held by a
\* fire that gives it back, or its fire has no start row in the log.
THEOREM SlotsAreHeld == Spec => []SlotsHeld
<1>1. Init => Books
  BY DEF Init, Books, BookOf
<1>2. TypeOK /\ CapInv /\ NoUnloggedScan /\ Books => SlotsHeld
  <2> SUFFICES ASSUME TypeOK, CapInv, NoUnloggedScan, Books PROVE SlotsHeld
    OBVIOUS
  <2>1. ASSUME NEW f \in Fires PROVE f \in Slots <=> f \in Holders \union Unlogged
    BY DEF Slots, Holders, Leaked, Unlogged, Books, BookOf, NoUnloggedScan, Holding,
      TypeOK, PCs, Open
  <2>2. Slots = Holders \union Unlogged
    BY <2>1 DEF Slots, Holders, Leaked, Unlogged
  <2> QED BY <2>2 DEF CapInv, SlotsHeld
<1> QED
  BY <1>1, <1>2, BooksStep, UnloggedInit, UnloggedStep, TypeInit, CapInit, TypeStep,
     CapStep, PTL DEF Spec
-----------------------------------------------------------------------------
(***************************************************************************)
(* The floor between fires.  A success is recorded in the row, the row     *)
(* remembers it as long as it exists, and a fire that starts later reads   *)
(* the row later.                                                          *)
(***************************************************************************)
ClockInv ==
  /\ \A f \in Fires : /\ pc[f] # "none" => triggered[f] # None
                      /\ triggered[f] # None => triggered[f] <= now
                      /\ recorded[f] # None => recorded[f] <= now
                      /\ recorded[f] # None => pc[f] = "over"
                      /\ launched[f] # None =>
                           pc[f] \notin {"none", "reading", "deciding"}

\* The row remembers the last success of its schedule.
RowInv ==
  \A g \in Fires :
    recorded[g] # None =>
      /\ repo[g] \in Repos
      /\ rows[repo[g]] \in Row
      /\ rows[repo[g]].lastFired \in Nat
      /\ rows[repo[g]].lastFired >= recorded[g]

\* So does what a fire that started after it has read.
SeenInv ==
  \A f, g \in Fires :
    /\ pc[f] = "deciding"
    /\ repo[f] = repo[g]
    /\ recorded[g] # None
    /\ triggered[f] > recorded[g]
    => /\ seen[f].lastFired \in Nat
       /\ seen[f].lastFired >= recorded[g]

GapInv == ClockInv /\ RowInv /\ SeenInv /\ GapAfterSuccess

LEMMA GapInit == Init => GapInv
BY DEF Init, GapInv, ClockInv, RowInv, SeenInv, GapAfterSuccess

\* Steps that let fires move on past the decision, or die, and keep the rest.
LEMMA GapKept ==
  ASSUME GapInv, UNCHANGED <<rows, now, repo, seen, triggered, launched, recorded>>,
         \A f \in Fires : \/ pc'[f] = pc[f]
                          \/ /\ pc[f] \notin {"none", "over"}
                             /\ pc'[f] \notin {"none", "reading", "deciding"}
  PROVE  GapInv'
BY DEF GapInv, ClockInv, RowInv, SeenInv, GapAfterSuccess

LEMMA GapStep == TypeOK /\ GapInv /\ [Next]_vars => GapInv'
<1> SUFFICES ASSUME TypeOK, GapInv, [Next]_vars PROVE GapInv'
  OBVIOUS
<1> USE DEF GapInv
<1>1. CASE Start \/ Stop
  BY <1>1, GapKept DEF Start, Stop, dbVars, fireVars, Open, Holding, TypeOK
<1>2. CASE Tick
  BY <1>2 DEF Tick, dbVars, workerVars, fireVars, ClockInv, RowInv, SeenInv,
    GapAfterSuccess, TypeOK, Time
<1>3. ASSUME NEW r \in Repos, NEW on \in BOOLEAN, PutSchedule(r, on) PROVE GapInv'
  <2>1. \A q \in Repos : rows[q] \in Row =>
          rows'[q] \in Row /\ rows'[q].lastFired = rows[q].lastFired
    <3>1. None \notin Row
      BY NoneAssumption DEF Row, Time
    <3>2. ASSUME rows[r] \in Row
          PROVE  /\ [rows[r] EXCEPT !.enabled = on] \in Row
                 /\ [rows[r] EXCEPT !.enabled = on].lastFired = rows[r].lastFired
      BY <3>2 DEF Row
    <3> QED BY <1>3, <3>1, <3>2 DEF PutSchedule, TypeOK
  <2> QED BY <1>3, <2>1 DEF PutSchedule, fireVars, ClockInv, RowInv, SeenInv,
        GapAfterSuccess
<1>4. ASSUME NEW f \in Fires, NEW r \in Repos, Trigger(f, r) PROVE GapInv'
  <2>1. /\ pc[f] = "none" /\ pc' = [pc EXCEPT ![f] = "reading"]
        /\ recorded[f] = None /\ launched[f] = None
    BY <1>4 DEF Trigger, Goto, ClockInv
  <2>2. ClockInv'
    BY <1>4, <2>1, NoneAssumption DEF Trigger, ClockInv, TypeOK
  <2>3. RowInv' /\ SeenInv' /\ GapAfterSuccess'
    BY <1>4, <2>1 DEF Trigger, dbVars, RowInv, SeenInv, GapAfterSuccess, TypeOK
  <2> QED BY <2>2, <2>3
<1>5. ASSUME NEW f \in Fires, ReadRow(f) PROVE GapInv'
  <2>1. ClockInv' /\ RowInv' /\ GapAfterSuccess'
    BY <1>5 DEF ReadRow, dbVars, ClockInv, RowInv, GapAfterSuccess, TypeOK
  <2>2. SeenInv'
    BY <1>5 DEF ReadRow, RowInv, SeenInv, TypeOK
  <2> QED BY <2>1, <2>2
<1>6. ASSUME NEW f \in Fires, Launch(f) PROVE GapInv'
  <2>1. ClockInv' /\ RowInv' /\ SeenInv'
    BY <1>6 DEF Launch, Goto, dbVars, ClockInv, RowInv, SeenInv, TypeOK
  <2>2. ASSUME NEW e \in Fires, NEW g \in Fires, repo[e] = repo[g],
               recorded[g] # None, launched'[e] # None, triggered[e] > recorded[g]
        PROVE  launched'[e] >= recorded[g] + MinGap
    <3>1. CASE e # f
      BY <1>6, <2>2, <3>1 DEF Launch, GapAfterSuccess, TypeOK
    <3>2. CASE e = f
      <4>1. seen[f].lastFired \in Nat /\ seen[f].lastFired >= recorded[g]
        BY <1>6, <2>2, <3>2 DEF Launch, Goto, SeenInv
      <4>2. launched'[f] = now /\ now >= seen[f].lastFired + MinGap
        BY <1>6, <4>1, NoneAssumption DEF Launch, ShouldFire, TypeOK
      <4>3. recorded[g] \in Nat
        BY <2>2 DEF TypeOK, Time
      <4> QED BY <3>2, <4>1, <4>2, <4>3, LimitsAssumption DEF TypeOK
    <3> QED BY <3>1, <3>2
  <2>3. GapAfterSuccess'
    BY <1>6, <2>2 DEF Launch, GapAfterSuccess
  <2> QED BY <2>1, <2>3
<1>7. ASSUME NEW f \in Fires, RecordFire(f) PROVE GapInv'
  <2>1. /\ repo[f] \in Repos /\ rows[repo[f]] \in Row
        /\ pc[f] = "recording" /\ pc' = [pc EXCEPT ![f] = "over"]
        /\ recorded' = [recorded EXCEPT ![f] = now]
        /\ UNCHANGED <<now, repo, seen, triggered, launched>>
    BY <1>7 DEF RecordFire, Goto, TypeOK, Open, Holding
  <2>2. /\ rows'[repo[f]] \in Row
        /\ rows'[repo[f]].lastFired = now
        /\ \A q \in Repos \ {repo[f]} : rows'[q] = rows[q]
    BY <1>7, <2>1 DEF RecordFire, Row, Time, TypeOK
  <2>3. now \in Nat /\ \A g \in Fires : recorded[g] # None => recorded[g] \in Nat
    BY DEF TypeOK, Time
  <2>4. \A e \in Fires : ~(triggered[e] # None /\ triggered[e] > now)
    BY <2>3 DEF ClockInv, TypeOK, Time
  <2>5. ClockInv'
    BY <2>1, <2>3 DEF ClockInv, TypeOK
  <2>6. RowInv'
    BY <2>1, <2>2, <2>3 DEF RowInv, ClockInv, TypeOK
  <2>7. \A e \in Fires : /\ pc[e] \in Open => triggered[e] # None
                         /\ launched[e] # None => triggered[e] # None
    BY DEF ClockInv, Open, Holding
  <2>8. SeenInv' /\ GapAfterSuccess'
    BY <2>1, <2>4, <2>7 DEF SeenInv, GapAfterSuccess, TypeOK, Open
  <2> QED BY <2>5, <2>6, <2>8
<1>8. ASSUME NEW f \in Fires, RecordError(f) PROVE GapInv'
  <2>1. \A q \in Repos : rows[q] \in Row =>
          rows'[q] \in Row /\ rows'[q].lastFired = rows[q].lastFired
    <3>1. ASSUME rows[repo[f]] \in Row
          PROVE  /\ [rows[repo[f]] EXCEPT !.lastError = TRUE] \in Row
                 /\ [rows[repo[f]] EXCEPT !.lastError = TRUE].lastFired
                      = rows[repo[f]].lastFired
      BY <3>1 DEF Row
    <3> QED BY <1>8, <3>1 DEF RecordError, TypeOK
  <2> QED BY <1>8, <2>1 DEF RecordError, Goto, fireVars, ClockInv, RowInv,
        SeenInv, GapAfterSuccess, TypeOK
<1>9. ASSUME NEW f \in Fires,
             \/ Skip(f) \/ DecryptFails(f) \/ LogSkip(f) \/ LogStart(f)
             \/ LogStartRejected(f) \/ CreateScanRow(f) \/ RunScan(f)
             \/ RecordRejected(f) \/ LogError(f)
      PROVE  GapInv'
  BY <1>9, GapKept DEF Skip, DecryptFails, LogSkip, LogStart, LogStartRejected,
    CreateScanRow, RunScan, RecordRejected, LogError, Goto, dbVars, fireVars, TypeOK
<1>10. CASE UNCHANGED vars
  BY <1>10, GapKept DEF vars, dbVars, fireVars
<1>11. ASSUME NEW r \in Repos, DeleteSchedule(r) PROVE GapInv'
  <2>1. \A g \in Fires : recorded'[g] # None =>
          recorded'[g] = recorded[g] /\ repo[g] # r
    BY <1>11 DEF DeleteSchedule
  <2>2. \A q \in Repos : q # r => rows'[q] = rows[q]
    BY <1>11 DEF DeleteSchedule, TypeOK
  <2> QED BY <1>11, <2>1, <2>2 DEF DeleteSchedule, workerVars, ClockInv, RowInv,
        SeenInv, GapAfterSuccess
<1> QED
  BY <1>1, <1>2, <1>3, <1>4, <1>5, <1>6, <1>7, <1>8, <1>9, <1>10, <1>11
  DEF Next, FireStep

\* A fire that cron starts after the success of an earlier fire of the schedule
\* was recorded launches MinGap after it or later, although fires overlap and
\* read the row before others write it.
THEOREM GapIsKept == Spec => []GapAfterSuccess
<1>1. GapInv => GapAfterSuccess
  BY DEF GapInv
<1> QED BY <1>1, GapInit, GapStep, TypeInit, CapInit, TypeStep, CapStep, PTL DEF Spec
=============================================================================
