------------------------------ MODULE Sandbox ------------------------------
(***************************************************************************)
(* The volumes of the local Docker sandbox: lib/sandbox/executor.ts,       *)
(* cache.ts, cache-eviction.ts and smoke.ts, called by the VERIFY phase of *)
(* lib/agent/runner.ts.                                                    *)
(*                                                                         *)
(* A job is the verification of one patched working tree (verifyScanId).   *)
(* Jobs run concurrently, in one server process or in several, and share   *)
(* the Docker daemon and the ledger file.  Phase A installs into a volume: *)
(* the cache volume of the lockfile's key, or the job's own volume when    *)
(* there is no lockfile.  Phases B and C mount a volume, too.  After a     *)
(* fresh install the cache is pruned to its cap by a task nobody awaits.   *)
(* An action is the code between two answers of the daemon.                *)
(***************************************************************************)
EXTENDS Naturals, FiniteSets

CONSTANTS
  Jobs,      \* verifications
  Keys,      \* cache keys; their order is that of the volume names
  Size,      \* the size of the tree each key stands for
  Cap,       \* CACHE_CAP_BYTES
  Failures,  \* what may go wrong
  None       \* no lockfile

AllFailures ==
  { "install",  \* an install fails or runs out of time
    "docker" }  \* a command to the daemon fails

ASSUME KeysAssumption == Keys \subseteq Nat \ {0} /\ IsFiniteSet(Keys)
ASSUME NoneAssumption == None \notin Keys
ASSUME SizeAssumption == Size \in [Keys -> Nat] /\ Cap \in Nat
ASSUME FailuresAssumption == Failures \subseteq AllFailures

\* What a node_modules volume holds: nothing, an install that was not
\* completed, the tree of an earlier scan or the tree of a job.
States == {"absent", "empty", "broken", "earlier"}

ASSUME JobsAssumption == Jobs \intersect States = {}

VARIABLES
  cache,    \* the volume of every key
  own,      \* the volume volumeName(verifyScanId) of every job
  ledger,   \* logs/cache-ledger.json: last use of every key, 0 without entry
  made,     \* CreatedAt of the cache volumes, 0 when absent
  now,      \* Date.now()
  lock,     \* the cache key of a job's working tree, None without a lockfile
  pc,       \* where the runner is in the VERIFY phase of a job
  hit,      \* cacheHit of runPhaseA
  seen,     \* what phases B and C found in the volume they mounted
  ev,       \* where evictCacheIfNeeded is suspended
  names,    \* its list of volumes
  book,     \* the ledger it has read
  used,     \* lastUsedAt of the volumes, as it has found them
  plan,     \* volumes it has still to remove
  evicted,  \* volumes it has removed
  failed    \* volumes docker did not let it remove

phaseVars == <<lock, pc, hit, seen>>
evictVars == <<ev, names, book, used, plan, evicted, failed>>
vars == <<cache, own, ledger, made, now, phaseVars, evictVars>>

Contents == States \union Jobs
Ended    == {"done", "unverified", "failed"}

TypeOK ==
  /\ cache \in [Keys -> Contents]
  /\ own \in [Jobs -> Contents]
  /\ ledger \in [Keys -> Nat] /\ made \in [Keys -> Nat] /\ now \in Nat
  /\ lock \in [Jobs -> Keys \union {None}]
  /\ pc \in [Jobs -> {"idle", "owning", "ready", "installing", "installed",
                      "tested", "booted"} \union Ended]
  /\ hit \in [Jobs -> BOOLEAN]
  /\ \A j \in Jobs : hit[j] => lock[j] # None
  /\ seen \in [Jobs -> SUBSET Contents]
  /\ ev \in [Jobs -> {"none", "listing", "sizing", "removing", "over", "aborted"}]
  /\ \A j \in Jobs : ev[j] # "none" => lock[j] # None
  /\ names \in [Jobs -> SUBSET Keys]
  /\ book \in [Jobs -> [Keys -> Nat]]
  /\ used \in [Jobs -> [Keys -> Nat]]
  /\ plan \in [Jobs -> SUBSET Keys]
  /\ evicted \in [Jobs -> SUBSET Keys]
  /\ failed \in [Jobs -> SUBSET Keys]

\* Earlier scans have left some cache volumes, used at some time or created
\* before there was a ledger.
Init ==
  /\ cache \in [Keys -> {"absent", "earlier"}]
  /\ own = [j \in Jobs |-> "absent"]
  /\ ledger \in [Keys -> {0, 2}]
  /\ \A k \in Keys : cache[k] = "absent" => ledger[k] = 0
  /\ made = [k \in Keys |-> IF cache[k] = "absent" THEN 0 ELSE 1]
  /\ now = 2
  /\ lock \in [Jobs -> Keys \union {None}]
  /\ pc = [j \in Jobs |-> "idle"]
  /\ hit = [j \in Jobs |-> FALSE]
  /\ seen = [j \in Jobs |-> {}]
  /\ ev = [j \in Jobs |-> "none"]
  /\ names = [j \in Jobs |-> {}]
  /\ book = [j \in Jobs |-> [k \in Keys |-> 0]]
  /\ used = [j \in Jobs |-> [k \in Keys |-> 0]]
  /\ plan = [j \in Jobs |-> {}]
  /\ evicted = [j \in Jobs |-> {}]
  /\ failed = [j \in Jobs |-> {}]
-----------------------------------------------------------------------------
(***************************************************************************)
(* The daemon and the plan of an eviction.                                 *)
(***************************************************************************)
Goto(j, from, to) == pc[j] = from /\ pc' = [pc EXCEPT ![j] = to]

Step(j, from, to) == ev[j] = from /\ ev' = [ev EXCEPT ![j] = to]

DockerMayFail == "docker" \in Failures

\* docker run creates the volume it mounts when there is none.
Mounted(content) == IF content = "absent" THEN "empty" ELSE content

\* docker volume rm refuses a volume that a container mounts.
InUse(k) == \E j \in Jobs : pc[j] = "installing" /\ lock[j] = k

Present == {k \in Keys : cache[k] # "absent"}

\* docker system df: a volume that has gone, or holds nothing, has no size.
SizeNow(k) == IF cache[k] \in {"absent", "empty"} THEN 0 ELSE Size[k]

\* The sum of the sizes, as the number of the bytes in all these volumes.
Total(K) == Cardinality(UNION {{k} \X (1..SizeNow(k)) : k \in K})

\* lastUsedAt: the ledger, else CreatedAt.
LastUsed(k) == IF ledger[k] # 0 THEN ledger[k] ELSE made[k]

\* The order of candidates: by last use, then by name.
UsedBefore(u, k, l) == u[k] < u[l] \/ (u[k] = u[l] /\ k < l)

\* Mutants: the volume to keep is not counted; the loop does not stop at the
\* cap.
BugKeepWeighsNothing(K, u, keep) ==
  LET candidates == K \ {keep}
      left(k) == Total(candidates \ {l \in candidates : UsedBefore(u, l, k)})
  IN  {k \in candidates : left(k) > Cap}

BugEvictAll(K, u, keep) == IF Total(K) > Cap THEN K \ {keep} ELSE {}

\* planEviction: the least recently used volumes, until what is left fits the
\* cap; never the volume to keep.
PlanEviction(K, u, keep) ==
  LET candidates == K \ {keep}
      left(k) == Total(K \ {l \in candidates : UsedBefore(u, l, k)})
  IN  {k \in candidates : left(k) > Cap}
-----------------------------------------------------------------------------
(***************************************************************************)
(* Phase A.                                                                *)
(***************************************************************************)

\* checkCache: a volume that exists is a hit, and so is one that another job is
\* filling.
Found(j) == lock[j] \in Present

\* computeCacheKey, checkCache, whose failure is a miss, and recordCacheUsage.
CheckCache(j) ==
  /\ Goto(j, "idle", "owning")
  /\ \/ hit' = [hit EXCEPT ![j] = Found(j)]
     \/ DockerMayFail /\ UNCHANGED hit
  /\ now' = now + 1
  /\ ledger' = [k \in Keys |-> IF k = lock[j] THEN now' ELSE ledger[k]]
  /\ UNCHANGED <<cache, own, made, lock, seen, evictVars>>

\* A container mounts the volume of phase A.
MountInstallVolume(j) ==
  IF lock[j] = None
  THEN /\ own' = [own EXCEPT ![j] = Mounted(@)]
       /\ UNCHANGED <<cache, made>>
  ELSE /\ cache' = [cache EXCEPT ![lock[j]] = Mounted(@)]
       /\ made' = [made EXCEPT ![lock[j]] = IF @ = 0 THEN now ELSE @]
       /\ UNCHANGED own

\* initVolumeOwnership.
InitVolumeOwnership(j) ==
  /\ Goto(j, "owning", "ready")
  /\ MountInstallVolume(j)
  /\ UNCHANGED <<ledger, now, lock, hit, seen, evictVars>>

\* It stands outside the try block: runPhaseA rejects, and the scan fails.
OwnershipRejected(j) ==
  /\ DockerMayFail
  /\ Goto(j, "owning", "failed")
  /\ MountInstallVolume(j) \/ UNCHANGED <<cache, own, made>>
  /\ UNCHANGED <<ledger, now, lock, hit, seen, evictVars>>

\* The container starts: the install changes the volume until it has ended, on
\* a hit there is nothing but an echo.
StartInstall(j) ==
  /\ Goto(j, "ready", "installing")
  /\ IF hit[j] THEN MountInstallVolume(j)
     ELSE IF lock[j] = None
     THEN own' = [own EXCEPT ![j] = "broken"] /\ UNCHANGED <<cache, made>>
     ELSE /\ cache' = [cache EXCEPT ![lock[j]] = "broken"]
          /\ made' = [made EXCEPT ![lock[j]] = IF @ = 0 THEN now ELSE @]
          /\ UNCHANGED own
  /\ UNCHANGED <<ledger, now, lock, hit, seen, evictVars>>

\* What an install leaves behind: its tree, or neither tree when another one
\* is still writing to the same volume.
Installed(j) ==
  IF hit[j] THEN UNCHANGED <<cache, own>>
  ELSE IF lock[j] = None THEN own' = [own EXCEPT ![j] = j] /\ UNCHANGED cache
  ELSE /\ UNCHANGED own
       /\ \/ cache' = [cache EXCEPT ![lock[j]] = j]
          \/ /\ \E i \in Jobs \ {j} :
                  pc[i] = "installing" /\ lock[i] = lock[j] /\ ~hit[i]
             /\ UNCHANGED cache

\* Phase A succeeds; a fresh install into the cache starts an eviction.
FinishInstall(j) ==
  /\ Goto(j, "installing", "installed")
  /\ Installed(j)
  /\ ev' = [ev EXCEPT ![j] = IF hit[j] \/ lock[j] = None THEN @ ELSE "listing"]
  /\ UNCHANGED <<ledger, made, now, lock, hit, seen, names, book, used, plan, evicted, failed>>

\* Phase A fails: no phase B and no teardown.  A timeout ends the command and
\* not the container, whose install may still get done.
InstallFails(j) ==
  /\ "install" \in Failures
  /\ Goto(j, "installing", "unverified")
  /\ Installed(j) \/ UNCHANGED <<cache, own>>
  /\ UNCHANGED <<ledger, made, now, lock, hit, seen, evictVars>>
-----------------------------------------------------------------------------
(***************************************************************************)
(* Phases B and C and the teardown, all on volumeName(verifyScanId).       *)
(***************************************************************************)
MountOwn(j) ==
  /\ own' = [own EXCEPT ![j] = Mounted(@)]
  /\ seen' = [seen EXCEPT ![j] = @ \union {own'[j]}]

\* runPhaseB never rejects; a command that fails is a test that fails.
RunTest(j) ==
  /\ Goto(j, "installed", "tested")
  /\ \/ MountOwn(j)
     \/ DockerMayFail /\ UNCHANGED <<own, seen>>
  /\ UNCHANGED <<cache, ledger, made, now, lock, hit, evictVars>>

\* Only after a type check that passed, and when the scan asked for it.
RunSmoke(j) ==
  /\ Goto(j, "tested", "booted")
  /\ \/ MountOwn(j)
     \/ DockerMayFail /\ UNCHANGED <<own, seen>>
  /\ UNCHANGED <<cache, ledger, made, now, lock, hit, evictVars>>

\* cleanupVolume; the runner ignores its result.
Teardown(j) ==
  /\ Goto(j, "tested", "done") \/ Goto(j, "booted", "done")
  /\ \/ own' = [own EXCEPT ![j] = "absent"]
     \/ DockerMayFail /\ UNCHANGED own
  /\ UNCHANGED <<cache, ledger, made, now, lock, hit, seen, evictVars>>
-----------------------------------------------------------------------------
(***************************************************************************)
(* evictCacheIfNeeded, for the job whose install it follows.               *)
(***************************************************************************)
ListCacheVolumes(j) ==
  /\ Step(j, "listing", "sizing")
  /\ names' = [names EXCEPT ![j] = Present]
  /\ UNCHANGED <<cache, own, ledger, made, now, phaseVars, book, used, plan, evicted, failed>>

\* The sizes have come: the ledger is read and the plan is made.
PlanRemovals(j) ==
  LET lastUsed == [k \in Keys |-> LastUsed(k)]
      todo == PlanEviction(names[j], lastUsed, lock[j])
  IN  /\ names' = [names EXCEPT ![j] = {}]
      /\ IF todo = {}
         THEN Step(j, "sizing", "over") /\ UNCHANGED <<book, used, plan>>
         ELSE /\ Step(j, "sizing", "removing")
              /\ book' = [book EXCEPT ![j] = ledger]
              /\ used' = [used EXCEPT ![j] = lastUsed]
              /\ plan' = [plan EXCEPT ![j] = todo]
      /\ UNCHANGED <<cache, own, ledger, made, now, phaseVars, evicted, failed>>

\* docker volume ls or docker system df fails.
EvictionAborts(j) ==
  /\ DockerMayFail
  /\ Step(j, "listing", "aborted") \/ Step(j, "sizing", "aborted")
  /\ names' = [names EXCEPT ![j] = {}]
  /\ UNCHANGED <<cache, own, ledger, made, now, phaseVars, book, used, plan, evicted, failed>>

\* docker volume rm of the next volume of the plan.
RemoveVolume(j, k) ==
  /\ ev[j] = "removing" /\ k \in plan[j]
  /\ \A l \in plan[j] \ {k} : UsedBefore(used[j], k, l)
  /\ plan' = [plan EXCEPT ![j] = @ \ {k}]
  /\ \/ /\ k \in Present /\ ~InUse(k)
        /\ cache' = [cache EXCEPT ![k] = "absent"]
        /\ made' = [made EXCEPT ![k] = 0]
        /\ evicted' = [evicted EXCEPT ![j] = @ \union {k}]
        /\ UNCHANGED failed
     \/ /\ k \notin Present \/ InUse(k) \/ DockerMayFail
        /\ failed' = [failed EXCEPT ![j] = @ \union {k}]
        /\ UNCHANGED <<cache, made, evicted>>
  /\ UNCHANGED <<own, ledger, now, phaseVars, ev, names, book, used>>

\* writeLedger: the ledger as it was read, without the volumes removed.
FinishEviction(j) ==
  /\ plan[j] = {} /\ Step(j, "removing", "over")
  /\ ledger' = [k \in Keys |-> IF k \in evicted[j] THEN 0 ELSE book[j][k]]
  /\ book' = [book EXCEPT ![j] = [k \in Keys |-> 0]]
  /\ used' = [used EXCEPT ![j] = [k \in Keys |-> 0]]
  /\ evicted' = [evicted EXCEPT ![j] = {}]
  /\ UNCHANGED <<cache, own, made, now, phaseVars, names, plan, failed>>
-----------------------------------------------------------------------------
PhaseStep(j) ==
  \/ CheckCache(j) \/ InitVolumeOwnership(j) \/ OwnershipRejected(j)
  \/ StartInstall(j) \/ FinishInstall(j) \/ InstallFails(j)
  \/ RunTest(j) \/ RunSmoke(j) \/ Teardown(j)

EvictionStep(j) ==
  \/ ListCacheVolumes(j) \/ PlanRemovals(j) \/ EvictionAborts(j)
  \/ \E k \in Keys : RemoveVolume(j, k)
  \/ FinishEviction(j)

Next == \E j \in Jobs : PhaseStep(j) \/ EvictionStep(j)

Spec == Init /\ [][Next]_vars
-----------------------------------------------------------------------------
(***************************************************************************)
(* Properties.                                                             *)
(***************************************************************************)

\* "The post-Phase-A install volume is still valid; we reuse it": with or
\* without a lockfile.  Not true of the code: with one, phases B and C mount
\* another volume than phase A.
TestsSeeTheInstall == \A j \in Jobs : "empty" \notin seen[j]

\* "cache hit -> skip the install (the volume is already populated)".  Not true
\* of the code, for which a volume is populated as soon as it exists: another
\* job may have created it and not installed into it yet, or failed to.
HitsArePopulated ==
  \A j \in Jobs : hit[j] /\ pc[j] = "owning" =>
    cache[lock[j]] \notin {"empty", "broken"}

\* "we never evict the volume the current scan is about to use in Phase B": no
\* eviction removes the volume phase A of a job that is not over has installed
\* into.  Not true of the code, whose evictions keep the volume of their own scan.
\* (Phase B does not mount it in the end, see TestsSeeTheInstall.)
ActiveVolumesStay ==
  [][\A j \in Jobs : pc[j] = "installed" /\ lock[j] \in Present
       => lock[j] \in Present']_vars

\* "the runner always tries teardown in `finally`": no job that is over leaves
\* its own volume, if the daemon does what it is told.  Not true of the code,
\* which tears down where phase A has succeeded.
NoVolumeIsLeft == \A j \in Jobs : pc[j] \in Ended => own[j] = "absent"

AtRest == \A j \in Jobs : pc[j] \in Ended /\ ev[j] \in {"none", "over", "aborted"}

\* The cap: when everything has come to rest after fresh installs, the cache
\* fits it, or just one volume, a fresh one, holds anything, unless a removal,
\* an install or a listing failed.  (A volume that was evicted between the look
\* at it and its mount is there again, and empty.)
CapAtRest ==
  LET fresh == {j \in Jobs : lock[j] # None /\ ~hit[j]}
  IN  /\ AtRest /\ fresh # {}
      /\ \A j \in Jobs : pc[j] = "done" /\ failed[j] = {} /\ ev[j] # "aborted"
      => \/ Total(Present) <= Cap
         \/ \E j \in fresh : \A k \in Present \ {lock[j]} : SizeNow(k) = 0

\* An eviction that no other one overlaps removes a volume only while the
\* cache is over its cap, whatever was installed since it made its plan.
FrugalEviction ==
  [][\A j \in Jobs :
       ~(evicted'[j] \subseteq evicted[j]) /\ (\A i \in Jobs \ {j} : ev[i] = "none")
       => Total(Present) > Cap]_vars
=============================================================================
