--------------------------- MODULE SandboxProofs ---------------------------
(***************************************************************************)
(* What the cache keeps, for any jobs, keys, sizes, cap and failures:      *)
(* theorems about Sandbox.                                                 *)
(***************************************************************************)
EXTENDS Sandbox, FiniteSetTheorems, TLAPS

\* Every state of TypeOK comes from a step of one of the two tasks of a job.
LEMMA TypeInit == Init => TypeOK
<1> SUFFICES ASSUME Init PROVE TypeOK
  OBVIOUS
<1> QED  BY DEF Init, TypeOK, Contents, States, Ended

LEMMA VolumeContents ==
  /\ "absent" \in Contents /\ "empty" \in Contents /\ "broken" \in Contents
  /\ Jobs \subseteq Contents
  /\ \A x \in Contents : Mounted(x) \in Contents
<1> QED  BY DEF Contents, States, Mounted

LEMMA MountType ==
  ASSUME TypeOK, NEW j \in Jobs, MountInstallVolume(j)
  PROVE  /\ cache' \in [Keys -> Contents]
         /\ own' \in [Jobs -> Contents]
         /\ made' \in [Keys -> Nat]
<1>1. CASE lock[j] = None
  <2>1. own' = [own EXCEPT ![j] = Mounted(own[j])] /\ UNCHANGED <<cache, made>>
    BY <1>1 DEF MountInstallVolume
  <2>2. Mounted(own[j]) \in Contents
    BY VolumeContents DEF TypeOK
  <2> QED  BY <2>1, <2>2 DEF TypeOK
<1>2. CASE lock[j] # None
  <2> DEFINE k == lock[j]
  <2>1. k \in Keys
    BY <1>2 DEF TypeOK
  <2>2. /\ cache' = [cache EXCEPT ![k] = Mounted(cache[k])]
        /\ made' = [made EXCEPT ![k] = IF made[k] = 0 THEN now ELSE made[k]]
        /\ UNCHANGED own
    BY <1>2 DEF MountInstallVolume
  <2>3. Mounted(cache[k]) \in Contents
    BY <2>1, VolumeContents DEF TypeOK
  <2> HIDE DEF k
  <2> QED  BY <2>1, <2>2, <2>3 DEF TypeOK
<1> QED  BY <1>1, <1>2

LEMMA PhaseTypeStep ==
  ASSUME TypeOK, NEW j \in Jobs, PhaseStep(j)
  PROVE  TypeOK'
<1> USE DEF TypeOK, Goto, Ended, evictVars
<1>1. CASE CheckCache(j)
  <2>1. hit' \in [Jobs -> BOOLEAN] /\ \A i \in Jobs : hit'[i] => lock[i] # None
    <3>1. Found(j) \in BOOLEAN /\ (Found(j) => lock[j] # None)
      BY NoneAssumption DEF Found, Present
    <3>2. hit' = [hit EXCEPT ![j] = Found(j)] \/ hit' = hit
      BY <1>1 DEF CheckCache
    <3> QED  BY <3>1, <3>2
  <2>2. now' \in Nat /\ ledger' \in [Keys -> Nat]
    BY <1>1 DEF CheckCache
  <2> QED  BY <1>1, <2>1, <2>2 DEF CheckCache
<1>2. CASE InitVolumeOwnership(j)
  BY <1>2, MountType DEF InitVolumeOwnership
<1>3. CASE OwnershipRejected(j)
  <2>1. \/ MountInstallVolume(j)
        \/ UNCHANGED <<cache, own, made>>
    BY <1>3 DEF OwnershipRejected
  <2>2. /\ cache' \in [Keys -> Contents]
        /\ own' \in [Jobs -> Contents]
        /\ made' \in [Keys -> Nat]
    BY <2>1, MountType
  <2> QED  BY <1>3, <2>2 DEF OwnershipRejected
<1>4. CASE StartInstall(j)
  <2>1. /\ cache' \in [Keys -> Contents]
        /\ own' \in [Jobs -> Contents]
        /\ made' \in [Keys -> Nat]
    <3>1. CASE hit[j]
      BY <1>4, <3>1, MountType DEF StartInstall
    <3>2. CASE ~hit[j] /\ lock[j] = None
      BY <1>4, <3>2, VolumeContents DEF StartInstall
    <3>3. CASE ~hit[j] /\ lock[j] # None
      <4> DEFINE k == lock[j]
      <4>1. k \in Keys
        BY <3>3
      <4>2. /\ cache' = [cache EXCEPT ![k] = "broken"]
            /\ made' = [made EXCEPT ![k] = IF made[k] = 0 THEN now ELSE made[k]]
            /\ UNCHANGED own
        BY <1>4, <3>3 DEF StartInstall
      <4> HIDE DEF k
      <4> QED  BY <4>1, <4>2, VolumeContents
    <3> QED  BY <3>1, <3>2, <3>3
  <2> QED  BY <1>4, <2>1 DEF StartInstall
<1>5. ASSUME Installed(j) \/ UNCHANGED <<cache, own>>
      PROVE  cache' \in [Keys -> Contents] /\ own' \in [Jobs -> Contents]
  <2>1. \/ UNCHANGED <<cache, own>>
        \/ own' = [own EXCEPT ![j] = j] /\ UNCHANGED cache
        \/ lock[j] \in Keys /\ cache' = [cache EXCEPT ![lock[j]] = j] /\ UNCHANGED own
    BY <1>5 DEF Installed
  <2>2. j \in Contents
    BY VolumeContents
  <2>3. cache \in [Keys -> Contents] /\ own \in [Jobs -> Contents]
    OBVIOUS
  <2> HIDE DEF TypeOK
  <2> QED  BY <2>1, <2>2, <2>3
<1>6. CASE FinishInstall(j)
  <2>1. ev' \in [Jobs -> {"none", "listing", "sizing", "removing", "over", "aborted"}]
    BY <1>6 DEF FinishInstall
  <2>2. \A i \in Jobs : ev'[i] # "none" => lock[i] # None
    BY <1>6 DEF FinishInstall
  <2> QED  BY <1>5, <1>6, <2>1, <2>2 DEF FinishInstall
<1>7. CASE InstallFails(j)
  BY <1>5, <1>7 DEF InstallFails
<1>8. ASSUME MountOwn(j) \/ UNCHANGED <<own, seen>>
      PROVE  own' \in [Jobs -> Contents] /\ seen' \in [Jobs -> SUBSET Contents]
  <2>1. own' \in [Jobs -> Contents]
    <3>1. Mounted(own[j]) \in Contents
      BY VolumeContents
    <3> QED  BY <1>8, <3>1 DEF MountOwn
  <2>2. own'[j] \in Contents
    BY <2>1
  <2>3. \/ seen' = [seen EXCEPT ![j] = seen[j] \union {own'[j]}]
        \/ seen' = seen
    BY <1>8 DEF MountOwn
  <2>4. seen[j] \union {own'[j]} \in SUBSET Contents
    BY <2>2
  <2> HIDE DEF TypeOK
  <2>5. seen \in [Jobs -> SUBSET Contents]
    BY DEF TypeOK
  <2> QED  BY <2>1, <2>3, <2>4, <2>5
<1>9. CASE RunTest(j)
  BY <1>8, <1>9 DEF RunTest
<1>10. CASE RunSmoke(j)
  BY <1>8, <1>10 DEF RunSmoke
<1>11. CASE Teardown(j)
  <2>1. own' \in [Jobs -> Contents]
    BY <1>11, VolumeContents DEF Teardown
  <2> QED  BY <1>11, <2>1 DEF Teardown
<1> QED
  BY <1>1, <1>2, <1>3, <1>4, <1>6, <1>7, <1>9, <1>10, <1>11 DEF PhaseStep

LEMMA EvictionTypeStep ==
  ASSUME TypeOK, NEW j \in Jobs, EvictionStep(j)
  PROVE  TypeOK'
<1> USE DEF TypeOK, Step, phaseVars
<1>1. CASE ListCacheVolumes(j)
  BY <1>1 DEF ListCacheVolumes, Present
<1>2. CASE PlanRemovals(j)
  <2> DEFINE lastUsed == [k \in Keys |-> LastUsed(k)]
             todo     == PlanEviction(names[j], lastUsed, lock[j])
  <2>1. lastUsed \in [Keys -> Nat]
    BY DEF LastUsed
  <2>2. todo \subseteq Keys
    BY DEF PlanEviction
  <2>3. /\ ev' \in [Jobs -> {"none", "listing", "sizing", "removing", "over", "aborted"}]
        /\ \A i \in Jobs : ev'[i] # "none" => lock[i] # None
    BY <1>2 DEF PlanRemovals
  <2>4. /\ book' \in [Jobs -> [Keys -> Nat]]
        /\ used' \in [Jobs -> [Keys -> Nat]]
        /\ plan' \in [Jobs -> SUBSET Keys]
    <3> HIDE DEF todo, lastUsed
    <3>1. CASE todo = {}
      BY <1>2, <3>1 DEF PlanRemovals, todo, lastUsed
    <3>2. CASE todo # {}
      <4>1. /\ book' = [book EXCEPT ![j] = ledger]
            /\ used' = [used EXCEPT ![j] = lastUsed]
            /\ plan' = [plan EXCEPT ![j] = todo]
        BY <1>2, <3>2 DEF PlanRemovals, todo, lastUsed
      <4> QED  BY <4>1, <2>1, <2>2
    <3> QED  BY <3>1, <3>2
  <2>5. names' \in [Jobs -> SUBSET Keys]
    BY <1>2 DEF PlanRemovals
  <2> QED  BY <1>2, <2>3, <2>4, <2>5 DEF PlanRemovals
<1>3. CASE EvictionAborts(j)
  BY <1>3 DEF EvictionAborts
<1>4. ASSUME NEW k \in Keys, RemoveVolume(j, k)
      PROVE  TypeOK'
  <2>1. cache' \in [Keys -> Contents] /\ made' \in [Keys -> Nat]
    <3>1. \/ /\ cache' = [cache EXCEPT ![k] = "absent"]
             /\ made' = [made EXCEPT ![k] = 0]
          \/ UNCHANGED <<cache, made>>
      BY <1>4 DEF RemoveVolume
    <3>2. /\ cache \in [Keys -> Contents] /\ made \in [Keys -> Nat]
          /\ "absent" \in Contents
      BY VolumeContents
    <3> HIDE DEF TypeOK
    <3> QED  BY <3>1, <3>2
  <2>2. /\ plan' \in [Jobs -> SUBSET Keys]
        /\ evicted' \in [Jobs -> SUBSET Keys]
        /\ failed' \in [Jobs -> SUBSET Keys]
    <3>1. /\ plan[j] \ {k} \in SUBSET Keys
          /\ evicted[j] \union {k} \in SUBSET Keys
          /\ failed[j] \union {k} \in SUBSET Keys
      BY <1>4
    <3>2. /\ plan' = [plan EXCEPT ![j] = plan[j] \ {k}]
          /\ \/ evicted' = [evicted EXCEPT ![j] = evicted[j] \union {k}]
             \/ evicted' = evicted
          /\ \/ failed' = [failed EXCEPT ![j] = failed[j] \union {k}]
             \/ failed' = failed
      BY <1>4 DEF RemoveVolume
    <3>3. /\ plan \in [Jobs -> SUBSET Keys]
          /\ evicted \in [Jobs -> SUBSET Keys]
          /\ failed \in [Jobs -> SUBSET Keys]
      OBVIOUS
    <3> HIDE DEF TypeOK
    <3> QED  BY <3>1, <3>2, <3>3
  <2> QED  BY <1>4, <2>1, <2>2 DEF RemoveVolume
<1>5. CASE FinishEviction(j)
  <2>1. ledger' \in [Keys -> Nat]
    BY <1>5 DEF FinishEviction
  <2>2. /\ book' \in [Jobs -> [Keys -> Nat]]
        /\ used' \in [Jobs -> [Keys -> Nat]]
        /\ evicted' \in [Jobs -> SUBSET Keys]
    BY <1>5 DEF FinishEviction
  <2> QED  BY <1>5, <2>1, <2>2 DEF FinishEviction
<1> QED  BY <1>1, <1>2, <1>3, <1>4, <1>5 DEF EvictionStep

LEMMA TypeStep == TypeOK /\ [Next]_vars => TypeOK'
<1> SUFFICES ASSUME TypeOK, [Next]_vars PROVE TypeOK'
  OBVIOUS
<1>1. CASE UNCHANGED vars
  BY <1>1 DEF vars, phaseVars, evictVars, TypeOK
<1>2. CASE Next
  BY <1>2, PhaseTypeStep, EvictionTypeStep DEF Next
<1> QED  BY <1>1, <1>2

\* Type correctness of the sandbox: a hit has a key, and an eviction follows
\* an install into the cache only.
THEOREM TypeCorrect == Spec => []TypeOK
<1> QED  BY TypeInit, TypeStep, PTL DEF Spec
-----------------------------------------------------------------------------
(***************************************************************************)
(* Sizes.  Whatever holds no more bytes is no larger, and the only facts   *)
(* about sums that are needed follow from that one.                        *)
(***************************************************************************)

\* SizeNow and Total, of any contents of the volumes.
SizeIn(c, k) == IF c[k] \in {"absent", "empty"} THEN 0 ELSE Size[k]

BytesOf(c, k) == {k} \X (1..SizeIn(c, k))

Bytes(c, K) == UNION {BytesOf(c, k) : k \in K}

TotalIn(c, K) == Cardinality(Bytes(c, K))

LEMMA SizeType == \A c : \A k \in Keys : SizeIn(c, k) \in Nat
<1> QED  BY SizeAssumption DEF SizeIn

LEMMA BytesFinite ==
  ASSUME NEW c, NEW K \in SUBSET Keys
  PROVE  IsFiniteSet(Bytes(c, K))
<1> DEFINE S == {BytesOf(c, k) : k \in K}
           f == [k \in K |-> BytesOf(c, k)]
<1>1. IsFiniteSet(K)
  BY KeysAssumption, FS_Subset
<1>2. f \in Surjection(K, S)
  BY DEF Surjection
<1>3. IsFiniteSet(S)
  <2> HIDE DEF f, S
  <2> QED  BY <1>1, <1>2, FS_Surjection
<1>4. ASSUME NEW k \in K PROVE IsFiniteSet(BytesOf(c, k))
  <2>1. SizeIn(c, k) \in Int /\ 1 \in Int
    BY SizeType
  <2>2. IsFiniteSet(1..SizeIn(c, k))
    BY <2>1, FS_Interval
  <2>3. IsFiniteSet({k})
    BY FS_Singleton
  <2> QED  BY <2>2, <2>3, FS_Product DEF BytesOf
<1>5. \A T \in S : IsFiniteSet(T)
  BY <1>4
<1> HIDE DEF S
<1>6. IsFiniteSet(UNION S)
  BY <1>3, <1>5, FS_UNION
<1> QED  BY <1>6 DEF Bytes, S

LEMMA NoMoreBytes ==
  ASSUME NEW c, NEW d, NEW K \in SUBSET Keys, NEW L \in SUBSET Keys,
         \A k \in K : \/ SizeIn(c, k) = 0
                      \/ k \in L /\ SizeIn(c, k) <= SizeIn(d, k)
  PROVE  /\ TotalIn(c, K) \in Nat /\ TotalIn(d, L) \in Nat
         /\ TotalIn(c, K) <= TotalIn(d, L)
<1>1. IsFiniteSet(Bytes(c, K)) /\ IsFiniteSet(Bytes(d, L))
  BY BytesFinite
<1>2. Bytes(c, K) \subseteq Bytes(d, L)
  <2> SUFFICES ASSUME NEW k \in K, NEW b \in BytesOf(c, k)
               PROVE  b \in Bytes(d, L)
    BY DEF Bytes
  <2>1. PICK n \in 1..SizeIn(c, k) : b = <<k, n>>
    BY DEF BytesOf
  <2>2. SizeIn(c, k) \in Nat /\ SizeIn(d, k) \in Nat
    BY SizeType
  <2>3. k \in L /\ n \in 1..SizeIn(d, k)
    BY <2>1, <2>2
  <2>4. b \in BytesOf(d, k)
    BY <2>1, <2>3 DEF BytesOf
  <2> QED  BY <2>3, <2>4 DEF Bytes
<1>3. Cardinality(Bytes(c, K)) <= Cardinality(Bytes(d, L))
  BY <1>1, <1>2, FS_Subset
<1> QED  BY <1>1, <1>3, FS_CardinalityType DEF TotalIn

LEMMA TotalBytes == \A K : Total(K) = TotalIn(cache, K)
<1> QED  BY DEF Total, TotalIn, Bytes, BytesOf, SizeNow, SizeIn

LEMMA LeastNumber ==
  ASSUME NEW S \in SUBSET Nat, S # {}
  PROVE  \E x \in S : \A y \in S : x <= y
<1>1. \E x \in S : \A y \in S : <<y, x>> \notin OpToRel(<, Nat)
  BY NatLessThanWellFounded, WFMin, Zenon
<1>2. OpToRel(<, Nat) = {p \in Nat \X Nat : p[1] < p[2]}
  BY Zenon DEF OpToRel
<1>3. \A x, y \in S : <<y, x>> \notin {p \in Nat \X Nat : p[1] < p[2]} => x <= y
  OBVIOUS
<1> QED  BY <1>1, <1>2, <1>3, Zenon

\* The least recently used volume of a set; the name decides among equals.
LEMMA LeastUsed ==
  ASSUME NEW S \in SUBSET Keys, S # {}, NEW u \in [Keys -> Nat]
  PROVE  \E m \in S : \A k \in S : ~UsedBefore(u, k, m)
<1> DEFINE T == {u[k] : k \in S}
<1>1. PICK t \in T : \A r \in T : t <= r
  <2>1. T \subseteq Nat /\ T # {}
    OBVIOUS
  <2> HIDE DEF T
  <2> QED  BY <2>1, LeastNumber
<1> DEFINE Z == {k \in S : u[k] = t}
<1>2. PICK m \in Z : \A k \in Z : m <= k
  <2>1. Z \subseteq Nat /\ Z # {}
    BY <1>1, KeysAssumption
  <2> HIDE DEF Z
  <2> QED  BY <2>1, LeastNumber
<1>3. ASSUME NEW k \in S PROVE ~UsedBefore(u, k, m)
  <2>1. u[m] <= u[k] /\ u[m] \in Nat /\ u[k] \in Nat
    BY <1>1, <1>2
  <2>2. u[k] = u[m] => m <= k
    BY <1>2
  <2>3. k \in Nat /\ m \in Nat
    BY <1>2, KeysAssumption
  <2> QED  BY <2>1, <2>2, <2>3 DEF UsedBefore
<1> QED  BY <1>2, <1>3

\* What planEviction leaves fits the cap, unless it leaves nothing but the
\* volume to keep.
LEMMA PlanLeavesTheCap ==
  ASSUME NEW K \in SUBSET Keys, NEW u \in [Keys -> Nat], NEW keep
  PROVE  /\ PlanEviction(K, u, keep) \subseteq K \ {keep}
         /\ \/ TotalIn(cache, K \ PlanEviction(K, u, keep)) <= Cap
            \/ K \ PlanEviction(K, u, keep) \subseteq {keep}
<1> DEFINE P == PlanEviction(K, u, keep)
           C == K \ {keep}
           After(m) == K \ {l \in C : UsedBefore(u, l, m)}
<1>1. \A k : k \in P <=> k \in C /\ TotalIn(cache, After(k)) > Cap
  BY TotalBytes DEF PlanEviction
<1> HIDE DEF P
<1>2. ASSUME ~(K \ P \subseteq {keep}) PROVE TotalIn(cache, K \ P) <= Cap
  <2>1. C \ P # {} /\ C \ P \in SUBSET Keys
    BY <1>2
  <2>2. PICK m \in C \ P : \A k \in C \ P : ~UsedBefore(u, k, m)
    BY <2>1, LeastUsed
  <2>3. K \ P \subseteq After(m)
    BY <2>2
  <2> DEFINE A == After(m)
  <2>4. A \in SUBSET Keys /\ K \ P \in SUBSET Keys
    OBVIOUS
  <2>5. ~(TotalIn(cache, A) > Cap)
    BY <1>1, <2>2
  <2> HIDE DEF A
  <2>6. \A k \in K \ P : SizeIn(cache, k) <= SizeIn(cache, k)
    BY SizeType
  <2>7. /\ TotalIn(cache, K \ P) \in Nat /\ TotalIn(cache, A) \in Nat
        /\ TotalIn(cache, K \ P) <= TotalIn(cache, A)
    BY <2>3, <2>4, <2>6, NoMoreBytes DEF A
  <2> QED  BY <2>5, <2>7, SizeAssumption
<1> QED  BY <1>1, <1>2 DEF P
-----------------------------------------------------------------------------
(***************************************************************************)
(* What a step does to the sizes.                                          *)
(***************************************************************************)

\* Mounting a volume puts nothing in it.
LEMMA MountSizes ==
  ASSUME TypeOK, NEW j \in Jobs, MountInstallVolume(j)
  PROVE  \A k \in Keys : SizeIn(cache', k) = SizeIn(cache, k)
<1>1. \/ UNCHANGED cache
      \/ cache' = [cache EXCEPT ![lock[j]] = Mounted(cache[lock[j]])]
  BY DEF MountInstallVolume
<1>2. cache \in [Keys -> Contents]
  BY DEF TypeOK
<1>3. \A k \in Keys : cache'[k] = cache[k] \/ cache'[k] = Mounted(cache[k])
  BY <1>1, <1>2
<1> QED  BY <1>3 DEF SizeIn, Mounted

\* No step of phase A, B or C takes anything out of a cache volume.
LEMMA PhaseSizes ==
  ASSUME TypeOK, NEW j \in Jobs, PhaseStep(j)
  PROVE  \A k \in Keys : SizeIn(cache, k) <= SizeIn(cache', k)
<1>1. \A k \in Keys : SizeIn(cache, k) \in Nat /\ SizeIn(cache', k) \in Nat
  BY SizeType
<1>2. \/ UNCHANGED cache
      \/ MountInstallVolume(j)
      \/ \E c \in {"broken", j} : cache' = [cache EXCEPT ![lock[j]] = c]
  BY DEF PhaseStep, CheckCache, InitVolumeOwnership, OwnershipRejected, StartInstall,
         FinishInstall, InstallFails, Installed, RunTest, RunSmoke, Teardown
<1>3. CASE UNCHANGED cache
  BY <1>1, <1>3
<1>4. CASE MountInstallVolume(j)
  BY <1>1, <1>4, MountSizes
<1>5. ASSUME NEW c \in {"broken", j}, cache' = [cache EXCEPT ![lock[j]] = c]
      PROVE  \A k \in Keys : SizeIn(cache, k) <= SizeIn(cache', k)
  <2>1. c \notin {"absent", "empty"}
    BY JobsAssumption DEF States
  <2>2. cache \in [Keys -> Contents]
    BY DEF TypeOK
  <2>3. \A k \in Keys : cache'[k] = cache[k] \/ cache'[k] = c
    BY <1>5, <2>2
  <2>4. \A k \in Keys : Size[k] \in Nat
    BY SizeAssumption
  <2> QED  BY <2>1, <2>3, <2>4 DEF SizeIn
<1> QED  BY <1>2, <1>3, <1>4, <1>5
-----------------------------------------------------------------------------
(***************************************************************************)
(* Which evictions there are.                                              *)
(***************************************************************************)
AfterInstall == {"installed", "tested", "booted", "done"}

\* An eviction follows every fresh install into the cache and nothing else;
\* it has a plan only while it removes, and never one with the volume to keep.
Evictions ==
  \A j \in Jobs :
    /\ ev[j] # "none" => lock[j] # None /\ ~hit[j] /\ pc[j] \in AfterInstall
    /\ lock[j] # None /\ ~hit[j] /\ pc[j] \in AfterInstall => ev[j] # "none"
    /\ ev[j] # "removing" => plan[j] = {}
    /\ lock[j] \notin plan[j]

LEMMA EvictionsInit == Init => Evictions
<1> QED  BY DEF Init, Evictions, AfterInstall

LEMMA EvictionsPhaseStep ==
  ASSUME TypeOK, Evictions, NEW j \in Jobs, PhaseStep(j)
  PROVE  Evictions'
<1> USE DEF TypeOK, Evictions, AfterInstall, Goto, evictVars
<1>1. CASE CheckCache(j)
  BY <1>1 DEF CheckCache
<1>2. CASE InitVolumeOwnership(j)
  BY <1>2 DEF InitVolumeOwnership
<1>3. CASE OwnershipRejected(j)
  BY <1>3 DEF OwnershipRejected
<1>4. CASE StartInstall(j)
  BY <1>4 DEF StartInstall
<1>5. CASE FinishInstall(j)
  BY <1>5 DEF FinishInstall
<1>6. CASE InstallFails(j)
  BY <1>6 DEF InstallFails
<1>7. CASE RunTest(j)
  BY <1>7 DEF RunTest
<1>8. CASE RunSmoke(j)
  BY <1>8 DEF RunSmoke
<1>9. CASE Teardown(j)
  BY <1>9 DEF Teardown
<1> QED
  BY <1>1, <1>2, <1>3, <1>4, <1>5, <1>6, <1>7, <1>8, <1>9 DEF PhaseStep

LEMMA EvictionsEvictionStep ==
  ASSUME TypeOK, Evictions, NEW j \in Jobs, EvictionStep(j)
  PROVE  Evictions'
<1> USE DEF TypeOK, Evictions, Step, phaseVars
<1>1. CASE ListCacheVolumes(j)
  BY <1>1 DEF ListCacheVolumes
<1>2. CASE PlanRemovals(j)
  <2> DEFINE lastUsed == [k \in Keys |-> LastUsed(k)]
             todo     == PlanEviction(names[j], lastUsed, lock[j])
  <2>1. lock[j] \notin todo
    BY DEF PlanEviction
  <2>2. /\ ev[j] = "sizing"
        /\ UNCHANGED <<lock, pc, hit>>
        /\ \/ ev' = [ev EXCEPT ![j] = "over"] /\ UNCHANGED plan
           \/ ev' = [ev EXCEPT ![j] = "removing"] /\ plan' = [plan EXCEPT ![j] = todo]
    BY <1>2 DEF PlanRemovals
  <2> HIDE DEF todo
  <2> QED  BY <2>1, <2>2
<1>3. CASE EvictionAborts(j)
  BY <1>3 DEF EvictionAborts
<1>4. ASSUME NEW k \in Keys, RemoveVolume(j, k)
      PROVE  Evictions'
  <2>1. /\ ev[j] = "removing" /\ k \in plan[j]
        /\ plan' = [plan EXCEPT ![j] = plan[j] \ {k}]
        /\ UNCHANGED <<lock, pc, hit, ev>>
    BY <1>4 DEF RemoveVolume
  <2> QED  BY <2>1
<1>5. CASE FinishEviction(j)
  BY <1>5 DEF FinishEviction
<1> QED  BY <1>1, <1>2, <1>3, <1>4, <1>5 DEF EvictionStep

LEMMA EvictionsStep == TypeOK /\ Evictions /\ [Next]_vars => Evictions'
<1> SUFFICES ASSUME TypeOK, Evictions, [Next]_vars PROVE Evictions'
  OBVIOUS
<1>1. CASE UNCHANGED vars
  BY <1>1 DEF vars, phaseVars, evictVars, Evictions
<1>2. CASE Next
  BY <1>2, EvictionsPhaseStep, EvictionsEvictionStep DEF Next
<1> QED  BY <1>1, <1>2
-----------------------------------------------------------------------------
(***************************************************************************)
(* The cap.  CapAtRest speaks of the end only.  On the way to it, as long  *)
(* as nothing has failed and no fresh install is in progress or waits for  *)
(* its listing, there is an eviction that sees to the cap: it has listed   *)
(* every volume that holds anything, or its plan is enough.                *)
(***************************************************************************)
Undisturbed ==
  \A j \in Jobs : pc[j] \notin {"failed", "unverified"} /\ ev[j] # "aborted" /\ failed[j] = {}

Quiet ==
  \A j \in Jobs : (lock[j] # None /\ ~hit[j] => pc[j] # "installing") /\ ev[j] # "listing"

\* Of the contents of the volumes; where the eviction is, what it has listed,
\* what it plans to remove and which volume it keeps.
SeesToTheCap(c, at, listed, todo, keep) ==
  \/ at = "sizing" /\ \A k \in Keys \ listed : SizeIn(c, k) = 0
  \/ /\ at \in {"removing", "over"}
     /\ \/ TotalIn(c, Keys \ todo) <= Cap
        \/ \A k \in Keys \ (todo \union {keep}) : SizeIn(c, k) = 0

CapIsSeenTo ==
  /\ Undisturbed /\ Quiet
  /\ \E j \in Jobs : ev[j] \in {"sizing", "removing", "over"}
  => \E j \in Jobs : SeesToTheCap(cache, ev[j], names[j], plan[j], lock[j])

LEMMA CapInit == Init => CapIsSeenTo
<1> QED  BY DEF Init, CapIsSeenTo

\* Volumes that lose something change nothing about it.
LEMMA LessIsNoWorse ==
  ASSUME NEW c, NEW d, NEW at, NEW listed, NEW keep, NEW todo, NEW rest \in SUBSET todo,
         \A k \in Keys : SizeIn(d, k) <= SizeIn(c, k),
         \A k \in todo \ rest : SizeIn(d, k) = 0,
         SeesToTheCap(c, at, listed, todo, keep)
  PROVE  SeesToTheCap(d, at, listed, rest, keep)
<1>1. \A k \in Keys : SizeIn(c, k) \in Nat /\ SizeIn(d, k) \in Nat
  BY SizeType
<1>2. \A k \in Keys : SizeIn(c, k) = 0 => SizeIn(d, k) = 0
  BY <1>1
<1>3. /\ TotalIn(d, Keys \ rest) \in Nat /\ TotalIn(c, Keys \ todo) \in Nat
      /\ TotalIn(d, Keys \ rest) <= TotalIn(c, Keys \ todo)
  BY NoMoreBytes
<1>4. TotalIn(c, Keys \ todo) <= Cap => TotalIn(d, Keys \ rest) <= Cap
  BY <1>3, SizeAssumption
<1> QED  BY <1>2, <1>4 DEF SeesToTheCap

LEMMA CapPhaseStep ==
  ASSUME TypeOK, Evictions, CapIsSeenTo, NEW j \in Jobs, PhaseStep(j)
  PROVE  CapIsSeenTo'
<1> SUFFICES ASSUME Undisturbed', Quiet',
                    \E i \in Jobs : ev'[i] \in {"sizing", "removing", "over"}
             PROVE  \E i \in Jobs : SeesToTheCap(cache', ev'[i], names'[i], plan'[i], lock'[i])
  BY DEF CapIsSeenTo
<1>1. /\ UNCHANGED <<lock, names, plan, failed>>
      /\ ~CheckCache(j) => UNCHANGED hit
  BY DEF PhaseStep, CheckCache, InitVolumeOwnership, OwnershipRejected, StartInstall,
         FinishInstall, InstallFails, RunTest, RunSmoke, Teardown, evictVars
<1>2. UNCHANGED ev
  <2>1. CASE FinishInstall(j)
    <3>1. ev' = [ev EXCEPT ![j] = IF hit[j] \/ lock[j] = None THEN ev[j] ELSE "listing"]
      BY <2>1 DEF FinishInstall
    <3>2. ev'[j] # "listing"
      BY DEF Quiet
    <3> QED  BY <3>1, <3>2 DEF TypeOK
  <2>2. CASE ~FinishInstall(j)
    BY <2>2 DEF PhaseStep, CheckCache, InitVolumeOwnership, OwnershipRejected, StartInstall,
                InstallFails, RunTest, RunSmoke, Teardown, evictVars
  <2> QED  BY <2>1, <2>2
<1>3. ~OwnershipRejected(j) /\ ~InstallFails(j)
  BY DEF Undisturbed, OwnershipRejected, InstallFails, Goto, TypeOK
<1>4. Undisturbed
  <2>1. \A i \in Jobs : pc[i] \in {"failed", "unverified"} => pc'[i] = pc[i]
    BY DEF PhaseStep, CheckCache, InitVolumeOwnership, OwnershipRejected, StartInstall,
           FinishInstall, InstallFails, RunTest, RunSmoke, Teardown, Goto, TypeOK
  <2> QED  BY <1>1, <1>2, <2>1 DEF Undisturbed
<1>5. Quiet /\ \A k \in Keys : SizeIn(cache', k) = SizeIn(cache, k)
  <2>1. CASE UNCHANGED cache /\ UNCHANGED hit /\ pc[j] # "installing"
    <3>1. \A i \in Jobs : pc[i] = "installing" => pc'[i] = "installing"
      BY <2>1 DEF PhaseStep, CheckCache, InitVolumeOwnership, OwnershipRejected, StartInstall,
                  FinishInstall, InstallFails, RunTest, RunSmoke, Teardown, Goto, TypeOK
    <3> QED  BY <1>1, <1>2, <2>1, <3>1 DEF Quiet
  <2>2. CASE CheckCache(j)
    <3>1. pc[j] = "idle" /\ pc' = [pc EXCEPT ![j] = "owning"] /\ UNCHANGED cache
      BY <2>2 DEF CheckCache, Goto
    <3>2. \A i \in Jobs \ {j} : hit'[i] = hit[i]
      BY <2>2 DEF CheckCache, TypeOK
    <3> QED  BY <1>1, <1>2, <3>1, <3>2 DEF Quiet, TypeOK
  <2>3. CASE InitVolumeOwnership(j)
    <3>1. pc[j] = "owning" /\ pc' = [pc EXCEPT ![j] = "ready"] /\ UNCHANGED hit
      BY <2>3 DEF InitVolumeOwnership, Goto
    <3> QED  BY <1>1, <1>2, <2>3, <3>1, MountSizes DEF Quiet, TypeOK, InitVolumeOwnership
  <2>4. CASE StartInstall(j)
    <3>1. pc[j] = "ready" /\ pc' = [pc EXCEPT ![j] = "installing"] /\ UNCHANGED hit
      BY <2>4 DEF StartInstall, Goto
    <3>2. lock[j] = None \/ hit[j]
      BY <1>1, <3>1 DEF Quiet, TypeOK
    <3>3. UNCHANGED cache \/ MountInstallVolume(j)
      BY <2>4, <3>2 DEF StartInstall
    <3> QED  BY <1>1, <1>2, <3>1, <3>3, MountSizes DEF Quiet, TypeOK
  <2>5. CASE FinishInstall(j)
    <3>1. /\ pc[j] = "installing" /\ pc' = [pc EXCEPT ![j] = "installed"]
          /\ UNCHANGED hit
          /\ ev' = [ev EXCEPT ![j] = IF hit[j] \/ lock[j] = None THEN ev[j] ELSE "listing"]
      BY <2>5 DEF FinishInstall, Goto
    <3>2. lock[j] = None \/ hit[j]
      BY <3>1 DEF Quiet, TypeOK
    <3>3. UNCHANGED cache
      BY <2>5, <3>2 DEF FinishInstall, Installed
    <3> QED  BY <1>1, <1>2, <3>1, <3>2, <3>3 DEF Quiet, TypeOK
  <2>6. CASE RunTest(j) \/ RunSmoke(j) \/ Teardown(j)
    BY <2>1, <2>6 DEF RunTest, RunSmoke, Teardown, Goto
  <2> QED  BY <1>3, <2>2, <2>3, <2>4, <2>5, <2>6 DEF PhaseStep
<1>6. PICK i \in Jobs : SeesToTheCap(cache, ev[i], names[i], plan[i], lock[i])
  BY <1>2, <1>4, <1>5 DEF CapIsSeenTo
<1>7. \A k \in Keys : SizeIn(cache', k) <= SizeIn(cache, k)
  BY <1>5, SizeType
<1>8. SeesToTheCap(cache', ev[i], names[i], plan[i], lock[i])
  BY <1>6, <1>7, LessIsNoWorse
<1> QED  BY <1>1, <1>2, <1>8

LEMMA CapEvictionStep ==
  ASSUME TypeOK, Evictions, CapIsSeenTo, NEW j \in Jobs, EvictionStep(j)
  PROVE  CapIsSeenTo'
<1> SUFFICES ASSUME Undisturbed', Quiet',
                    \E i \in Jobs : ev'[i] \in {"sizing", "removing", "over"}
             PROVE  \E i \in Jobs : SeesToTheCap(cache', ev'[i], names'[i], plan'[i], lock'[i])
  BY DEF CapIsSeenTo
<1>1. UNCHANGED <<lock, pc, hit>>
  BY DEF EvictionStep, ListCacheVolumes, PlanRemovals, EvictionAborts, RemoveVolume,
         FinishEviction, phaseVars
<1>2. CASE ListCacheVolumes(j)
  <2>1. /\ ev'[j] = "sizing" /\ names'[j] = Present /\ UNCHANGED cache
    BY <1>2 DEF ListCacheVolumes, Step, TypeOK
  <2>2. \A k \in Keys \ Present : SizeIn(cache, k) = 0
    BY DEF Present, SizeIn
  <2> QED  BY <2>1, <2>2 DEF SeesToTheCap
<1>3. ~EvictionAborts(j)
  BY DEF EvictionAborts, Step, Undisturbed, TypeOK
<1>4. ASSUME ~ListCacheVolumes(j)
      PROVE  \E i \in Jobs : SeesToTheCap(cache, ev[i], names[i], plan[i], lock[i])
  <2>1. /\ \A i \in Jobs \ {j} : ev'[i] = ev[i] /\ failed'[i] = failed[i]
        /\ ev[j] \in {"sizing", "removing"}
        /\ failed[j] \subseteq failed'[j]
    BY <1>3, <1>4 DEF EvictionStep, PlanRemovals, RemoveVolume, FinishEviction, Step, TypeOK
  <2>2. Undisturbed
    BY <1>1, <2>1 DEF Undisturbed
  <2>3. Quiet
    BY <1>1, <2>1 DEF Quiet
  <2> QED  BY <2>1, <2>2, <2>3 DEF CapIsSeenTo
<1>5. CASE PlanRemovals(j)
  <2> DEFINE lastUsed == [k \in Keys |-> LastUsed(k)]
             todo     == PlanEviction(names[j], lastUsed, lock[j])
  <2>1. lastUsed \in [Keys -> Nat] /\ names[j] \in SUBSET Keys
    BY DEF LastUsed, TypeOK
  <2>2. /\ todo \subseteq names[j]
        /\ \/ TotalIn(cache, names[j] \ todo) <= Cap
           \/ names[j] \ todo \subseteq {lock[j]}
    <3> DEFINE P == PlanEviction(names[j], lastUsed, lock[j])
    <3>1. /\ P \subseteq names[j] \ {lock[j]}
          /\ TotalIn(cache, names[j] \ P) <= Cap \/ names[j] \ P \subseteq {lock[j]}
      <4> HIDE DEF lastUsed
      <4> QED  BY <2>1, PlanLeavesTheCap
    <3> HIDE DEF lastUsed, P
    <3> QED  BY <3>1 DEF P
  <2>3. /\ ev[j] = "sizing"
        /\ UNCHANGED cache
        /\ names' = [names EXCEPT ![j] = {}]
        /\ \/ todo = {} /\ ev' = [ev EXCEPT ![j] = "over"] /\ UNCHANGED plan
           \/ ev' = [ev EXCEPT ![j] = "removing"] /\ plan' = [plan EXCEPT ![j] = todo]
    BY <1>5 DEF PlanRemovals, Step
  <2> HIDE DEF todo
  <2>4. PICK i \in Jobs : SeesToTheCap(cache, ev[i], names[i], plan[i], lock[i])
    BY <1>4, <1>5, <2>3 DEF ListCacheVolumes, Step
  <2>5. CASE i # j
    <3>1. ev'[i] = ev[i] /\ names'[i] = names[i] /\ plan'[i] = plan[i]
      BY <2>3, <2>5 DEF TypeOK
    <3> QED  BY <1>1, <2>3, <2>4, <3>1
  <2>6. CASE i = j
    <3>1. \A k \in Keys \ names[j] : SizeIn(cache, k) = 0
      BY <2>3, <2>4, <2>6 DEF SeesToTheCap
    <3>2. ev'[j] \in {"removing", "over"} /\ plan'[j] = todo
      BY <2>3 DEF TypeOK, Evictions
    <3>3. CASE TotalIn(cache, names[j] \ todo) <= Cap
      <4>1. \A k \in Keys \ todo : \/ SizeIn(cache, k) = 0
                                   \/ k \in names[j] \ todo /\ SizeIn(cache, k) <= SizeIn(cache, k)
        BY <3>1, SizeType
      <4>2. Keys \ todo \in SUBSET Keys /\ names[j] \ todo \in SUBSET Keys
        BY <2>1
      <4>3. /\ TotalIn(cache, Keys \ todo) \in Nat /\ TotalIn(cache, names[j] \ todo) \in Nat
            /\ TotalIn(cache, Keys \ todo) <= TotalIn(cache, names[j] \ todo)
        BY <4>1, <4>2, NoMoreBytes
      <4>4. TotalIn(cache, Keys \ todo) <= Cap
        BY <3>3, <4>3, SizeAssumption
      <4> QED  BY <2>3, <3>2, <4>4 DEF SeesToTheCap
    <3>4. CASE names[j] \ todo \subseteq {lock[j]}
      <4>1. \A k \in Keys \ (todo \union {lock[j]}) : SizeIn(cache, k) = 0
        BY <3>1, <3>4
      <4> QED  BY <1>1, <2>3, <3>2, <4>1 DEF SeesToTheCap
    <3> QED  BY <2>2, <3>3, <3>4
  <2> QED  BY <2>5, <2>6
<1>6. ASSUME NEW k \in Keys, RemoveVolume(j, k)
      PROVE  \E i \in Jobs : SeesToTheCap(cache', ev'[i], names'[i], plan'[i], lock'[i])
  <2>1. /\ k \in plan[j] /\ ev[j] = "removing"
        /\ plan' = [plan EXCEPT ![j] = plan[j] \ {k}]
        /\ UNCHANGED <<ev, names>>
    BY <1>6 DEF RemoveVolume
  <2>2. cache' = [cache EXCEPT ![k] = "absent"]
    <3>1. failed'[j] = {}
      BY DEF Undisturbed
    <3>2. failed' # [failed EXCEPT ![j] = failed[j] \union {k}]
      BY <3>1 DEF TypeOK
    <3> QED  BY <1>6, <3>2 DEF RemoveVolume
  <2>3. cache \in [Keys -> Contents] /\ plan \in [Jobs -> SUBSET Keys]
    BY DEF TypeOK
  <2>4. SizeIn(cache', k) = 0 /\ \A x \in Keys : SizeIn(cache', x) <= SizeIn(cache, x)
    <3>1. \A x \in Keys : cache'[x] = IF x = k THEN "absent" ELSE cache[x]
      BY <2>2, <2>3
    <3>2. \A x \in Keys : Size[x] \in Nat
      BY SizeAssumption
    <3> QED  BY <3>1, <3>2 DEF SizeIn
  <2>5. PICK i \in Jobs : SeesToTheCap(cache, ev[i], names[i], plan[i], lock[i])
    BY <1>4, <2>1 DEF ListCacheVolumes, Step
  <2>6. plan'[i] \in SUBSET plan[i] /\ \A x \in plan[i] \ plan'[i] : x = k
    BY <2>1, <2>3
  <2>7. SeesToTheCap(cache', ev[i], names[i], plan'[i], lock[i])
    BY <2>4, <2>5, <2>6, LessIsNoWorse
  <2> QED  BY <1>1, <2>1, <2>7
<1>7. CASE FinishEviction(j)
  <2>1. /\ ev[j] = "removing" /\ ev' = [ev EXCEPT ![j] = "over"]
        /\ UNCHANGED <<cache, names, plan>>
    BY <1>7 DEF FinishEviction, Step
  <2>2. PICK i \in Jobs : SeesToTheCap(cache, ev[i], names[i], plan[i], lock[i])
    BY <1>4, <2>1 DEF ListCacheVolumes, Step
  <2>3. \/ ev'[i] = ev[i]
        \/ ev[i] = "removing" /\ ev'[i] = "over"
    <3>1. i = j => ev[i] = "removing" /\ ev'[i] = "over"
      BY <2>1 DEF TypeOK
    <3>2. i # j => ev'[i] = ev[i]
      BY <2>1 DEF TypeOK
    <3> QED  BY <3>1, <3>2
  <2>4. SeesToTheCap(cache, ev'[i], names[i], plan[i], lock[i])
    BY <2>2, <2>3 DEF SeesToTheCap
  <2> QED  BY <1>1, <2>1, <2>4
<1> QED  BY <1>2, <1>3, <1>5, <1>6, <1>7 DEF EvictionStep

LEMMA CapStep == TypeOK /\ Evictions /\ CapIsSeenTo /\ [Next]_vars => CapIsSeenTo'
<1> SUFFICES ASSUME TypeOK, Evictions, CapIsSeenTo, [Next]_vars PROVE CapIsSeenTo'
  OBVIOUS
<1>1. CASE UNCHANGED vars
  BY <1>1 DEF vars, phaseVars, evictVars, CapIsSeenTo, Undisturbed, Quiet
<1>2. CASE Next
  BY <1>2, CapPhaseStep, CapEvictionStep DEF Next
<1> QED  BY <1>1, <1>2

LEMMA CapInTheEnd ==
  ASSUME TypeOK, Evictions, CapIsSeenTo
  PROVE  CapAtRest
<1> DEFINE fresh == {j \in Jobs : lock[j] # None /\ ~hit[j]}
<1> SUFFICES ASSUME AtRest, fresh # {},
                    \A j \in Jobs : pc[j] = "done" /\ failed[j] = {} /\ ev[j] # "aborted"
             PROVE  \/ Total(Present) <= Cap
                    \/ \E j \in fresh : \A k \in Present \ {lock[j]} : SizeNow(k) = 0
  BY DEF CapAtRest
<1>1. Undisturbed /\ Quiet
  BY DEF Undisturbed, Quiet, AtRest
<1>2. \A j \in Jobs : ev[j] \in {"none", "over"} /\ (ev[j] = "over" <=> j \in fresh)
  BY DEF AtRest, Evictions, AfterInstall
<1>3. PICK j \in Jobs : SeesToTheCap(cache, ev[j], names[j], plan[j], lock[j])
  BY <1>1, <1>2 DEF CapIsSeenTo
<1>4. ev[j] = "over" /\ plan[j] = {} /\ j \in fresh
  BY <1>2, <1>3 DEF SeesToTheCap, Evictions
<1>5. CASE TotalIn(cache, Keys) <= Cap
  <2>1. Present \in SUBSET Keys /\ \A k \in Present : SizeIn(cache, k) <= SizeIn(cache, k)
    BY SizeType DEF Present
  <2>2. /\ TotalIn(cache, Present) \in Nat /\ TotalIn(cache, Keys) \in Nat
        /\ TotalIn(cache, Present) <= TotalIn(cache, Keys)
    BY <2>1, NoMoreBytes
  <2>3. TotalIn(cache, Present) <= Cap
    BY <1>5, <2>2, SizeAssumption
  <2> QED  BY <2>3, TotalBytes
<1>6. CASE \A k \in Keys \ {lock[j]} : SizeIn(cache, k) = 0
  BY <1>4, <1>6 DEF Present, SizeNow, SizeIn
<1>7. Keys \ plan[j] = Keys /\ plan[j] \union {lock[j]} = {lock[j]}
  BY <1>4
<1> QED  BY <1>3, <1>4, <1>5, <1>6, <1>7 DEF SeesToTheCap

\* The cap of the cache, for any jobs, keys, sizes and cap: whichever fresh
\* installs overlapped, whatever their evictions listed and planned before the
\* others removed it, the cache fits the cap in the end, or nothing but one
\* fresh tree is left in it.
THEOREM CapIsKept == Spec => []CapAtRest
<1>1. Init => TypeOK /\ Evictions /\ CapIsSeenTo
  BY TypeInit, EvictionsInit, CapInit
<1>2. TypeOK /\ Evictions /\ CapIsSeenTo /\ [Next]_vars
      => TypeOK' /\ Evictions' /\ CapIsSeenTo'
  BY TypeStep, EvictionsStep, CapStep
<1>3. TypeOK /\ Evictions /\ CapIsSeenTo => CapAtRest
  BY CapInTheEnd
<1> QED  BY <1>1, <1>2, <1>3, PTL DEF Spec
-----------------------------------------------------------------------------
(***************************************************************************)
(* A removal is frugal because of the ones before it: with all the volumes *)
(* of the plan that come before this one gone, the cache is still over its *)
(* cap, whatever was installed meanwhile.                                  *)
(***************************************************************************)

\* What is left when the plan has come to volume k.
LeftAt(u, k, keep) == {x \in Keys : x = keep \/ ~UsedBefore(u, x, k)}

PlanIsNeeded ==
  \A j \in Jobs :
    /\ ev[j] = "removing" /\ \A i \in Jobs \ {j} : ev[i] = "none"
    => \A k \in plan[j] : TotalIn(cache, LeftAt(used[j], k, lock[j])) > Cap

LEMMA NeededInit == Init => PlanIsNeeded
<1> QED  BY DEF Init, PlanIsNeeded

\* More bytes keep a cache over its cap.
LEMMA MoreIsOver ==
  ASSUME NEW c, NEW d, NEW K \in SUBSET Keys, NEW L \in SUBSET Keys,
         \A k \in K : \/ SizeIn(c, k) = 0
                      \/ k \in L /\ SizeIn(c, k) <= SizeIn(d, k),
         TotalIn(c, K) > Cap
  PROVE  TotalIn(d, L) > Cap
<1>1. /\ TotalIn(c, K) \in Nat /\ TotalIn(d, L) \in Nat
      /\ TotalIn(c, K) <= TotalIn(d, L)
  BY NoMoreBytes
<1> QED  BY <1>1, SizeAssumption

LEMMA NeededPhaseStep ==
  ASSUME TypeOK, Evictions, PlanIsNeeded, NEW j \in Jobs, PhaseStep(j)
  PROVE  PlanIsNeeded'
<1>1. UNCHANGED <<lock, used, plan>>
  BY DEF PhaseStep, CheckCache, InitVolumeOwnership, OwnershipRejected, StartInstall,
         FinishInstall, InstallFails, RunTest, RunSmoke, Teardown, evictVars
<1>2. \A i \in Jobs : \/ ev'[i] = ev[i]
                      \/ ev[i] = "none" /\ ev'[i] = "listing"
  <2>1. CASE FinishInstall(j)
    <3>1. /\ pc[j] = "installing"
          /\ ev' = [ev EXCEPT ![j] = IF hit[j] \/ lock[j] = None THEN ev[j] ELSE "listing"]
      BY <2>1 DEF FinishInstall, Goto
    <3>2. ev[j] = "none"
      BY <3>1 DEF Evictions, AfterInstall
    <3> QED  BY <3>1, <3>2 DEF TypeOK
  <2>2. CASE ~FinishInstall(j)
    BY <2>2 DEF PhaseStep, CheckCache, InitVolumeOwnership, OwnershipRejected, StartInstall,
                InstallFails, RunTest, RunSmoke, Teardown, evictVars
  <2> QED  BY <2>1, <2>2
<1>3. ASSUME NEW i \in Jobs, ev'[i] = "removing", \A l \in Jobs \ {i} : ev'[l] = "none",
             NEW k \in plan[i]
      PROVE  TotalIn(cache', LeftAt(used[i], k, lock[i])) > Cap
  <2>1. ev[i] = "removing" /\ \A l \in Jobs \ {i} : ev[l] = "none"
    BY <1>2, <1>3
  <2> DEFINE L == LeftAt(used[i], k, lock[i])
  <2>2. L \in SUBSET Keys
    BY DEF LeftAt
  <2>3. TotalIn(cache, L) > Cap
    BY <2>1 DEF PlanIsNeeded
  <2>4. \A x \in L : SizeIn(cache, x) <= SizeIn(cache', x)
    BY <2>2, PhaseSizes
  <2> HIDE DEF L
  <2> QED  BY <2>2, <2>3, <2>4, MoreIsOver DEF L
<1> QED  BY <1>1, <1>3 DEF PlanIsNeeded

LEMMA NeededEvictionStep ==
  ASSUME TypeOK, Evictions, PlanIsNeeded, NEW j \in Jobs, EvictionStep(j)
  PROVE  PlanIsNeeded'
<1>1. UNCHANGED lock
  BY DEF EvictionStep, ListCacheVolumes, PlanRemovals, EvictionAborts, RemoveVolume,
         FinishEviction, phaseVars
<1>2. ev[j] # "none" /\ ev'[j] # "none" /\ \A i \in Jobs \ {j} : ev'[i] = ev[i]
  BY DEF EvictionStep, ListCacheVolumes, PlanRemovals, EvictionAborts, RemoveVolume,
         FinishEviction, Step, TypeOK
<1> SUFFICES ASSUME ev'[j] = "removing", \A i \in Jobs \ {j} : ev[i] = "none",
                    NEW k \in plan'[j]
             PROVE  TotalIn(cache', LeftAt(used'[j], k, lock[j])) > Cap
  BY <1>1, <1>2 DEF PlanIsNeeded
<1>3. CASE PlanRemovals(j)
  <2> DEFINE lastUsed == [x \in Keys |-> LastUsed(x)]
             todo     == PlanEviction(names[j], lastUsed, lock[j])
             before   == {l \in names[j] \ {lock[j]} : UsedBefore(lastUsed, l, k)}
             L        == LeftAt(lastUsed, k, lock[j])
  <2>1. ev[j] = "sizing" /\ UNCHANGED cache
    BY <1>3 DEF PlanRemovals, Step
  <2>2. todo # {} /\ used'[j] = lastUsed /\ plan'[j] = todo
    <3>1. plan[j] = {}
      BY <2>1 DEF Evictions
    <3>2. todo # {}
      BY <1>3, <2>1 DEF PlanRemovals, Step, TypeOK
    <3>3. used' = [used EXCEPT ![j] = lastUsed] /\ plan' = [plan EXCEPT ![j] = todo]
      BY <1>3, <3>2 DEF PlanRemovals
    <3> HIDE DEF todo, lastUsed
    <3> QED  BY <3>2, <3>3 DEF TypeOK
  <2>3. TotalIn(cache, names[j] \ before) > Cap
    <3>1. k \in todo
      BY <2>2
    <3> QED  BY <3>1, TotalBytes DEF PlanEviction
  <2>4. names[j] \subseteq Keys
    BY DEF TypeOK
  <2>5. L \in SUBSET Keys /\ names[j] \ before \in SUBSET Keys /\ names[j] \ before \subseteq L
    BY <2>4 DEF LeftAt
  <2>6. \A x \in names[j] \ before : SizeIn(cache, x) <= SizeIn(cache, x)
    BY <2>4, SizeType
  <2>7. TotalIn(cache, L) > Cap
    <3> HIDE DEF L, before
    <3> QED  BY <2>3, <2>5, <2>6, MoreIsOver
  <2> QED  BY <2>1, <2>2, <2>7
<1>4. ASSUME NEW v \in Keys, RemoveVolume(j, v)
      PROVE  TotalIn(cache', LeftAt(used'[j], k, lock[j])) > Cap
  <2> DEFINE L == LeftAt(used[j], k, lock[j])
  <2>1. /\ ev[j] = "removing" /\ v \in plan[j] /\ UNCHANGED used
        /\ k \in plan[j] \ {v}
        /\ UsedBefore(used[j], v, k)
        /\ UNCHANGED cache \/ cache' = [cache EXCEPT ![v] = "absent"]
    BY <1>4 DEF RemoveVolume, TypeOK
  <2>2. v # lock[j]
    BY <2>1 DEF Evictions
  <2>3. v \notin L
    BY <2>1, <2>2 DEF LeftAt
  <2>4. L \in SUBSET Keys
    BY DEF LeftAt
  <2>5. TotalIn(cache, L) > Cap
    BY <2>1 DEF PlanIsNeeded
  <2> HIDE DEF L
  <2>6. \A x \in L : SizeIn(cache, x) <= SizeIn(cache', x)
    <3>1. \A x \in L : cache'[x] = cache[x]
      BY <2>1, <2>3, <2>4 DEF TypeOK
    <3>2. \A x \in L : SizeIn(cache, x) \in Nat /\ SizeIn(cache', x) = SizeIn(cache, x)
      BY <2>4, <3>1, SizeType DEF SizeIn
    <3> QED  BY <3>2
  <2>7. TotalIn(cache', L) > Cap
    BY <2>4, <2>5, <2>6, MoreIsOver
  <2> QED  BY <2>1, <2>7 DEF L
<1>5. ~ListCacheVolumes(j) /\ ~EvictionAborts(j) /\ ~FinishEviction(j)
  BY DEF ListCacheVolumes, EvictionAborts, FinishEviction, Step, TypeOK
<1> QED  BY <1>3, <1>4, <1>5 DEF EvictionStep

LEMMA NeededStep == TypeOK /\ Evictions /\ PlanIsNeeded /\ [Next]_vars => PlanIsNeeded'
<1> SUFFICES ASSUME TypeOK, Evictions, PlanIsNeeded, [Next]_vars PROVE PlanIsNeeded'
  OBVIOUS
<1>1. CASE UNCHANGED vars
  BY <1>1 DEF vars, phaseVars, evictVars, PlanIsNeeded
<1>2. CASE Next
  BY <1>2, NeededPhaseStep, NeededEvictionStep DEF Next
<1> QED  BY <1>1, <1>2

\* FrugalEviction, of one step.
RemovesFrugally ==
  \A j \in Jobs :
    ~(evicted'[j] \subseteq evicted[j]) /\ (\A i \in Jobs \ {j} : ev[i] = "none")
    => Total(Present) > Cap

LEMMA FrugalStep ==
  ASSUME TypeOK, Evictions, PlanIsNeeded, [Next]_vars
  PROVE  RemovesFrugally
<1> SUFFICES ASSUME NEW j \in Jobs, ~(evicted'[j] \subseteq evicted[j]),
                    \A i \in Jobs \ {j} : ev[i] = "none"
             PROVE  Total(Present) > Cap
  BY DEF RemovesFrugally
<1>1. PICK k \in Keys : RemoveVolume(j, k)
  <2>1. PICK i \in Jobs : PhaseStep(i) \/ EvictionStep(i)
    BY DEF Next, vars, evictVars
  <2>2. ~PhaseStep(i)
    BY DEF PhaseStep, CheckCache, InitVolumeOwnership, OwnershipRejected, StartInstall,
           FinishInstall, InstallFails, RunTest, RunSmoke, Teardown, evictVars
  <2>3. \E k \in Keys : RemoveVolume(i, k)
    BY <2>1, <2>2 DEF EvictionStep, ListCacheVolumes, PlanRemovals, EvictionAborts,
                      FinishEviction, TypeOK
  <2>4. i = j
    BY <2>3 DEF RemoveVolume, TypeOK
  <2> QED  BY <2>3, <2>4
<1>2. ev[j] = "removing" /\ k \in plan[j]
  BY <1>1 DEF RemoveVolume
<1> DEFINE L == LeftAt(used[j], k, lock[j])
<1>3. TotalIn(cache, L) > Cap
  BY <1>2 DEF PlanIsNeeded
<1>4. L \in SUBSET Keys /\ Present \in SUBSET Keys
  BY DEF LeftAt, Present
<1> HIDE DEF L
<1>5. \A x \in L : \/ SizeIn(cache, x) = 0
                   \/ x \in Present /\ SizeIn(cache, x) <= SizeIn(cache, x)
  BY <1>4, SizeType DEF SizeIn, Present
<1>6. TotalIn(cache, Present) > Cap
  BY <1>3, <1>4, <1>5, MoreIsOver
<1> QED  BY <1>6, TotalBytes

\* An eviction that no other one overlaps takes no volume out of a cache that
\* fits its cap, for any jobs, keys, sizes and cap, whatever is installed
\* between its look at the sizes and its last removal.
THEOREM EvictionIsFrugal == Spec => FrugalEviction
<1>1. Init => TypeOK /\ Evictions /\ PlanIsNeeded
  BY TypeInit, EvictionsInit, NeededInit
<1>2. TypeOK /\ Evictions /\ PlanIsNeeded /\ [Next]_vars
      => TypeOK' /\ Evictions' /\ PlanIsNeeded'
  BY TypeStep, EvictionsStep, NeededStep
<1>3. TypeOK /\ Evictions /\ PlanIsNeeded /\ [Next]_vars => [RemovesFrugally]_vars
  BY FrugalStep
<1> QED  BY <1>1, <1>2, <1>3, PTL DEF Spec, FrugalEviction, RemovesFrugally
=============================================================================
