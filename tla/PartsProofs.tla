----------------------------- MODULE PartsProofs -----------------------------
(***************************************************************************)
(* Proofs about the parts of Mendel that share no state (Parts): what each *)
(* of them promises holds of its specification for every value of the      *)
(* constants.                                                              *)
(***************************************************************************)
EXTENDS Parts, Integers, FiniteSets, FiniteSetTheorems, TLAPS

-----------------------------------------------------------------------------
(* LlmClient: the budget of a call *)

\* As many requests were sent as attempts and retries were counted, and one more
\* while it is out; every retry counted has waited a minute at most; a call goes
\* on only after an error that may pass.
LlmInv ==
    /\ llmAt \in {"call", "asking", "waiting", "returned", "thrown"}
    /\ schemaAttempt \in 0..MaxSchemaRetries
    /\ transientRetries \in 0..Llm!MaxTransientRetries
    /\ lastError \in Llm!Message
    /\ wait \in Nat /\ requests \in Nat /\ waited \in Nat
    /\ llmAt = "asking" => schemaAttempt < MaxSchemaRetries
    /\ requests <= schemaAttempt + transientRetries + (IF llmAt \in {"call", "waiting"} THEN 0 ELSE 1)
    /\ requests <= MaxSchemaRetries + Llm!MaxTransientRetries
    /\ waited + wait <= transientRetries * Llm!MaxTransientWait
    /\ llmAt # "thrown" => ~("day" \in lastError.marks /\ lastError.hint = 0)

LEMMA BackoffBounded ==
  ASSUME NEW m \in Llm!Message, NEW n \in 0..2
  PROVE  Llm!Backoff(m, n) \in Nat /\ Llm!Backoff(m, n) <= Llm!MaxTransientWait
<1>1. 2^n \in Nat
  <2>1. CASE n = 0
    BY <2>1
  <2>2. CASE n = 1
    BY <2>2
  <2>3. CASE n = 2
    BY <2>3
  <2>4. QED BY <2>1, <2>2, <2>3
<1>2. m.hint \in Nat
  BY DEF Llm!Message
<1>3. QED BY <1>1, <1>2, SMT DEF Llm!Backoff, Llm!AtMost, Llm!MaxTransientWait

LEMMA LlmInit == Llm!LlmInit => LlmInv
BY PartsAssumption DEF Llm!LlmInit, LlmInv, Llm!Unknown, Llm!Message, Llm!LlmAssumption,
   Llm!MaxTransientRetries, Llm!MaxTransientWait

LEMMA LlmStep ==
  ASSUME LlmInv, [Llm!LlmNext]_llmState
  PROVE  LlmInv'
<1>0. /\ Messages \subseteq Llm!Message /\ MaxSchemaRetries \in Nat
      /\ Llm!MaxTransientRetries = 3 /\ Llm!MaxTransientWait = 60000
  BY PartsAssumption DEF Llm!LlmAssumption, Llm!MaxTransientRetries, Llm!MaxTransientWait
<1>1. CASE Llm!Ask
  BY <1>0, <1>1 DEF LlmInv, Llm!Ask
<1>2. CASE Llm!GiveUpOnSchema
  BY <1>0, <1>2 DEF LlmInv, Llm!GiveUpOnSchema
<1>3. CASE Llm!Answered
  BY <1>0, <1>3 DEF LlmInv, Llm!Answered
<1>4. CASE Llm!Failed
  <2> DEFINE class(m) == Llm!ClassifyError(m)
             again(m) == class(m) = "transient" /\ transientRetries < Llm!MaxTransientRetries
  <2>1. PICK m \in Messages :
          /\ lastError' = m
          /\ llmAt' = CASE again(m) -> "waiting" [] class(m) = "schema" -> "call" [] OTHER -> "thrown"
          /\ schemaAttempt' = schemaAttempt + (IF class(m) = "schema" THEN 1 ELSE 0)
          /\ transientRetries' = IF again(m) THEN transientRetries + 1 ELSE transientRetries
          /\ wait' = IF again(m) THEN Llm!Backoff(m, transientRetries) ELSE 0
    BY <1>4 DEF Llm!Failed, Llm!Retries
  <2>2. llmAt = "asking" /\ UNCHANGED <<requests, waited>> /\ m \in Llm!Message
    BY <1>0, <1>4 DEF Llm!Failed
  <2>3. class(m) \in {"transient", "schema"} => ~("day" \in m.marks /\ m.hint = 0)
    BY DEF Llm!ClassifyError
  <2>4. CASE again(m)
    <3>1. transientRetries \in 0..2
      BY <1>0, <2>4 DEF LlmInv
    <3>2. wait' \in Nat /\ wait' <= 60000
      BY <1>0, <2>1, <2>2, <2>4, <3>1, BackoffBounded
    <3>3. QED BY <1>0, <2>1, <2>2, <2>3, <2>4, <3>2 DEF LlmInv
  <2>5. CASE ~again(m) /\ class(m) = "schema"
    BY <1>0, <2>1, <2>2, <2>3, <2>5 DEF LlmInv
  <2>6. CASE ~again(m) /\ class(m) # "schema"
    BY <1>0, <2>1, <2>2, <2>6 DEF LlmInv
  <2>7. QED BY <2>4, <2>5, <2>6
<1>5. CASE Llm!Waited
  BY <1>0, <1>5 DEF LlmInv, Llm!Waited
<1>6. CASE UNCHANGED llmState
  BY <1>6 DEF LlmInv, llmState
<1>7. QED BY <1>1, <1>2, <1>3, <1>4, <1>5, <1>6 DEF Llm!LlmNext

\* Whatever mixture of errors the provider answers with, a call of llmComplete
\* sends no more requests than its schema attempts and three, waits no longer
\* than three minutes, and stops at a used up daily quota (lib/llm/index.ts).
THEOREM CallBudgets == LlmSpec => []Llm!CallBudgetHolds
<1>1. LlmInv => Llm!CallBudgetHolds
  BY DEF LlmInv, Llm!CallBudgetHolds, Llm!MaxTransientRetries, Llm!MaxTransientWait
<1>2. LlmInv /\ [Llm!LlmNext]_llmState => LlmInv'
  BY LlmStep
<1>3. QED BY <1>1, <1>2, LlmInit, PTL DEF LlmSpec

-----------------------------------------------------------------------------
(* RateLimiter: the limits of a key *)

\* The requests admitted at one of these times, by their place in the history.
Places(w, times) == {i \in DOMAIN w : w[i] \in times}

Since(t) == {x \in Nat : x >= t}

LEMMA PlacesFinite ==
  ASSUME NEW w \in Seq(Nat), NEW T
  PROVE  IsFiniteSet(Places(w, T)) /\ Cardinality(Places(w, T)) \in Nat
<1>1. IsFiniteSet(1..Len(w))
  BY FS_Interval
<1>2. Places(w, T) \subseteq 1..Len(w)
  BY DEF Places
<1>3. QED BY <1>1, <1>2, FS_Subset, FS_CardinalityType

LEMMA NoPlaces ==
  ASSUME NEW w \in Seq(Nat), NEW T, \A i \in DOMAIN w : w[i] \notin T
  PROVE  Cardinality(Places(w, T)) = 0
<1>1. Places(w, T) = {}
  BY DEF Places
<1>2. QED BY <1>1, FS_EmptySet

\* One more request adds one to the places of every set of times it falls into.
LEMMA PlacesAppend ==
  ASSUME NEW w \in Seq(Nat), NEW c \in Nat, NEW T
  PROVE  Cardinality(Places(Append(w, c), T)) =
           Cardinality(Places(w, T)) + (IF c \in T THEN 1 ELSE 0)
<1>1. /\ DOMAIN Append(w, c) = 1..(Len(w) + 1) /\ DOMAIN w = 1..Len(w)
      /\ \A i \in 1..Len(w) : Append(w, c)[i] = w[i]
      /\ Append(w, c)[Len(w) + 1] = c
  OBVIOUS
<1>2. CASE c \in T
  <2>1. Places(Append(w, c), T) = Places(w, T) \union {Len(w) + 1}
    BY <1>1, <1>2 DEF Places
  <2>2. Len(w) + 1 \notin Places(w, T)
    BY <1>1 DEF Places
  <2>3. QED BY <1>2, <2>1, <2>2, PlacesFinite, FS_AddElement
<1>3. CASE c \notin T
  <2>1. Places(Append(w, c), T) = Places(w, T)
    BY <1>1, <1>3 DEF Places
  <2>2. QED BY <1>3, <2>1, PlacesFinite
<1>4. QED BY <1>2, <1>3

\* Times that lie in one of two sets are at most as many as those of both.
LEMMA PlacesSum ==
  ASSUME NEW w \in Seq(Nat), NEW T, NEW U, NEW V,
         \A i \in DOMAIN w : w[i] \in T => w[i] \in U \/ w[i] \in V
  PROVE  Cardinality(Places(w, T)) <= Cardinality(Places(w, U)) + Cardinality(Places(w, V))
<1>1. /\ IsFiniteSet(Places(w, U)) /\ IsFiniteSet(Places(w, V))
      /\ Cardinality(Places(w, T)) \in Nat
      /\ Cardinality(Places(w, U)) \in Nat /\ Cardinality(Places(w, V)) \in Nat
  BY PlacesFinite
<1>2. Places(w, T) \subseteq Places(w, U) \union Places(w, V)
  BY DEF Places
<1>3. /\ IsFiniteSet(Places(w, U) \union Places(w, V))
      /\ Cardinality(Places(w, U) \union Places(w, V)) =
           Cardinality(Places(w, U)) + Cardinality(Places(w, V))
             - Cardinality(Places(w, U) \cap Places(w, V))
  BY <1>1, FS_Union
<1>4. Cardinality(Places(w, U) \cap Places(w, V)) \in Nat
  BY <1>1, FS_Intersection, FS_CardinalityType
<1>5. /\ Cardinality(Places(w, T)) <= Cardinality(Places(w, U) \union Places(w, V))
      /\ Cardinality(Places(w, U) \union Places(w, V)) \in Nat
  BY <1>2, <1>3, FS_Subset, FS_CardinalityType
<1>6. QED BY <1>1, <1>3, <1>4, <1>5

LEMMA PlacesMonotone ==
  ASSUME NEW w \in Seq(Nat), NEW T, NEW U,
         \A i \in DOMAIN w : w[i] \in T => w[i] \in U
  PROVE  Cardinality(Places(w, T)) <= Cardinality(Places(w, U))
<1>1. \A i \in DOMAIN w : w[i] \in T => w[i] \in U \/ w[i] \in {}
  OBVIOUS
<1>2. Cardinality(Places(w, T)) <= Cardinality(Places(w, U)) + Cardinality(Places(w, {}))
  BY <1>1, PlacesSum
<1>3. Cardinality(Places(w, {})) = 0
  BY NoPlaces
<1>4. QED BY <1>2, <1>3, PlacesFinite

\* No window of time lets more than twice the limit through.
WindowsHold(w, limit) ==
    \A t \in Nat : Cardinality(Places(w, t..(t + Window))) <= 2 * limit

\* Without an entry no more than the limit came through in the time up to now.
Forgotten(w, now, limit) ==
    /\ \A i \in DOMAIN w : w[i] < now
    /\ Cardinality(Places(w, Since(now - Window))) <= limit

\* The entry counts the requests since its window began; in as much time before
\* that no more than the limit came through, for they all were in one window.
Counting(e, w, now, limit) ==
    /\ e.resetAt - Window \in Nat /\ e.resetAt - Window <= now
    /\ \A i \in DOMAIN w : w[i] <= e.resetAt
    /\ e.count = Cardinality(Places(w, Since(e.resetAt - Window)))
    /\ 1 <= e.count /\ e.count <= limit
    /\ Cardinality(Places(w, Since(e.resetAt - 2 * Window) \ Since(e.resetAt - Window))) <= limit

\* What is true of one key: of its entry e and the times w at which it was let
\* through.
KeyInv(e, w, now, limit) ==
    /\ \A i \in DOMAIN w : w[i] <= now
    /\ WindowsHold(w, limit)
    /\ e = Rate!None => Forgotten(w, now, limit)
    /\ e # Rate!None => Counting(e, w, now, limit)

Entry == [count : Nat, resetAt : Nat]

LEMMA NewKey ==
  ASSUME NEW limit \in Nat \ {0}
  PROVE  KeyInv(Rate!None, <<>>, 1, limit)
<1>1. ASSUME NEW T PROVE Cardinality(Places(<<>>, T)) = 0
  BY FS_EmptySet DEF Places
<1>2. QED BY <1>1, SMT DEF KeyInv, WindowsHold, Forgotten

LEMMA KeyTick ==
  ASSUME Window \in Nat \ {0}, NEW limit \in Nat \ {0}, NEW now \in Nat,
         NEW e \in Entry, NEW w \in Seq(Nat), KeyInv(e, w, now, limit)
  PROVE  KeyInv(e, w, now + 1, limit)
<1>1. \A i \in DOMAIN w : w[i] \in Nat /\ w[i] <= now
  BY DEF KeyInv
<1>2. e = Rate!None => Forgotten(w, now + 1, limit)
  <2>1. Cardinality(Places(w, Since(now + 1 - Window)))
          <= Cardinality(Places(w, Since(now - Window)))
    BY <1>1, PlacesMonotone DEF Since
  <2>2. /\ Cardinality(Places(w, Since(now + 1 - Window))) \in Nat
        /\ Cardinality(Places(w, Since(now - Window))) \in Nat
    BY PlacesFinite
  <2>3. QED BY <1>1, <2>1, <2>2 DEF KeyInv, Forgotten
<1>3. e # Rate!None => Counting(e, w, now + 1, limit)
  <2>1. ASSUME Counting(e, w, now, limit) PROVE e.resetAt - Window <= now + 1
    BY <2>1 DEF Counting
  <2>2. QED BY <2>1 DEF KeyInv, Counting
<1>4. QED BY <1>1, <1>2, <1>3 DEF KeyInv

\* An expired entry may be forgotten.
LEMMA ExpiredIsForgotten ==
  ASSUME Window \in Nat \ {0}, NEW limit \in Nat \ {0}, NEW now \in Nat,
         NEW e \in Entry, NEW w \in Seq(Nat), Counting(e, w, now, limit),
         e.resetAt < now
  PROVE  Forgotten(w, now, limit)
<1>1. \A i \in DOMAIN w : w[i] \in Nat /\ w[i] <= e.resetAt
  BY DEF Counting
<1>2. Cardinality(Places(w, Since(now - Window)))
        <= Cardinality(Places(w, Since(e.resetAt - Window)))
  BY <1>1, PlacesMonotone DEF Since, Entry
<1>3. /\ Cardinality(Places(w, Since(now - Window))) \in Nat
      /\ Cardinality(Places(w, Since(e.resetAt - Window))) \in Nat
  BY PlacesFinite
<1>4. Cardinality(Places(w, Since(now - Window))) <= limit
  <2>1. /\ e.count = Cardinality(Places(w, Since(e.resetAt - Window)))
        /\ e.count <= limit
    BY DEF Counting
  <2>2. QED BY <1>2, <1>3, <2>1
<1>5. \A i \in DOMAIN w : w[i] < now
  BY <1>1 DEF Entry
<1>6. QED BY <1>4, <1>5 DEF Forgotten

\* A request in a new window: the ones before it are at most the limit in the
\* time that a window reaches back.
LEMMA AdmitFresh ==
  ASSUME Window \in Nat \ {0}, NEW limit \in Nat \ {0}, NEW now \in Nat,
         NEW w \in Seq(Nat), WindowsHold(w, limit), Forgotten(w, now, limit)
  PROVE  KeyInv([count |-> 1, resetAt |-> now + Window], Append(w, now), now, limit)
<1> DEFINE e == [count |-> 1, resetAt |-> now + Window]
           v == Append(w, now)
<1>1. \A i \in DOMAIN w : w[i] \in Nat /\ w[i] < now
  BY DEF Forgotten
<1>2. \A i \in DOMAIN v : v[i] \in Nat /\ v[i] <= now
  BY <1>1
<1>3. ASSUME NEW T PROVE Cardinality(Places(w, T)) \in Nat
  BY PlacesFinite
<1>4. WindowsHold(v, limit)
  <2>1. SUFFICES ASSUME NEW t \in Nat
                 PROVE  Cardinality(Places(v, t..(t + Window))) <= 2 * limit
    BY DEF WindowsHold
  <2>2. CASE now \in t..(t + Window)
    <3>1. Cardinality(Places(w, t..(t + Window))) <= Cardinality(Places(w, Since(now - Window)))
      BY <1>1, <2>2, PlacesMonotone DEF Since
    <3>2. Cardinality(Places(v, t..(t + Window))) = Cardinality(Places(w, t..(t + Window))) + 1
      BY <2>2, PlacesAppend
    <3>3. Cardinality(Places(w, Since(now - Window))) <= limit
      BY DEF Forgotten
    <3>4. QED BY <1>3, <3>1, <3>2, <3>3
  <2>3. CASE now \notin t..(t + Window)
    <3>1. Cardinality(Places(v, t..(t + Window))) = Cardinality(Places(w, t..(t + Window)))
      BY <1>3, <2>3, PlacesAppend
    <3>2. QED BY <3>1 DEF WindowsHold
  <2>4. QED BY <2>2, <2>3
<1>5. Counting(e, v, now, limit)
  <2>1. e.resetAt = now + Window /\ e.count = 1 /\ e.resetAt - Window = now
    OBVIOUS
  <2>2. \A i \in DOMAIN v : v[i] <= e.resetAt
    BY <1>2
  <2>3. Cardinality(Places(v, Since(now))) = 1
    <3>1. Cardinality(Places(w, Since(now))) = 0
      BY <1>1, NoPlaces DEF Since
    <3>2. now \in Since(now)
      BY DEF Since
    <3>3. QED BY <3>1, <3>2, PlacesAppend
  <2>4. Cardinality(Places(v, Since(e.resetAt - 2 * Window) \ Since(now))) <= limit
    <3>1. Since(e.resetAt - 2 * Window) = Since(now - Window)
      <4>1. e.resetAt - 2 * Window = now - Window
        OBVIOUS
      <4>2. QED BY <4>1
    <3>2. now \notin Since(now - Window) \ Since(now)
      BY DEF Since
    <3>3. Cardinality(Places(v, Since(now - Window) \ Since(now)))
            = Cardinality(Places(w, Since(now - Window) \ Since(now)))
      BY <1>3, <3>2, PlacesAppend
    <3>4. Cardinality(Places(w, Since(now - Window) \ Since(now)))
            <= Cardinality(Places(w, Since(now - Window)))
      BY PlacesMonotone
    <3>5. Cardinality(Places(w, Since(now - Window))) <= limit
      BY DEF Forgotten
    <3>6. Cardinality(Places(v, Since(now - Window) \ Since(now))) <= limit
      BY <1>3, <3>3, <3>4, <3>5
    <3>7. QED BY <3>1, <3>6
  <2>5. QED BY <2>1, <2>2, <2>3, <2>4 DEF Counting
<1>6. e # Rate!None
  BY DEF Rate!None
<1>7. QED BY <1>2, <1>4, <1>5, <1>6 DEF KeyInv

\* A request in a window that is not over.
LEMMA AdmitCounted ==
  ASSUME Window \in Nat \ {0}, NEW limit \in Nat \ {0}, NEW now \in Nat,
         NEW e \in Entry, NEW w \in Seq(Nat), KeyInv(e, w, now, limit),
         e # Rate!None, now <= e.resetAt, e.count < limit
  PROVE  KeyInv([e EXCEPT !.count = @ + 1], Append(w, now), now, limit)
<1> DEFINE f == [e EXCEPT !.count = @ + 1]
           v == Append(w, now)
           s == e.resetAt - Window
<1>1. /\ Counting(e, w, now, limit) /\ WindowsHold(w, limit)
      /\ \A i \in DOMAIN w : w[i] \in Nat /\ w[i] <= now
  BY DEF KeyInv
<1>2. \A i \in DOMAIN v : v[i] \in Nat /\ v[i] <= now
  BY <1>1
<1>3. ASSUME NEW T PROVE Cardinality(Places(w, T)) \in Nat
  BY PlacesFinite
<1>4. /\ s \in Nat /\ s <= now /\ e.count \in Nat /\ e.resetAt = s + Window
      /\ e.count = Cardinality(Places(w, Since(s)))
      /\ Cardinality(Places(w, Since(e.resetAt - 2 * Window) \ Since(s))) <= limit
  BY <1>1 DEF Counting, Entry
<1>5. f.resetAt = e.resetAt /\ f.count = e.count + 1
  BY DEF Entry
<1> HIDE DEF s, f
<1>6. WindowsHold(v, limit)
  <2>1. SUFFICES ASSUME NEW t \in Nat
                 PROVE  Cardinality(Places(v, t..(t + Window))) <= 2 * limit
    BY DEF WindowsHold
  <2>2. CASE now \in t..(t + Window)
    <3>1. \A i \in DOMAIN w : w[i] \in t..(t + Window) =>
            w[i] \in Since(e.resetAt - 2 * Window) \ Since(s) \/ w[i] \in Since(s)
      BY <1>1, <1>4, <2>2 DEF Since
    <3>2. Cardinality(Places(w, t..(t + Window)))
            <= Cardinality(Places(w, Since(e.resetAt - 2 * Window) \ Since(s)))
                 + Cardinality(Places(w, Since(s)))
      BY <3>1, PlacesSum
    <3>3. Cardinality(Places(v, t..(t + Window))) = Cardinality(Places(w, t..(t + Window))) + 1
      BY <2>2, PlacesAppend
    <3>4. QED BY <1>3, <1>4, <3>2, <3>3
  <2>3. CASE now \notin t..(t + Window)
    <3>1. Cardinality(Places(v, t..(t + Window))) = Cardinality(Places(w, t..(t + Window)))
      BY <1>3, <2>3, PlacesAppend
    <3>2. QED BY <1>1, <3>1 DEF WindowsHold
  <2>4. QED BY <2>2, <2>3
<1>7. Counting(f, v, now, limit)
  <2>1. f.resetAt - Window = s
    BY <1>4, <1>5
  <2>2. \A i \in DOMAIN v : v[i] <= f.resetAt
    BY <1>2, <1>5 DEF Entry
  <2>3. Cardinality(Places(v, Since(s))) = f.count
    <3>1. now \in Since(s)
      BY <1>4 DEF Since
    <3>2. QED BY <1>4, <1>5, <3>1, PlacesAppend
  <2>4. Cardinality(Places(v, Since(e.resetAt - 2 * Window) \ Since(s))) <= limit
    <3>1. now \notin Since(e.resetAt - 2 * Window) \ Since(s)
      BY <1>4 DEF Since
    <3>2. QED BY <1>3, <1>4, <3>1, PlacesAppend
  <2>5. 1 <= f.count /\ f.count <= limit
    BY <1>4, <1>5
  <2>6. QED BY <1>4, <1>5, <2>1, <2>2, <2>3, <2>4, <2>5 DEF Counting
<1>8. f # Rate!None
  BY <1>4, <1>5 DEF Rate!None
<1>9. QED BY <1>2, <1>6, <1>7, <1>8 DEF KeyInv, f

RateInv ==
    /\ clock \in Nat
    /\ store \in [Rate!Keys -> Entry]
    /\ admitted \in [Rate!Keys -> Seq(Nat)]
    /\ \A k \in Rate!Keys : KeyInv(store[k], admitted[k], clock, Presets[k[1]])

LEMMA RateConstants ==
  /\ Window \in Nat \ {0}
  /\ \A k \in Rate!Keys : Presets[k[1]] \in Nat \ {0}
BY PartsAssumption DEF Rate!RateAssumption, Rate!Keys

LEMMA RateInit == Rate!RateInit => RateInv
<1> SUFFICES ASSUME Rate!RateInit PROVE RateInv
  OBVIOUS
<1>1. clock = 1
  BY DEF Rate!RateInit
<1>2. store \in [Rate!Keys -> Entry] /\ admitted \in [Rate!Keys -> Seq(Nat)]
  BY DEF Rate!RateInit, Rate!None, Entry
<1>3. ASSUME NEW k \in Rate!Keys
      PROVE  KeyInv(store[k], admitted[k], clock, Presets[k[1]])
  <2>1. store[k] = Rate!None /\ admitted[k] = <<>>
    BY DEF Rate!RateInit
  <2>2. KeyInv(Rate!None, <<>>, 1, Presets[k[1]])
    BY RateConstants, NewKey
  <2>3. QED BY <1>1, <2>1, <2>2
<1>4. QED BY <1>1, <1>2, <1>3 DEF RateInv

LEMMA RateStep ==
  ASSUME RateInv, [Rate!RateNext]_rateState
  PROVE  RateInv'
<1>0. /\ clock \in Nat
      /\ store \in [Rate!Keys -> Entry]
      /\ admitted \in [Rate!Keys -> Seq(Nat)]
      /\ \A k \in Rate!Keys : /\ Presets[k[1]] \in Nat \ {0}
                             /\ store[k] \in Entry /\ admitted[k] \in Seq(Nat)
                             /\ KeyInv(store[k], admitted[k], clock, Presets[k[1]])
  BY RateConstants DEF RateInv
<1>1. ASSUME NEW k \in Rate!Keys, Rate!Admit(k)
      PROVE  RateInv'
  <2> DEFINE fresh == store[k] = Rate!None \/ Rate!Expired(store[k])
             e == IF fresh THEN [count |-> 1, resetAt |-> clock + Window]
                  ELSE [store[k] EXCEPT !.count = @ + 1]
  <2>1. /\ fresh \/ store[k].count < Presets[k[1]]
        /\ store' = [store EXCEPT ![k] = e]
        /\ admitted' = [admitted EXCEPT ![k] = Append(@, clock)]
        /\ clock' = clock
    BY <1>1 DEF Rate!Admit
  <2>2. e \in Entry
    <3>1. [count |-> 1, resetAt |-> clock + Window] \in Entry
      BY <1>0, RateConstants DEF Entry
    <3>2. store[k] \in Entry
      BY <1>0
    <3>3. [store[k] EXCEPT !.count = @ + 1] \in Entry
      BY <3>2 DEF Entry
    <3>4. QED BY <3>1, <3>3
  <2>3. KeyInv(e, Append(admitted[k], clock), clock, Presets[k[1]])
    <3>1. CASE fresh
      <4>1. Forgotten(admitted[k], clock, Presets[k[1]])
        <5>1. CASE store[k] = Rate!None
          BY <1>0, <5>1 DEF KeyInv
        <5>2. CASE store[k] # Rate!None /\ store[k].resetAt < clock
          BY <1>0, <5>2, RateConstants, ExpiredIsForgotten DEF KeyInv
        <5>3. QED BY <3>1, <5>1, <5>2 DEF Rate!Expired
      <4>2. WindowsHold(admitted[k], Presets[k[1]])
        BY <1>0 DEF KeyInv
      <4>3. QED BY <1>0, <3>1, <4>1, <4>2, RateConstants, AdmitFresh
    <3>2. CASE ~fresh
      <4>1. /\ store[k] # Rate!None /\ store[k].count < Presets[k[1]]
            /\ clock <= store[k].resetAt
        BY <1>0, <2>1, <3>2 DEF Rate!Expired, Entry
      <4>2. QED BY <1>0, <3>2, <4>1, RateConstants, AdmitCounted
    <3>3. QED BY <3>1, <3>2
  <2> HIDE DEF e
  <2>4. store' \in [Rate!Keys -> Entry] /\ admitted' \in [Rate!Keys -> Seq(Nat)]
    BY <1>0, <2>1, <2>2
  <2>5. \A j \in Rate!Keys : KeyInv(store'[j], admitted'[j], clock, Presets[j[1]])
    BY <1>0, <2>1, <2>3
  <2>6. QED BY <1>0, <2>1, <2>4, <2>5 DEF RateInv
<1>2. CASE Rate!Prune
  <2>1. /\ store' = [k \in Rate!Keys |->
             IF store[k] # Rate!None /\ store[k].resetAt < clock THEN Rate!None ELSE store[k]]
        /\ clock' = clock /\ admitted' = admitted
    BY <1>2 DEF Rate!Prune, Rate!Expired
  <2>2. Rate!None \in Entry
    BY DEF Rate!None, Entry
  <2>3. store' \in [Rate!Keys -> Entry]
    BY <1>0, <2>1, <2>2
  <2>4. ASSUME NEW k \in Rate!Keys
        PROVE  KeyInv(store'[k], admitted[k], clock, Presets[k[1]])
    <3>1. CASE store[k] # Rate!None /\ store[k].resetAt < clock
      <4>1. Forgotten(admitted[k], clock, Presets[k[1]])
        BY <1>0, <3>1, RateConstants, ExpiredIsForgotten DEF KeyInv
      <4>2. KeyInv(Rate!None, admitted[k], clock, Presets[k[1]])
        BY <1>0, <4>1 DEF KeyInv
      <4>3. QED BY <2>1, <3>1, <4>2
    <3>2. CASE ~(store[k] # Rate!None /\ store[k].resetAt < clock)
      BY <1>0, <2>1, <3>2
    <3>3. QED BY <3>1, <3>2
  <2>5. QED BY <1>0, <2>1, <2>3, <2>4 DEF RateInv
<1>3. CASE Rate!Tick
  <2>1. clock' = clock + 1 /\ store' = store /\ admitted' = admitted
    BY <1>3 DEF Rate!Tick
  <2>2. \A k \in Rate!Keys : KeyInv(store[k], admitted[k], clock + 1, Presets[k[1]])
    BY <1>0, RateConstants, KeyTick
  <2>3. QED BY <1>0, <2>1, <2>2 DEF RateInv
<1>4. CASE UNCHANGED rateState
  BY <1>4 DEF RateInv, rateState
<1>5. QED BY <1>1, <1>2, <1>3, <1>4 DEF Rate!RateNext

\* No client gets more than twice the limit of a preset into any window of time,
\* and who is refused has used the limit up within the last window: for all
\* presets, windows, addresses and times (lib/rate-limit.ts).
THEOREM RateLimits == RateSpec => []Rate!RateHolds
<1>1. ASSUME RateInv PROVE Rate!RateHolds
  <2>1. SUFFICES ASSUME NEW k \in Rate!Keys
                 PROVE  /\ \A t \in 0..MaxClock :
                             Rate!AdmittedIn(k, t, t + Window) <= 2 * Presets[k[1]]
                        /\ Rate!Refused(k) =>
                             \E t \in 0..clock :
                               /\ t + Window >= clock
                               /\ Rate!AdmittedIn(k, t, clock) >= Presets[k[1]]
    BY DEF Rate!RateHolds
  <2>2. /\ KeyInv(store[k], admitted[k], clock, Presets[k[1]])
        /\ store[k] \in Entry /\ admitted[k] \in Seq(Nat) /\ clock \in Nat
        /\ Presets[k[1]] \in Nat /\ Window \in Nat
    BY <1>1, RateConstants DEF RateInv
  <2>3. \A t, u : Rate!AdmittedIn(k, t, u) = Cardinality(Places(admitted[k], t..u))
    BY DEF Rate!AdmittedIn, Places, Cardinality, Rate!Cardinality
  <2>4. \A t \in 0..MaxClock : Rate!AdmittedIn(k, t, t + Window) <= 2 * Presets[k[1]]
    <3>1. \A t \in 0..MaxClock : t \in Nat
      OBVIOUS
    <3>2. QED BY <2>2, <2>3, <3>1 DEF KeyInv, WindowsHold
  <2>5. ASSUME Rate!Refused(k)
        PROVE  \E t \in 0..clock : t + Window >= clock
                                  /\ Rate!AdmittedIn(k, t, clock) >= Presets[k[1]]
    <3> DEFINE s == store[k].resetAt - Window
    <3>1. /\ store[k] # Rate!None /\ clock <= store[k].resetAt
          /\ store[k].count >= Presets[k[1]]
      BY <2>2, <2>5 DEF Rate!Refused, Rate!Expired, Entry
    <3>2. /\ s \in Nat /\ s <= clock
          /\ store[k].count = Cardinality(Places(admitted[k], Since(s)))
      BY <2>2, <3>1 DEF KeyInv, Counting
    <3>3. s \in 0..clock /\ s + Window >= clock
      BY <2>2, <3>1, <3>2 DEF Entry
    <3>4. Places(admitted[k], Since(s)) = Places(admitted[k], s..clock)
      <4>1. \A i \in DOMAIN admitted[k] : admitted[k][i] \in Nat /\ admitted[k][i] <= clock
        BY <2>2 DEF KeyInv
      <4>2. QED BY <2>2, <3>2, <4>1 DEF Places, Since
    <3> HIDE DEF s
    <3>5. QED BY <2>3, <3>1, <3>2, <3>3, <3>4
  <2>6. QED BY <2>4, <2>5
<1>2. RateInv /\ [Rate!RateNext]_rateState => RateInv'
  BY RateStep
<1>3. QED BY <1>1, <1>2, RateInit, PTL DEF RateSpec

\* The promises about budgets that the run of all parts checks.
THEOREM Budgets == LlmSpec /\ RateSpec => []BudgetsHold
<1>1. Llm!CallBudgetHolds /\ Rate!RateHolds => BudgetsHold
  BY DEF BudgetsHold
<1>2. QED BY <1>1, CallBudgets, RateLimits, PTL

-----------------------------------------------------------------------------
(* AutoMergePanel: a save that enables was acknowledged *)

FloorValues == Floors \cup {0, Panel!DefaultFloor}
LoadedForm == [repo : PanelRepos, enabled : BOOLEAN, floor : FloorValues]

\* The box is ticked only since the last load, and under the repository that is
\* shown unless the answer of a save has replaced that; so is a save that enables.
PanelInv ==
    /\ settings \in [PanelRepos -> [enabled : BOOLEAN, floor : FloorValues]]
    /\ picked \in PanelRepos \cup {"none"}
    /\ form \in LoadedForm \cup {Panel!NoForm}
    /\ loads \subseteq LoadedForm
    /\ puts \subseteq [target : PanelRepos, from : LoadedForm,
                        acked : PanelRepos \cup {"none"}, displaced : BOOLEAN]
    /\ ack \in BOOLEAN /\ acked \in PanelRepos \cup {"none"} /\ displaced \in BOOLEAN
    /\ ack => acked # "none"
    /\ acked = "none" \/ acked = form.repo \/ displaced
    /\ Panel!SavesAreAcknowledged

LEMMA PanelInit == Panel!PanelInit => PanelInv
<1> SUFFICES ASSUME Panel!PanelInit PROVE PanelInv
  OBVIOUS
<1>1. Panel!NoRow \in [enabled : BOOLEAN, floor : FloorValues]
  BY DEF Panel!NoRow, FloorValues
<1>2. QED BY <1>1 DEF Panel!PanelInit, PanelInv, Panel!SavesAreAcknowledged

LEMMA PanelStep ==
  ASSUME PanelInv, [Panel!PanelNext]_panelState
  PROVE  PanelInv'
<1> USE DEF PanelInv
<1>0. "none" \notin PanelRepos
  BY PartsAssumption DEF Panel!PanelAssumption
<1>1. ASSUME NEW r \in PanelRepos, Panel!Pick(r) PROVE PanelInv'
  BY <1>1 DEF Panel!Pick, Panel!SavesAreAcknowledged
<1>2. CASE Panel!Load
  <2>1. picked \in PanelRepos
    BY <1>2 DEF Panel!Load
  <2>2. Panel!Row(picked) \in [enabled : BOOLEAN, floor : FloorValues]
    BY <2>1 DEF Panel!Row, Panel!SchemaDefaults, FloorValues
  <2>3. Panel!Shown(picked, Panel!Row(picked)) \in LoadedForm
    BY <2>1, <2>2 DEF Panel!Shown, LoadedForm
  <2>4. loads' = loads \cup {Panel!Shown(picked, Panel!Row(picked))}
        /\ UNCHANGED <<settings, picked, form, ack, puts, acked, displaced>>
    BY <1>2 DEF Panel!Load
  <2>5. QED BY <2>3, <2>4 DEF Panel!SavesAreAcknowledged
<1>3. CASE Panel!Edit
  <2>1. PICK on \in BOOLEAN, f \in Floors : form' = [form EXCEPT !.enabled = on, !.floor = f]
    BY <1>3 DEF Panel!Edit
  <2>2. form \in LoadedForm
    <3>1. form # Panel!NoForm
      BY <1>3, Zenon DEF Panel!Edit
    <3>2. QED BY <3>1
  <2>3. form' \in LoadedForm /\ form'.repo = form.repo
    BY <2>1, <2>2 DEF LoadedForm, FloorValues
  <2>4. QED BY <1>3, <2>3 DEF Panel!Edit, Panel!SavesAreAcknowledged
<1>4. CASE Panel!Reset
  <2>1. form \in LoadedForm
    BY <1>4 DEF Panel!Reset
  <2>2. form' \in LoadedForm /\ form'.repo = form.repo
    BY <1>4, <2>1 DEF Panel!Reset, Panel!Shown, Panel!SchemaDefaults, LoadedForm, FloorValues
  <2>3. QED BY <1>4, <2>2 DEF Panel!Reset, Panel!SavesAreAcknowledged
<1>5. CASE Panel!ToggleAck
  <2>1. form \in LoadedForm
    BY <1>5 DEF Panel!ToggleAck, Panel!NoForm
  <2>2. form.repo \in PanelRepos
    BY <2>1 DEF LoadedForm
  <2>3. QED BY <1>0, <1>5, <2>2 DEF Panel!ToggleAck, Panel!SavesAreAcknowledged
<1>6. CASE Panel!Save
  <2>1. form \in LoadedForm /\ form.repo \in PanelRepos
    BY <1>6 DEF Panel!Save, LoadedForm
  <2>2. form.enabled => acked # "none"
    BY <1>6 DEF Panel!Save
  <2>3. /\ puts' = {[target |-> form.repo, from |-> form, acked |-> acked,
                     displaced |-> displaced]}
        /\ UNCHANGED <<settings, picked, form, ack, loads, acked, displaced>>
    BY <1>6 DEF Panel!Save, Panel!SaveTarget
  <2>4. Panel!SavesAreAcknowledged'
    BY <2>2, <2>3 DEF Panel!SavesAreAcknowledged
  <2>5. puts' \subseteq [target : PanelRepos, from : LoadedForm,
                         acked : PanelRepos \cup {"none"}, displaced : BOOLEAN]
    BY <2>1, <2>3
  <2>6. QED BY <2>3, <2>4, <2>5
<1>7. ASSUME NEW l \in loads, Panel!Loaded(l) PROVE PanelInv'
  BY <1>7 DEF Panel!Loaded, Panel!KeepAck, Panel!SavesAreAcknowledged
<1>8. ASSUME NEW l \in loads, Panel!LoadFails(l) PROVE PanelInv'
  BY <1>8 DEF Panel!LoadFails, Panel!SavesAreAcknowledged
<1>9. ASSUME NEW p \in puts, Panel!Put(p) PROVE PanelInv'
  <2>1. p.from.enabled \in BOOLEAN /\ p.from.floor \in FloorValues /\ p.target \in PanelRepos
    BY DEF LoadedForm
  <2>2. form' \in LoadedForm
    BY <1>9, <2>1 DEF Panel!Put, Panel!Shown, LoadedForm
  <2>3. settings' \in [PanelRepos -> [enabled : BOOLEAN, floor : FloorValues]]
    BY <1>9, <2>1 DEF Panel!Put
  <2>4. /\ puts' = {} /\ displaced' \in BOOLEAN
        /\ acked' = "none" \/ displaced'
        /\ UNCHANGED <<picked, ack, loads, acked>>
    BY <1>9 DEF Panel!Put
  <2>5. QED BY <2>2, <2>3, <2>4 DEF Panel!SavesAreAcknowledged
<1>10. ASSUME NEW p \in puts, Panel!PutFails(p) PROVE PanelInv'
  BY <1>10 DEF Panel!PutFails, Panel!SavesAreAcknowledged
<1>11. CASE UNCHANGED panelState
  BY <1>11 DEF panelState, Panel!SavesAreAcknowledged
<1>12. QED
  BY <1>1, <1>2, <1>3, <1>4, <1>5, <1>6, <1>7, <1>8, <1>9, <1>10, <1>11 DEF Panel!PanelNext

\* However loads, edits and saves overlap, a save that turns auto-merge on was
\* acknowledged after the last load, for the repository it writes unless the
\* answer of a save has replaced the editor since, and writes the row of the
\* repository shown (AutoMergePanel.tsx).
THEOREM PanelSaves == PanelSpec => []Panel!SavesAreAcknowledged
<1>1. PanelInv => Panel!SavesAreAcknowledged
  BY DEF PanelInv
<1>2. PanelInv /\ [Panel!PanelNext]_panelState => PanelInv'
  BY PanelStep
<1>3. QED BY <1>1, <1>2, PanelInit, PTL DEF PanelSpec

-----------------------------------------------------------------------------
(* MonitorSchedules: no row without a token *)

TypedPat == Pats \cup {Schedules!NoPat}
TabRecord == [loaded : BOOLEAN, exists : BOOLEAN, enabled : BOOLEAN, ack : BOOLEAN, pat : TypedPat]
CallRecord == [step : {"none", "find", "upsert", "delete", "refused"}, pat : TypedPat,
               enabled : BOOLEAN]

ScheduleInv ==
    /\ schedule \in [enabled : BOOLEAN, pat : TypedPat]
    /\ tab \in [Tabs -> TabRecord]
    /\ call \in [Tabs -> CallRecord]
    /\ Schedules!SchedulesCanFire

LEMMA ScheduleInit == Schedules!ScheduleInit => ScheduleInv
BY DEF Schedules!ScheduleInit, ScheduleInv, TabRecord, CallRecord, TypedPat, Schedules!NoSchedule, Schedules!EmptyTab,
   Schedules!Quiet, Schedules!SchedulesCanFire

LEMMA ScheduleStep ==
  ASSUME ScheduleInv, [Schedules!ScheduleNext]_schedulesState
  PROVE  ScheduleInv'
<1> USE DEF ScheduleInv
<1>1. ASSUME NEW t \in Tabs, Schedules!OpenTab(t) PROVE ScheduleInv'
  BY <1>1 DEF Schedules!OpenTab, Schedules!Exists, TabRecord, CallRecord, TypedPat, Schedules!SchedulesCanFire
<1>2. ASSUME NEW t \in Tabs, Schedules!EditTab(t) PROVE ScheduleInv'
  <2>1. PICK on \in BOOLEAN, ticked \in BOOLEAN, p \in TypedPat :
          tab' = [tab EXCEPT ![t].enabled = on, ![t].ack = ticked, ![t].pat = p]
    BY <1>2 DEF Schedules!EditTab, TypedPat
  <2>2. tab' \in [Tabs -> TabRecord]
    <3>1. [tab[t] EXCEPT !.enabled = on, !.ack = ticked, !.pat = p] \in TabRecord
      BY DEF TabRecord
    <3>2. tab' = [tab EXCEPT ![t] = [tab[t] EXCEPT !.enabled = on, !.ack = ticked, !.pat = p]]
      BY <2>1
    <3>3. QED BY <3>1, <3>2
  <2>3. QED BY <1>2, <2>2 DEF Schedules!EditTab, Schedules!SchedulesCanFire
<1>3. ASSUME NEW t \in Tabs, Schedules!SaveTab(t) PROVE ScheduleInv'
  BY <1>3 DEF Schedules!SaveTab, TabRecord, CallRecord, Schedules!SchedulesCanFire
<1>4. ASSUME NEW t \in Tabs, Schedules!DeleteTab(t) PROVE ScheduleInv'
  BY <1>4 DEF Schedules!DeleteTab, TabRecord, CallRecord, Schedules!Quiet, TypedPat, Schedules!SchedulesCanFire
<1>5. ASSUME NEW t \in Tabs, Schedules!FindUnique(t) PROVE ScheduleInv'
  <2>1. CASE Schedules!NeedsPat(call[t])
    BY <1>5, <2>1 DEF Schedules!FindUnique, CallRecord, Schedules!SchedulesCanFire
  <2>2. CASE ~Schedules!NeedsPat(call[t])
    <3> DEFINE goesOn == IF call[t].pat # Schedules!NoPat THEN call[t].pat ELSE schedule.pat
    <3>1. goesOn \in Pats
      BY <2>2 DEF Schedules!NeedsPat, Schedules!Exists, TypedPat, CallRecord
    <3>2. call' = [call EXCEPT ![t] = [call[t] EXCEPT !.step = "upsert", !.pat = goesOn]]
          /\ UNCHANGED <<schedule, tab>>
      BY <1>5, <2>2 DEF Schedules!FindUnique
    <3> HIDE DEF goesOn
    <3>3. call' \in [Tabs -> CallRecord]
      BY <3>1, <3>2 DEF TypedPat, CallRecord
    <3>4. \A u \in Tabs : call'[u].step = "upsert" => call'[u].pat \in Pats
      BY <3>1, <3>2 DEF CallRecord, Schedules!SchedulesCanFire
    <3>5. QED BY <3>2, <3>3, <3>4 DEF Schedules!SchedulesCanFire
  <2>3. QED BY <2>1, <2>2
<1>6. ASSUME NEW t \in Tabs, Schedules!Upsert(t) PROVE ScheduleInv'
  <2>1. call[t].pat \in Pats /\ call[t].enabled \in BOOLEAN
    BY <1>6 DEF Schedules!Upsert, Schedules!SchedulesCanFire, CallRecord
  <2>2. schedule' \in [enabled : BOOLEAN, pat : TypedPat] /\ schedule'.pat \in Pats
    BY <1>6, <2>1 DEF Schedules!Upsert, TypedPat
  <2>3. tab' \in [Tabs -> TabRecord]
    <3> DEFINE row == [tab[t] EXCEPT !.exists = TRUE, !.enabled = call[t].enabled,
                                     !.pat = Schedules!NoPat]
    <3>1. row \in TabRecord
      BY <2>1 DEF TabRecord, TypedPat
    <3>2. tab' = [tab EXCEPT ![t] = row]
      BY <1>6 DEF Schedules!Upsert
    <3>3. QED BY <3>1, <3>2
  <2>4. call' \in [Tabs -> CallRecord]
        /\ \A u \in Tabs : call'[u].step = "upsert" => call'[u].pat \in Pats
    BY <1>6 DEF Schedules!Upsert, Schedules!Quiet, Schedules!SchedulesCanFire, CallRecord, TypedPat
  <2>5. QED BY <2>2, <2>3, <2>4 DEF Schedules!SchedulesCanFire
<1>7. ASSUME NEW t \in Tabs, Schedules!DeleteMany(t) PROVE ScheduleInv'
  BY <1>7 DEF Schedules!DeleteMany, TabRecord, CallRecord, Schedules!NoSchedule, Schedules!EmptyTab, Schedules!Quiet,
     TypedPat, Schedules!SchedulesCanFire
<1>8. ASSUME NEW t \in Tabs, Schedules!CallFails(t) PROVE ScheduleInv'
  BY <1>8 DEF Schedules!CallFails, TabRecord, CallRecord, Schedules!Quiet, TypedPat, Schedules!SchedulesCanFire
<1>9. CASE UNCHANGED schedulesState
  BY <1>9 DEF schedulesState, Schedules!SchedulesCanFire
<1>10. QED
  BY <1>1, <1>2, <1>3, <1>4, <1>5, <1>6, <1>7, <1>8, <1>9 DEF Schedules!ScheduleNext

\* Whatever the tabs read, write and delete between one another's awaits, no
\* schedule is stored without a token (monitor-schedules route).
THEOREM StoredSchedules == SchedulesSpec => []Schedules!SchedulesCanFire
<1>1. ScheduleInv => Schedules!SchedulesCanFire
  BY DEF ScheduleInv
<1>2. ScheduleInv /\ [Schedules!ScheduleNext]_schedulesState => ScheduleInv'
  BY ScheduleStep
<1>3. QED BY <1>1, <1>2, ScheduleInit, PTL DEF SchedulesSpec

-----------------------------------------------------------------------------
(* TokenSession: no token that was not proven *)

\* A token is stored, and a name shown, only when the answer is about it; so
\* the property is inductive by itself.
THEOREM ProvenTokens == SessionSpec => []Session!OnlyProvenTokens
<1>1. Session!TokenInit => Session!OnlyProvenTokens
  BY DEF Session!TokenInit, Session!OnlyProvenTokens
<1>2. ASSUME Session!OnlyProvenTokens, [Session!TokenNext]_sessionState
      PROVE  Session!OnlyProvenTokens'
  <2> USE <1>2 DEF Session!OnlyProvenTokens
  <2>1. CASE Session!Accepted
    BY <2>1 DEF Session!Accepted
  <2>2. CASE Session!Refused
    BY <2>2 DEF Session!Refused, Session!KeptOnFailure
  <2>3. CASE Session!Mount \/ Session!Revoke
    BY <2>3 DEF Session!Mount, Session!Revoke
  <2>4. CASE \/ \E t \in Tokens : Session!Write(t)
             \/ \E by \in {"settings", "connect"} : Session!Submit(by)
             \/ Session!Revalidate \/ Session!Expire
    BY <2>4 DEF Session!Write, Session!Submit, Session!Revalidate, Session!Expire
  <2>5. CASE UNCHANGED sessionState
    BY <2>5 DEF sessionState
  <2>6. QED BY <2>1, <2>2, <2>3, <2>4, <2>5 DEF Session!TokenNext
<1>3. QED BY <1>1, <1>2, PTL DEF SessionSpec

-----------------------------------------------------------------------------
(* ScanForm: the preview and the hosts *)

\* What a list of extra hosts has to be.
HostsFit(w) ==
    /\ w \in Seq(Hosts)
    /\ Len(w) <= MaxHosts
    /\ \A i, j \in 1..Len(w) : w[i] = w[j] => i = j
    /\ \A i \in 1..Len(w) : w[i] \in Tier1Hosts => \E j \in 1..Len(SavedHosts) : SavedHosts[j] = w[i]

FormInv ==
    /\ typed \in FormRepos \cup {Form!Nothing}
    /\ job \in [stage : {"none", "timer", "fetch"}, repo : FormRepos \cup {Form!Nothing}]
    /\ agreed \in BOOLEAN
    /\ HostsFit(tier2)
    /\ \A p \in posts : HostsFit(p.hosts)
    /\ Form!PreviewsAreFresh

LEMMA HostAdded ==
  ASSUME NEW w, NEW h \in Hosts, HostsFit(w), h \notin Tier1Hosts,
         \A i \in 1..Len(w) : w[i] # h, Len(w) < MaxHosts, MaxHosts \in Nat
  PROVE  HostsFit(Append(w, h))
BY DEF HostsFit

LEMMA HostRemoved ==
  ASSUME NEW w, HostsFit(w), NEW i \in 1..Len(w), MaxHosts \in Nat
  PROVE  HostsFit(Form!RemoveAt(w, i))
<1> DEFINE v == Form!RemoveAt(w, i)
<1>0. w \in Seq(Hosts) /\ Len(w) \in Nat /\ i \in Nat /\ 1 <= i /\ i <= Len(w)
  BY DEF HostsFit
<1> DEFINE front == SubSeq(w, 1, i - 1)
           back == SubSeq(w, i + 1, Len(w))
<1>a. /\ front \in Seq(Hosts) /\ Len(front) = i - 1
      /\ \A k \in 1..(i - 1) : front[k] = w[k]
  BY <1>0
<1>b. /\ back \in Seq(Hosts) /\ Len(back) = Len(w) - i
      /\ \A k \in 1..(Len(w) - i) : back[k] = w[i + k]
  BY <1>0
<1>c. v = front \o back
  BY DEF Form!RemoveAt
<1> HIDE DEF v, front, back
<1>1. /\ v \in Seq(Hosts) /\ Len(v) = Len(w) - 1
      /\ \A k \in 1..Len(v) : v[k] = w[IF k < i THEN k ELSE k + 1]
  <2>1. v \in Seq(Hosts) /\ Len(v) = Len(w) - 1
    BY <1>0, <1>a, <1>b, <1>c
  <2>2. \A k \in 1..Len(v) : v[k] = IF k <= Len(front) THEN front[k] ELSE back[k - Len(front)]
    BY <1>0, <1>a, <1>b, <1>c
  <2>3. ASSUME NEW k \in 1..Len(v) PROVE v[k] = w[IF k < i THEN k ELSE k + 1]
    <3>1. CASE k < i
      <4>1. k \in 1..(i - 1)
        BY <1>0, <2>1, <3>1
      <4>2. QED BY <1>0, <1>a, <2>2, <3>1, <4>1
    <3>2. CASE ~(k < i)
      <4>1. k - (i - 1) \in 1..(Len(w) - i) /\ i + (k - (i - 1)) = k + 1
        BY <1>0, <2>1, <3>2
      <4>2. v[k] = back[k - (i - 1)]
        BY <1>0, <1>a, <2>1, <2>2, <3>2
      <4>3. QED BY <1>0, <1>b, <2>1, <3>2, <4>1, <4>2
    <3>3. QED BY <3>1, <3>2
  <2>4. QED BY <2>1, <2>3
<1>2. \A k \in 1..Len(v) : (IF k < i THEN k ELSE k + 1) \in 1..Len(w)
  BY <1>0, <1>1
<1>3. Len(v) <= MaxHosts
  BY <1>1 DEF HostsFit
<1>4. \A k, l \in 1..Len(v) : v[k] = v[l] => k = l
  BY <1>1, <1>2 DEF HostsFit
<1>5. \A k \in 1..Len(v) : v[k] \in Tier1Hosts => \E j \in 1..Len(SavedHosts) : SavedHosts[j] = v[k]
  BY <1>1, <1>2 DEF HostsFit
<1>6. QED BY <1>1, <1>3, <1>4, <1>5 DEF HostsFit, v

LEMMA FormConstants ==
  /\ MaxHosts \in Nat /\ HostsFit(SavedHosts)
  /\ Form!Nothing \notin FormRepos
<1>1. /\ MaxHosts \in Nat /\ SavedHosts \in Seq(Hosts) /\ Len(SavedHosts) <= MaxHosts
      /\ Form!Nothing \notin FormRepos /\ Form!IsInjective(SavedHosts)
  BY PartsAssumption DEF Form!FormAssumption
<1>2. \A i, j \in DOMAIN SavedHosts : SavedHosts[i] = SavedHosts[j] => i = j
  BY <1>1 DEF Form!IsInjective
<1>3. QED BY <1>1, <1>2 DEF HostsFit

LEMMA FormInit == Form!FormInit => FormInv
<1> SUFFICES ASSUME Form!FormInit PROVE FormInv
  OBVIOUS
<1>1. HostsFit(tier2) /\ posts = {}
  BY FormConstants DEF Form!FormInit
<1>2. Form!PreviewsAreFresh
  BY DEF Form!FormInit, Form!NoJob, Form!PreviewsAreFresh
<1>3. QED BY <1>1, <1>2 DEF Form!FormInit, FormInv, Form!NoJob

LEMMA FormStep ==
  ASSUME FormInv, [Form!FormNext]_formState
  PROVE  FormInv'
<1> USE DEF FormInv
<1>1. ASSUME NEW r \in FormRepos \cup {Form!Nothing}, Form!Type(r) PROVE FormInv'
  BY <1>1 DEF Form!Type, Form!CleanUp, Form!NoJob, Form!PreviewsAreFresh
<1>2. CASE Form!Fetch
  BY <1>2 DEF Form!Fetch, Form!NoJob, Form!PreviewsAreFresh
<1>3. CASE Form!Previewed
  BY <1>3 DEF Form!Previewed, Form!Untick, Form!NoJob, Form!PreviewsAreFresh, Form!AckNeeded
<1>4. CASE Form!PreviewFails
  BY <1>4 DEF Form!PreviewFails, Form!NoJob, Form!PreviewsAreFresh
<1>5. CASE Form!TickBox
  BY <1>5 DEF Form!TickBox, Form!PreviewsAreFresh
<1>6. CASE Form!EditHosts
  <2>1. HostsFit(tier2')
    <3>1. ASSUME NEW h \in Hosts, Form!HostFits(h), tier2' = Append(tier2, h)
          PROVE  HostsFit(tier2')
      BY <3>1, FormConstants, HostAdded DEF Form!HostFits, Form!Contains
    <3>2. ASSUME NEW i \in DOMAIN tier2, tier2' = Form!RemoveAt(tier2, i)
          PROVE  HostsFit(tier2')
      <4>1. i \in 1..Len(tier2)
        BY DEF HostsFit
      <4>2. QED BY <3>2, <4>1, FormConstants, HostRemoved
    <3>3. QED BY <1>6, <3>1, <3>2 DEF Form!EditHosts
  <2>2. QED BY <1>6, <2>1 DEF Form!EditHosts, Form!PreviewsAreFresh
<1>7. CASE Form!Start
  <2>1. \A p \in posts' : HostsFit(p.hosts)
    BY <1>7 DEF Form!Start
  <2>2. QED BY <1>7, <2>1 DEF Form!Start, Form!PreviewsAreFresh
<1>8. ASSUME NEW p \in posts, Form!Started(p) \/ Form!NotStarted(p) PROVE FormInv'
  BY <1>8 DEF Form!Started, Form!NotStarted, Form!PreviewsAreFresh
<1>9. CASE UNCHANGED formState
  BY <1>9 DEF formState, Form!PreviewsAreFresh
<1>10. QED BY <1>1, <1>2, <1>3, <1>4, <1>5, <1>6, <1>7, <1>8, <1>9 DEF Form!FormNext

\* The preview that comes in is that of the repository in the input, no box is
\* ticked without effect, and no list of hosts is posted that the server would
\* refuse (scan/new/page.tsx).
THEOREM FormIsTrue == FormSpec => [](Form!PreviewsAreFresh /\ Form!PostedHostsFit)
<1>1. FormInv => Form!PreviewsAreFresh /\ Form!PostedHostsFit
  <2>1. ASSUME NEW w, HostsFit(w)
        PROVE  /\ Len(w) <= MaxHosts /\ Form!IsInjective(w)
               /\ Form!ToSet(w) \cap (Tier1Hosts \ Form!ToSet(SavedHosts)) = {}
    <3>1. w \in Seq(Hosts) /\ SavedHosts \in Seq(Hosts)
      BY <2>1, FormConstants DEF HostsFit
    <3>2. \A h \in Form!ToSet(w) : h \in Tier1Hosts => h \in Form!ToSet(SavedHosts)
      BY <2>1, <3>1 DEF HostsFit, Form!ToSet
    <3>3. Form!IsInjective(w)
      BY <2>1, <3>1 DEF HostsFit, Form!IsInjective
    <3>4. QED BY <2>1, <3>2, <3>3 DEF HostsFit
  <2>2. QED BY <2>1 DEF FormInv, Form!PostedHostsFit
<1>2. FormInv /\ [Form!FormNext]_formState => FormInv'
  BY FormStep
<1>3. QED BY <1>1, <1>2, FormInit, PTL DEF FormSpec

\* What is set is what was meant, as the run of all parts checks it: for all
\* repositories, tabs, tokens, hosts and bounds.
THEOREM Settings ==
  PanelSpec /\ SchedulesSpec /\ SessionSpec /\ FormSpec => []SettingsAreMeant
<1>1. /\ Panel!SavesAreAcknowledged /\ Schedules!SchedulesCanFire /\ Session!OnlyProvenTokens
      /\ Form!PreviewsAreFresh /\ Form!PostedHostsFit
      => SettingsAreMeant
  BY DEF SettingsAreMeant
<1>2. QED BY <1>1, PanelSaves, StoredSchedules, ProvenTokens, FormIsTrue, PTL

-----------------------------------------------------------------------------
(* ForkDelivery: the pre-flight keeps its word *)

\* Until something changes at GitHub: what the pre-flight found still holds
\* when the scan comes to deliver, and what is pushed to is as it was found.
Possible ==
    /\ delivery = "scan" => \/ hub.push \/ hub.scope
                            \/ hub.fork = "ready" /\ hub.forkPush
    /\ delivery = "fork" => \/ hub.scope
                            \/ hub.fork = "ready" /\ hub.forkPush
    /\ delivery = "poll" => hub.forkPush
    /\ delivery = "push" => \/ target = "upstream" /\ hub.push
                            \/ /\ target = "fork" /\ hub.fork = "ready"
                               /\ hub.forkPush \/ hub.scope
    /\ delivery = "denied" => /\ target = "fork" /\ hub.scope
                              /\ ~hub.mayFork \/ (hub.fork = "ready" /\ ~hub.forkPush)

ForkInv ==
    /\ hub \in Fork!Hub
    /\ changes \in Nat
    /\ delivery \in {"fork", "poll"} => target = "fork"
    /\ changes = 0 => Possible
    /\ delivery = "merge ok" => hub.pr = "merged"

LEMMA ForkInit == Fork!ForkInit => ForkInv
BY DEF Fork!ForkInit, ForkInv, Possible

LEMMA ForkStep ==
  ASSUME ForkInv, [Fork!ForkNext]_forkState
  PROVE  ForkInv'
<1> USE DEF ForkInv, Possible, Fork!Hub, Fork!ForkStates, Fork!Go, Fork!Unchanged
<1>1. CASE Fork!Preflight
  BY <1>1 DEF Fork!Preflight, Fork!DecideSubmitCapability
<1>2. CASE Fork!CanPush
  BY <1>2 DEF Fork!CanPush
<1>3. CASE Fork!ReuseFork
  BY <1>3 DEF Fork!ReuseFork
<1>4. CASE Fork!CreateFork
  BY <1>4 DEF Fork!CreateFork
<1>5. CASE Fork!ForkDenied
  BY <1>5 DEF Fork!ForkDenied
<1>6. CASE Fork!Poll
  BY <1>6 DEF Fork!Poll, Fork!Ready
<1>7. CASE Fork!GiveUpPolling
  BY <1>7 DEF Fork!GiveUpPolling, Fork!LastPoll, Fork!Ready
<1>8. CASE Fork!PushBranch
  BY <1>8 DEF Fork!PushBranch
<1>9. CASE Fork!OpenPR
  BY <1>9 DEF Fork!OpenPR
<1>10. CASE Fork!MergeRequest
  BY <1>10 DEF Fork!MergeRequest
<1>11. CASE Fork!RequestFails
  BY <1>11 DEF Fork!RequestFails
<1>12. CASE Fork!Provisioned
  BY <1>12 DEF Fork!Provisioned
<1>13. CASE Fork!RightsChange
  <2>1. /\ changes' \in Nat /\ changes' # 0
        /\ UNCHANGED <<delivery, target>>
    <3>1. changes' = changes + 1
      BY <1>13, Zenon DEF Fork!RightsChange
    <3>2. UNCHANGED <<delivery, target>>
      BY <1>13, Zenon DEF Fork!RightsChange
    <3>3. changes \in Nat
      BY Zenon
    <3> HIDE DEF ForkInv
    <3>4. changes' \in Nat /\ changes' # 0
      BY <3>1, <3>3
    <3>5. QED BY <3>2, <3>4, Zenon
  <2>2. /\ hub' \in Fork!Hub
        /\ hub'.pr = hub.pr
    <3>1. CASE hub' = [hub EXCEPT !.push = ~@]
      <4>1. (~hub.push) \in BOOLEAN
        OBVIOUS
      <4>2. PICK b \in BOOLEAN : hub' = [hub EXCEPT !.push = b]
        BY <3>1, <4>1, Zenon
      <4>3. QED BY <4>2
    <3>2. CASE hub' = [hub EXCEPT !.fork = "none"]
      BY <3>2
    <3>3. QED BY <1>13, <3>1, <3>2 DEF Fork!RightsChange
  <2>3. QED BY <2>1, <2>2
<1>14. CASE UNCHANGED forkState
  BY <1>14 DEF forkState
<1>15. QED
  BY <1>1, <1>2, <1>3, <1>4, <1>5, <1>6, <1>7, <1>8, <1>9, <1>10, <1>11, <1>12, <1>13, <1>14
  DEF Fork!ForkNext

\* A scan that passed the pre-flight is denied its delivery only by a change at
\* GitHub, or when the pre-flight went by the scopes of the token alone, however
\* long the fork takes and whatever request fails (lib/github/index.ts).
THEOREM Deliveries == ForkSpec => []DeliveryIsPossible
<1>1. ForkInv => DeliveryIsPossible
  BY DEF ForkInv, Possible, DeliveryIsPossible, Fork!DeliveryIsPossible, Fork!Ready
<1>2. ForkInv /\ [Fork!ForkNext]_forkState => ForkInv'
  BY ForkStep
<1>3. QED BY <1>1, <1>2, ForkInit, PTL DEF ForkSpec

-----------------------------------------------------------------------------
(* Patching: the patches are the diff *)

Contents == {"original", "bumped", "edited", "rewritten", "rewritten from a part"}
PatchRecord == [file : Patch!Files, content : Contents]

\* No file stands in the queue twice, and none that has a patch.
Untouched(q, ps) ==
    /\ \A i, j \in 1..Len(q) : q[i] = q[j] => i = j
    /\ \A i \in 1..Len(ps), j \in 1..Len(q) : ps[i].file # q[j]

\* The tree d and the patches ps tell the same story.
SameStory(d, ps) ==
    /\ \A f \in Patch!Files : d[f] # "original" => \E i \in 1..Len(ps) : ps[i].file = f
    /\ \A i \in 1..Len(ps) : ps[i].content = d[ps[i].file]
    /\ \A i, j \in 1..Len(ps) : ps[i].file = ps[j].file => i = j

\* And a file is worked on only while the budget has room for it.
PatchInv ==
    /\ queue \in Seq(Patch!Files) /\ disk \in [Patch!Files -> Contents]
    /\ patches \in Seq(PatchRecord)
    /\ Untouched(queue, patches)
    /\ SameStory(disk, patches)
    /\ spent \in Nat /\ spent <= IssueBudget
    /\ at \in {"pick", "blocks", "full", "end"}
    /\ at \in {"blocks", "full"} => queue # <<>> /\ Patch!Affords(spent)

LEMMA FileDone ==
  ASSUME NEW q \in Seq(Patch!Files), q # <<>>, NEW ps \in Seq(PatchRecord), Untouched(q, ps)
  PROVE  Tail(q) \in Seq(Patch!Files) /\ Untouched(Tail(q), ps)
<1>1. /\ Tail(q) \in Seq(Patch!Files) /\ Len(Tail(q)) = Len(q) - 1
      /\ \A i \in 1..Len(Tail(q)) : Tail(q)[i] = q[i + 1] /\ i + 1 \in 1..Len(q)
  OBVIOUS
<1>2. \A i, j \in 1..Len(Tail(q)) : Tail(q)[i] = Tail(q)[j] => i = j
  BY <1>1 DEF Untouched
<1>3. \A i \in 1..Len(ps), j \in 1..Len(Tail(q)) : ps[i].file # Tail(q)[j]
  BY <1>1 DEF Untouched
<1>4. QED BY <1>1, <1>2, <1>3 DEF Untouched

TreeWith(d, f, content) == [d EXCEPT ![f] = content]
PatchesWith(ps, f, content) == Append(ps, [file |-> f, content |-> content])

\* The head of the queue is written and gets its patch.
LEMMA FileWritten ==
  ASSUME NEW q \in Seq(Patch!Files), q # <<>>, NEW ps \in Seq(PatchRecord), Untouched(q, ps),
         NEW d \in [Patch!Files -> Contents], SameStory(d, ps), NEW content \in Contents
  PROVE  /\ TreeWith(d, Head(q), content) \in [Patch!Files -> Contents]
         /\ PatchesWith(ps, Head(q), content) \in Seq(PatchRecord)
         /\ Untouched(Tail(q), PatchesWith(ps, Head(q), content))
         /\ SameStory(TreeWith(d, Head(q), content), PatchesWith(ps, Head(q), content))
<1> DEFINE d2 == TreeWith(d, Head(q), content)
           qs == PatchesWith(ps, Head(q), content)
<1>0. Head(q) \in Patch!Files /\ Head(q) = q[1] /\ Len(q) \in Nat /\ 1 \in 1..Len(q)
  OBVIOUS
<1>1. \A i \in 1..Len(ps) : ps[i] \in PatchRecord /\ ps[i].file # Head(q)
  BY <1>0 DEF Untouched
<1>2. /\ qs \in Seq(PatchRecord) /\ Len(qs) = Len(ps) + 1
      /\ \A i \in 1..Len(ps) : qs[i] = ps[i]
      /\ qs[Len(ps) + 1] = [file |-> Head(q), content |-> content]
  BY <1>0 DEF PatchRecord, PatchesWith
<1>3. d2 \in [Patch!Files -> Contents]
      /\ d2[Head(q)] = content /\ \A f \in Patch!Files : f # Head(q) => d2[f] = d[f]
  BY <1>0 DEF TreeWith
<1> HIDE DEF d2, qs
<1>4. \A i \in 1..Len(qs) : i \in 1..Len(ps) \/ i = Len(ps) + 1
  BY <1>2
<1>5. Untouched(Tail(q), qs)
  <2>1. /\ Tail(q) \in Seq(Patch!Files) /\ Untouched(Tail(q), ps)
        /\ \A j \in 1..Len(Tail(q)) : Tail(q)[j] = q[j + 1] /\ j + 1 \in 1..Len(q) /\ j + 1 # 1
    BY FileDone
  <2>2. \A j \in 1..Len(Tail(q)) : Tail(q)[j] # Head(q)
    BY <1>0, <2>1 DEF Untouched
  <2>3. \A i \in 1..Len(qs), j \in 1..Len(Tail(q)) : qs[i].file # Tail(q)[j]
    BY <1>2, <1>4, <2>1, <2>2 DEF Untouched
  <2>4. QED BY <2>1, <2>3 DEF Untouched
<1>6. SameStory(d2, qs)
  <2>1. ASSUME NEW f \in Patch!Files, d2[f] # "original"
        PROVE  \E i \in 1..Len(qs) : qs[i].file = f
    <3>1. CASE f = Head(q)
      <4>1. Len(ps) + 1 \in 1..Len(qs) /\ qs[Len(ps) + 1].file = f
        BY <1>2, <3>1
      <4>2. QED BY <4>1
    <3>2. CASE f # Head(q)
      <4>1. PICK i \in 1..Len(ps) : ps[i].file = f
        BY <1>3, <2>1, <3>2 DEF SameStory
      <4>2. i \in 1..Len(qs) /\ qs[i].file = f
        BY <1>2, <4>1
      <4>3. QED BY <4>2
    <3>3. QED BY <3>1, <3>2
  <2>2. \A i \in 1..Len(qs) : qs[i].content = d2[qs[i].file]
    <3>1. ASSUME NEW i \in 1..Len(ps) PROVE qs[i].content = d2[qs[i].file]
      BY <1>1, <1>2, <1>3 DEF SameStory, PatchRecord
    <3>2. QED BY <1>2, <1>3, <1>4, <3>1
  <2>3. ASSUME NEW i \in 1..Len(qs), NEW j \in 1..Len(qs), qs[i].file = qs[j].file
        PROVE  i = j
    <3>1. CASE i \in 1..Len(ps) /\ j \in 1..Len(ps)
      BY <1>2, <2>3, <3>1 DEF SameStory
    <3>2. CASE i = Len(ps) + 1 \/ j = Len(ps) + 1
      BY <1>1, <1>2, <1>4, <2>3, <3>2
    <3>3. QED BY <1>4, <3>1, <3>2
  <2>4. QED BY <2>1, <2>2, <2>3 DEF SameStory
<1>7. QED BY <1>2, <1>3, <1>5, <1>6 DEF d2, qs

LEMMA PatchConstants ==
  /\ RankedFiles \in Seq(Patch!Files) /\ Untouched(RankedFiles, <<>>)
  /\ IssueBudget \in Nat /\ FileEstimate \in Nat /\ BlocksCost \in Nat
  /\ BlocksCost <= FileEstimate
<1>1. /\ RankedFiles \in Seq(Patch!Files) /\ Patch!IsInjective(RankedFiles)
      /\ IssueBudget \in Nat /\ FileEstimate \in Nat /\ BlocksCost \in 0..FileEstimate
  BY PartsAssumption DEF Patch!PatchingAssumption
<1>2. \A i, j \in DOMAIN RankedFiles : RankedFiles[i] = RankedFiles[j] => i = j
  BY <1>1 DEF Patch!IsInjective
<1>3. QED BY <1>1, <1>2 DEF Untouched

LEMMA PatchInit == Patch!Init => PatchInv
<1> SUFFICES ASSUME Patch!Init PROVE PatchInv
  OBVIOUS
<1>1. SameStory(disk, patches) /\ disk \in [Patch!Files -> Contents]
  BY DEF Patch!Init, SameStory, Contents
<1>2. QED BY <1>1, PatchConstants DEF Patch!Init, PatchInv

\* The steps that are done with a file: it may be written, and is paid for.
LEMMA PatchFinish ==
  ASSUME PatchInv, queue # <<>>, Patch!Affords(spent), NEW cost \in {FileEstimate, BlocksCost},
         Patch!Finish(cost),
         Patch!Keep \/ \E content \in Contents : Patch!Write(content)
  PROVE  PatchInv'
<1>1. /\ spent' = spent + cost /\ queue' = Tail(queue) /\ at' = "pick"
  BY DEF Patch!Finish
<1>2. spent' \in Nat /\ spent' <= IssueBudget
  BY <1>1, PatchConstants DEF PatchInv, Patch!Affords
<1>3. /\ queue' \in Seq(Patch!Files) /\ disk' \in [Patch!Files -> Contents]
      /\ patches' \in Seq(PatchRecord)
      /\ Untouched(queue', patches') /\ SameStory(disk', patches')
  <2>1. CASE Patch!Keep
    BY <1>1, <2>1, FileDone DEF PatchInv, Patch!Keep
  <2>2. ASSUME NEW content \in Contents, Patch!Write(content)
        PROVE  /\ queue' \in Seq(Patch!Files) /\ disk' \in [Patch!Files -> Contents]
               /\ patches' \in Seq(PatchRecord)
               /\ Untouched(queue', patches') /\ SameStory(disk', patches')
    <3>1. /\ disk' = TreeWith(disk, Head(queue), content)
          /\ patches' = PatchesWith(patches, Head(queue), content)
      BY <2>2 DEF Patch!Write, Patch!Current, TreeWith, PatchesWith
    <3>2. queue \in Seq(Patch!Files) /\ Tail(queue) \in Seq(Patch!Files)
          /\ patches \in Seq(PatchRecord) /\ disk \in [Patch!Files -> Contents]
          /\ Untouched(queue, patches) /\ SameStory(disk, patches)
      BY FileDone DEF PatchInv
    <3>3. /\ disk' \in [Patch!Files -> Contents] /\ patches' \in Seq(PatchRecord)
          /\ Untouched(Tail(queue), patches') /\ SameStory(disk', patches')
      BY <2>2, <3>1, <3>2, FileWritten
    <3>4. QED BY <1>1, <3>2, <3>3
  <2>3. QED BY <2>1, <2>2
<1>4. QED BY <1>1, <1>2, <1>3 DEF PatchInv

LEMMA PatchStep ==
  ASSUME PatchInv, [Patch!Next]_patchState
  PROVE  PatchInv'
<1>1. CASE Patch!StopPatching
  BY <1>1 DEF PatchInv, Patch!StopPatching
<1>2. CASE Patch!SkipMissing
  BY <1>2, PatchFinish DEF Patch!SkipMissing
<1>3. CASE Patch!BumpManifest
  <2>1. \E content \in Contents : Patch!Write(content)
    BY <1>3 DEF Patch!BumpManifest, Contents
  <2>2. QED BY <1>3, <2>1, PatchFinish DEF Patch!BumpManifest
<1>4. CASE Patch!ChooseStrategy
  BY <1>4 DEF PatchInv, Patch!ChooseStrategy, Patch!Affords
<1>5. CASE Patch!BlocksApplied
  <2>1. \E content \in Contents : Patch!Write(content)
    BY <1>5 DEF Patch!BlocksApplied, Contents
  <2>2. queue # <<>> /\ Patch!Affords(spent)
    BY <1>5 DEF PatchInv, Patch!BlocksApplied
  <2>3. QED BY <1>5, <2>1, <2>2, PatchFinish DEF Patch!BlocksApplied
<1>6. CASE Patch!BlocksMissed
  BY <1>6 DEF PatchInv, Patch!BlocksMissed, Patch!KeepOnMiss, Patch!Affords
<1>7. CASE Patch!BlocksUnusable
  BY <1>7 DEF PatchInv, Patch!BlocksUnusable, Patch!Affords
<1>8. CASE Patch!Regenerate
  <2>1. \E content \in Contents : Patch!Write(content)
    BY <1>8 DEF Patch!Regenerate, Contents
  <2>2. queue # <<>> /\ Patch!Affords(spent)
    BY <1>8 DEF PatchInv, Patch!Regenerate
  <2>3. QED BY <1>8, <2>1, <2>2, PatchFinish DEF Patch!Regenerate
<1>9. CASE Patch!RegenerateFails
  <2>1. queue # <<>> /\ Patch!Affords(spent)
    BY <1>9 DEF PatchInv, Patch!RegenerateFails
  <2>2. QED BY <1>9, <2>1, PatchFinish DEF Patch!RegenerateFails
<1>10. CASE UNCHANGED patchState
  BY <1>10 DEF PatchInv, patchState, Patch!Affords
<1>11. QED
  BY <1>1, <1>2, <1>3, <1>4, <1>5, <1>6, <1>7, <1>8, <1>9, <1>10 DEF Patch!Next

\* For every list of files, budget and course of the answers: the patches are
\* the files that differ, whole, once each and within the budget (runner.ts,
\* lib/agent/patching/index.ts).
THEOREM ExactPatches == PatchSpec => []PatchesAreExact
<1>1. PatchInv => PatchesAreExact
  BY DEF PatchInv, SameStory, PatchesAreExact, Patch!PatchesAreTheDiff
<1>2. PatchInv /\ [Patch!Next]_patchState => PatchInv'
  BY PatchStep
<1>3. QED BY <1>1, <1>2, PatchInit, PTL DEF PatchSpec

-----------------------------------------------------------------------------
(* McpServer: answers of several queries *)

ScanRecord == [status : {"queued", "running", "completed", "failed"}, issues : Nat]
CallStatus == {"none", "listed", "not found", "queued", "running", "completed", "failed"}
McpCall == [tool : Mcp!ReadTools \cup Mcp!ActionTools \cup {"none"},
            step : {"none", "handler", "answered", "error"},
            scan : Nat, filter : Mcp!Filters, rows : SUBSET Nat, known : SUBSET Nat,
            total : Nat \cup {Mcp!Unread},
            status : CallStatus, issues : Nat \cup {Mcp!Unread}]

\* A scan is completed when its issues are stored.
ScansWhole(w) ==
    /\ w \in Seq(ScanRecord)
    /\ \A i \in 1..Len(w) : w[i].status = "completed" => w[i].issues = Issues

\* A call of scan.get reads the row before the issues; what it has read of a
\* completed scan stays true.
GetWhole(k, w) == k.tool = "mendel.scan.get" =>
    /\ k.status # "listed"
    /\ k.status = "none" => k.issues = Mcp!Unread
    /\ k.status = "completed" =>
         /\ k.scan \in 1..Len(w) /\ w[k.scan].status = "completed"
         /\ k.issues \in {Mcp!Unread, Issues}
    /\ k.step = "answered" => k.status # "none"
    /\ k.step = "answered" /\ k.status = "completed" => k.issues = Issues

\* A row that matched has the status asked for, or has left it for good; the
\* rows that were known and still match.
FitsIn(w, i, f) == f = "any" \/ w[i].status = f

LeftIn(w, i, f) == \/ f = "queued" /\ w[i].status # "queued"
                   \/ f = "running" /\ w[i].status \in {"completed", "failed"}

KeptIn(k, w) == {i \in k.known : FitsIn(w, i, k.filter)}

\* A call of scan.list finds at least these.
ListWhole(k, w) == k.tool = "mendel.scan.list" =>
    /\ k.known \subseteq 1..Len(w)
    /\ \A i \in k.known : FitsIn(w, i, k.filter) \/ LeftIn(w, i, k.filter)
    /\ k.status = "listed" => (Cardinality(k.rows) < PageSize => KeptIn(k, w) \subseteq k.rows)
    /\ k.total # Mcp!Unread => k.total >= Cardinality(KeptIn(k, w))
    /\ k.step = "answered" => k.status = "listed" /\ k.total # Mcp!Unread

StartWhole(k, w) == k.tool = "mendel.scan.start" =>
    /\ k.status = "none"
    /\ k.step = "answered" => k.scan \in 1..Len(w)

CallWhole(k, w) == k \in McpCall /\ GetWhole(k, w) /\ ListWhole(k, w) /\ StartWhole(k, w)

McpInv ==
    /\ ScansWhole(scans)
    /\ calls \in [Calls -> McpCall]
    /\ \A c \in Calls : CallWhole(calls[c], scans)

LEMMA McpConstants == PageSize \in Nat \ {0} /\ MaxScans \in Nat /\ Issues \in Nat
BY PartsAssumption DEF Mcp!McpAssumption

LEMMA McpFilters == Asked \cup {"any"} \subseteq Mcp!Filters
BY PartsAssumption DEF Mcp!McpAssumption, Mcp!Filters

LEMMA McpCardinality == \A S : Mcp!Cardinality(S) = Cardinality(S)
BY DEF Mcp!Cardinality, Cardinality

\* Sets of rows are finite.
LEMMA RowSets ==
  ASSUME NEW n \in Nat, NEW S, S \subseteq 1..n, NEW T, T \subseteq S
  PROVE  /\ Cardinality(S) \in Nat /\ Cardinality(T) \in Nat
         /\ Cardinality(T) <= Cardinality(S)
<1>1. IsFiniteSet(1..n)
  BY FS_Interval
<1>2. IsFiniteSet(S)
  BY <1>1, FS_Subset
<1>3. IsFiniteSet(T) /\ Cardinality(T) <= Cardinality(S)
  BY <1>2, FS_Subset
<1>4. QED BY <1>2, <1>3, FS_CardinalityType

\* The way of a status.
Goes(a, b) == \/ b = a
              \/ a = "queued" /\ b \in {"running", "failed"}
              \/ a = "running" /\ b \in {"completed", "failed"}

\* What a call has read stays true while scans are added and go on.
LEMMA CallKept ==
  ASSUME NEW k, NEW w \in Seq(ScanRecord), NEW v \in Seq(ScanRecord), CallWhole(k, w),
         Len(w) <= Len(v),
         \A i \in 1..Len(w) : Goes(w[i].status, v[i].status)
  PROVE  CallWhole(k, v)
<1>1. \A i \in 1..Len(w) : i \in 1..Len(v)
  OBVIOUS
<1>2. GetWhole(k, v)
  BY <1>1 DEF CallWhole, GetWhole, Goes
<1>3. ListWhole(k, v)
  <2>1. SUFFICES ASSUME k.tool = "mendel.scan.list" PROVE ListWhole(k, v)
    BY DEF ListWhole
  <2>2. /\ k.known \subseteq 1..Len(w) /\ k.filter \in Mcp!Filters
        /\ \A i \in k.known : FitsIn(w, i, k.filter) \/ LeftIn(w, i, k.filter)
        /\ k.total \in Nat \cup {Mcp!Unread}
    BY <2>1 DEF CallWhole, ListWhole, McpCall
  <2>3. ASSUME NEW i \in k.known
        PROVE  /\ FitsIn(v, i, k.filter) \/ LeftIn(v, i, k.filter)
               /\ FitsIn(v, i, k.filter) => FitsIn(w, i, k.filter)
    <3>1. Goes(w[i].status, v[i].status)
      BY <2>2
    <3>2. QED BY <2>2, <3>1 DEF Goes, FitsIn, LeftIn, Mcp!Filters, Mcp!Statuses
  <2>4. KeptIn(k, v) \subseteq KeptIn(k, w) /\ KeptIn(k, w) \subseteq 1..Len(w)
    BY <2>2, <2>3 DEF KeptIn
  <2>5. /\ Cardinality(KeptIn(k, v)) \in Nat /\ Cardinality(KeptIn(k, w)) \in Nat
        /\ Cardinality(KeptIn(k, v)) <= Cardinality(KeptIn(k, w))
    BY <2>4, RowSets
  <2>6. k.total # Mcp!Unread => k.total >= Cardinality(KeptIn(k, v))
    BY <2>1, <2>2, <2>5 DEF CallWhole, ListWhole
  <2>7. k.known \subseteq 1..Len(v)
    BY <1>1, <2>2
  <2>8. QED BY <2>1, <2>3, <2>4, <2>6, <2>7 DEF CallWhole, ListWhole
<1>4. StartWhole(k, v)
  BY <1>1 DEF CallWhole, StartWhole
<1>5. QED BY <1>2, <1>3, <1>4 DEF CallWhole

LEMMA IdleWhole ==
  ASSUME NEW w \in Seq(ScanRecord), NEW s \in {"none", "error"}
  PROVE  CallWhole([Mcp!Idle EXCEPT !.step = s], w)
BY DEF CallWhole, GetWhole, ListWhole, StartWhole, Mcp!Idle, McpCall, CallStatus,
       Mcp!Filters, Mcp!Statuses

LEMMA McpInit == Mcp!McpInit => McpInv
<1> SUFFICES ASSUME Mcp!McpInit PROVE McpInv
  OBVIOUS
<1>1. ScansWhole(scans) /\ scans \in Seq(ScanRecord)
  BY DEF Mcp!McpInit, ScansWhole
<1>2. CallWhole(Mcp!Idle, scans)
  BY <1>1 DEF CallWhole, GetWhole, ListWhole, StartWhole, Mcp!Idle, McpCall, CallStatus,
     Mcp!Filters, Mcp!Statuses
<1>3. QED BY <1>1, <1>2 DEF Mcp!McpInit, McpInv, CallWhole

\* A step of a call alone: only what it becomes has to be looked at.
LEMMA OneCall ==
  ASSUME McpInv, NEW c \in Calls, NEW k, calls' = [calls EXCEPT ![c] = k], UNCHANGED scans,
         CallWhole(k, scans)
  PROVE  McpInv'
<1>1. k \in McpCall
  BY DEF CallWhole
<1>2. calls' \in [Calls -> McpCall]
  BY <1>1 DEF McpInv
<1>3. \A d \in Calls : CallWhole(calls'[d], scans)
  BY DEF McpInv
<1>4. QED BY <1>2, <1>3 DEF McpInv

\* A step of the scans: they may grow, and each goes its way.
LEMMA ScansGo ==
  ASSUME McpInv, NEW v, ScansWhole(v), Len(scans) <= Len(v),
         \A i \in 1..Len(scans) : Goes(scans[i].status, v[i].status)
  PROVE  \A c \in Calls : CallWhole(calls[c], v)
<1>1. v \in Seq(ScanRecord) /\ scans \in Seq(ScanRecord)
  BY DEF ScansWhole, McpInv
<1>2. QED BY <1>1, CallKept DEF McpInv

LEMMA CallStep ==
  ASSUME McpInv, NEW c \in Calls,
         \/ Mcp!Invoke(c) \/ Mcp!Throws(c) \/ Mcp!Simple(c) \/ Mcp!ListRows(c)
         \/ Mcp!ListCount(c) \/ Mcp!ListAnswer(c) \/ Mcp!GetScan(c) \/ Mcp!GetIssues(c)
         \/ Mcp!GetAnswer(c) \/ Mcp!StartScan(c) \/ Mcp!Done(c)
  PROVE  McpInv'
<1> DEFINE k == calls[c]
<1>0. /\ k \in McpCall /\ CallWhole(k, scans)
      /\ ScansWhole(scans) /\ scans \in Seq(ScanRecord) /\ Len(scans) \in Nat
      /\ calls \in [Calls -> McpCall]
  BY DEF McpInv, ScansWhole
<1> USE DEF CallWhole
<1> HIDE DEF k
<1>1. CASE Mcp!Invoke(c)
  <2>1. ASSUME NEW tool \in Mcp!ReadTools \cup Mcp!ActionTools, NEW i \in 1..Len(scans) + 1,
               NEW f \in Mcp!Filters,
               calls' = [calls EXCEPT ![c] = [Mcp!Idle EXCEPT
                 !.tool = tool, !.step = "handler", !.total = Mcp!Unread, !.issues = Mcp!Unread,
                 !.scan = IF tool = "mendel.scan.get" THEN i ELSE 0,
                 !.filter = f,
                 !.known = IF tool = "mendel.scan.list" THEN Mcp!Matching(f) ELSE {}]]
        PROVE  McpInv'
    <3> DEFINE row == IF tool = "mendel.scan.get" THEN i ELSE 0
               known == IF tool = "mendel.scan.list" THEN Mcp!Matching(f) ELSE {}
               new == [Mcp!Idle EXCEPT
                 !.tool = tool, !.step = "handler", !.total = Mcp!Unread, !.issues = Mcp!Unread,
                 !.scan = row, !.filter = f, !.known = known]
    <3>0. row \in Nat /\ known \in SUBSET Nat
      BY <1>0 DEF Mcp!Matching
    <3>1. ASSUME NEW r \in Nat, NEW S \in SUBSET Nat
          PROVE  [Mcp!Idle EXCEPT
                   !.tool = tool, !.step = "handler", !.total = Mcp!Unread,
                   !.issues = Mcp!Unread, !.scan = r, !.filter = f, !.known = S] \in McpCall
      BY DEF Mcp!Idle, McpCall, CallStatus
    <3>2. /\ new.status = "none" /\ new.step = "handler" /\ new.total = Mcp!Unread
          /\ new.issues = Mcp!Unread /\ new.tool = tool /\ new.filter = f
          /\ new.tool = "mendel.scan.list" => new.known = Mcp!Matching(f)
      BY DEF Mcp!Idle
    <3>6. calls' = [calls EXCEPT ![c] = new] /\ UNCHANGED scans
      BY <1>1, <2>1 DEF Mcp!Invoke
    <3> HIDE DEF row, known
    <3>7. new \in McpCall
      BY <3>0, <3>1
    <3> HIDE DEF new
    <3>8. Mcp!Matching(f) \subseteq 1..Len(scans)
          /\ \A n \in Mcp!Matching(f) : FitsIn(scans, n, f)
      BY <1>0 DEF Mcp!Matching, Mcp!Fits, FitsIn
    <3>3. CallWhole(new, scans)
      BY <1>0, <3>2, <3>7, <3>8 DEF GetWhole, ListWhole, StartWhole
    <3>5. QED BY <3>3, <3>6, OneCall
  <2>2. ASSUME calls' = [calls EXCEPT ![c].step = "error"] PROVE McpInv'
    <3> DEFINE new == [k EXCEPT !.step = "error"]
    <3>1. new \in McpCall
      BY <1>0 DEF McpCall
    <3>2. CallWhole(new, scans)
      BY <1>0, <3>1 DEF GetWhole, ListWhole, StartWhole, McpCall, KeptIn
    <3>3. calls' = [calls EXCEPT ![c] = new] /\ UNCHANGED scans
      BY <1>1, <2>2 DEF Mcp!Invoke, k
    <3>4. QED BY <3>2, <3>3, OneCall
  <2>3. QED BY <1>1, <2>1, <2>2, McpFilters DEF Mcp!Invoke
<1>2. CASE Mcp!Throws(c)
  <2>1. CallWhole([Mcp!Idle EXCEPT !.step = "error"], scans)
    BY <1>0, IdleWhole
  <2>2. QED BY <1>2, <2>1, OneCall DEF Mcp!Throws
<1>3. CASE Mcp!Simple(c)
  <2> DEFINE new == [k EXCEPT !.step = "answered"]
  <2>1. calls' = [calls EXCEPT ![c] = new] /\ UNCHANGED scans
    BY <1>3 DEF Mcp!Simple, Mcp!Answer, k
  <2>2. k.tool \notin {"mendel.scan.get", "mendel.scan.list", "mendel.scan.start"}
    BY <1>3 DEF Mcp!Simple, Mcp!In, k
  <2>3. CallWhole(new, scans)
    BY <1>0, <2>2 DEF GetWhole, ListWhole, StartWhole, McpCall
  <2>4. QED BY <2>1, <2>3, OneCall
<1>13. /\ Mcp!Matching(k.filter) \subseteq 1..Len(scans)
       /\ k.tool = "mendel.scan.list" => KeptIn(k, scans) \subseteq Mcp!Matching(k.filter)
  BY <1>0 DEF Mcp!Matching, Mcp!Fits, FitsIn, KeptIn, ListWhole
<1>4. CASE Mcp!ListRows(c)
  <2>1. PICK shown \in SUBSET Mcp!Matching(k.filter) :
          /\ Mcp!IsPage(shown, Mcp!Matching(k.filter))
          /\ calls' = [calls EXCEPT ![c].rows = shown, ![c].status = "listed"]
    BY <1>4 DEF Mcp!ListRows, k
  <2> DEFINE new == [k EXCEPT !.rows = shown, !.status = "listed"]
  <2>9. calls' = [calls EXCEPT ![c] = new] /\ UNCHANGED scans
    BY <1>4, <2>1 DEF Mcp!ListRows, k
  <2>2. k.tool = "mendel.scan.list" /\ k.step = "handler"
    BY <1>4 DEF Mcp!ListRows, Mcp!In, k
  <2>3. shown \in SUBSET Nat
    BY <1>0, <1>13
  <2>4. new \in McpCall
    BY <1>0, <2>3 DEF McpCall, CallStatus
  <2>5. /\ new.rows = shown /\ new.status = "listed" /\ new.step = "handler"
        /\ new.known = k.known /\ new.total = k.total /\ new.tool = k.tool
        /\ new.filter = k.filter
    BY <1>0, <2>2 DEF McpCall
  <2> HIDE DEF new
  <2>6. Cardinality(shown) < PageSize => shown = Mcp!Matching(k.filter)
    BY <2>1, McpCardinality, McpConstants DEF Mcp!IsPage
  <2>10. KeptIn(new, scans) = KeptIn(k, scans)
    BY <2>5 DEF KeptIn
  <2>7. CallWhole(new, scans)
    BY <1>0, <1>13, <2>2, <2>4, <2>5, <2>6, <2>10 DEF GetWhole, ListWhole, StartWhole
  <2>8. QED BY <2>7, <2>9, OneCall
<1>5. CASE Mcp!ListCount(c)
  <2> DEFINE n == Cardinality(Mcp!Matching(k.filter))
             new == [k EXCEPT !.total = n]
  <2>1. calls' = [calls EXCEPT ![c] = new] /\ UNCHANGED scans
    BY <1>5, McpCardinality DEF Mcp!ListCount, k
  <2>2. k.tool = "mendel.scan.list" /\ k.step = "handler"
    BY <1>5 DEF Mcp!ListCount, Mcp!In, k
  <2>5. n \in Nat /\ Cardinality(KeptIn(k, scans)) <= n
    BY <1>0, <1>13, <2>2, RowSets
  <2> HIDE DEF n
  <2>6. /\ new \in McpCall /\ new.total = n /\ new.tool = k.tool /\ new.step = k.step
        /\ new.status = k.status /\ new.known = k.known /\ new.filter = k.filter
        /\ new.rows = k.rows
    BY <1>0, <2>5 DEF McpCall
  <2> HIDE DEF new
  <2>7. KeptIn(new, scans) = KeptIn(k, scans) /\ Cardinality(KeptIn(k, scans)) \in Nat
    BY <1>0, <1>13, <2>2, <2>6, RowSets DEF KeptIn
  <2>3. CallWhole(new, scans)
    BY <1>0, <2>2, <2>5, <2>6, <2>7 DEF GetWhole, ListWhole, StartWhole
  <2>4. QED BY <2>1, <2>3, OneCall
<1>6. CASE Mcp!ListAnswer(c)
  <2> DEFINE new == [k EXCEPT !.step = "answered"]
  <2>1. calls' = [calls EXCEPT ![c] = new] /\ UNCHANGED scans
    BY <1>6 DEF Mcp!ListAnswer, Mcp!Answer, k
  <2>2. k.status = "listed" /\ k.total # Mcp!Unread
    BY <1>6 DEF Mcp!ListAnswer, k
  <2>3. CallWhole(new, scans)
    BY <1>0, <2>2 DEF GetWhole, ListWhole, StartWhole, McpCall, KeptIn
  <2>4. QED BY <2>1, <2>3, OneCall
<1>7. CASE Mcp!GetScan(c)
  <2>1. k.tool = "mendel.scan.get" /\ k.step = "handler" /\ k.status = "none" /\ UNCHANGED scans
    BY <1>7 DEF Mcp!GetScan, Mcp!In, k
  <2>2. CASE k.scan \notin DOMAIN scans
    <3> DEFINE new == [[k EXCEPT !.status = "not found"] EXCEPT !.step = "answered"]
    <3>1. calls' = [calls EXCEPT ![c] = new]
      BY <1>7, <2>2 DEF Mcp!GetScan, Mcp!Answer, k
    <3>2. CallWhole(new, scans)
      BY <1>0, <2>1 DEF GetWhole, ListWhole, StartWhole, McpCall, CallStatus
    <3>3. QED BY <2>1, <3>1, <3>2, OneCall
  <2>3. CASE k.scan \in DOMAIN scans
    <3> DEFINE new == [k EXCEPT !.status = scans[k.scan].status]
    <3>1. calls' = [calls EXCEPT ![c] = new]
      BY <1>7, <2>3 DEF Mcp!GetScan, k
    <3>2. k.scan \in 1..Len(scans)
          /\ scans[k.scan].status \in {"queued", "running", "completed", "failed"}
      <4>1. k.scan \in 1..Len(scans) /\ scans[k.scan] \in ScanRecord
        BY <1>0, <2>3
      <4>2. QED BY <4>1 DEF ScanRecord
    <3>3. CallWhole(new, scans)
      BY <1>0, <2>1, <3>2 DEF GetWhole, ListWhole, StartWhole, McpCall, CallStatus
    <3>4. QED BY <2>1, <3>1, <3>3, OneCall
  <2>4. QED BY <2>2, <2>3
<1>8. CASE Mcp!GetIssues(c)
  <2> DEFINE new == [k EXCEPT !.issues = scans[k.scan].issues]
  <2>1. calls' = [calls EXCEPT ![c] = new] /\ UNCHANGED scans
    BY <1>8 DEF Mcp!GetIssues, k
  <2>2. /\ k.tool = "mendel.scan.get" /\ k.step = "handler" /\ k.status # "none"
        /\ k.scan \in 1..Len(scans)
    BY <1>0, <1>8 DEF Mcp!GetIssues, Mcp!In, Mcp!Ready, k
  <2>3. scans[k.scan].issues \in Nat
        /\ (k.status = "completed" => scans[k.scan].issues = Issues)
    <3>1. scans[k.scan] \in ScanRecord
      BY <1>0, <2>2
    <3>2. k.status = "completed" => scans[k.scan].status = "completed"
      BY <1>0, <2>2 DEF GetWhole
    <3>3. QED BY <1>0, <2>2, <3>1, <3>2 DEF ScansWhole, ScanRecord
  <2>4. CallWhole(new, scans)
    BY <1>0, <2>2, <2>3 DEF GetWhole, ListWhole, StartWhole, McpCall
  <2>5. QED BY <2>1, <2>4, OneCall
<1>9. CASE Mcp!GetAnswer(c)
  <2> DEFINE new == [k EXCEPT !.step = "answered"]
  <2>1. calls' = [calls EXCEPT ![c] = new] /\ UNCHANGED scans
    BY <1>9 DEF Mcp!GetAnswer, Mcp!Answer, k
  <2>2. k.tool = "mendel.scan.get" /\ k.status # "none" /\ k.issues # Mcp!Unread
    BY <1>9 DEF Mcp!GetAnswer, Mcp!In, k
  <2>3. CallWhole(new, scans)
    BY <1>0, <2>2 DEF GetWhole, ListWhole, StartWhole, McpCall
  <2>4. QED BY <2>1, <2>3, OneCall
<1>10. CASE Mcp!StartScan(c)
  <2> DEFINE new == [[k EXCEPT !.scan = Len(scans) + 1] EXCEPT !.step = "answered"]
             more == Append(scans, [status |-> "queued", issues |-> 0])
  <2>1. calls' = [calls EXCEPT ![c] = new] /\ scans' = more /\ k.tool = "mendel.scan.start"
    BY <1>10 DEF Mcp!StartScan, Mcp!Answer, Mcp!In, k
  <2>2. /\ more \in Seq(ScanRecord) /\ Len(more) = Len(scans) + 1
        /\ \A i \in 1..Len(scans) : more[i] = scans[i]
        /\ more[Len(scans) + 1] = [status |-> "queued", issues |-> 0]
    BY <1>0 DEF ScanRecord
  <2> HIDE DEF more
  <2>3. ScansWhole(more)
    <3>1. \A i \in 1..Len(more) : i \in 1..Len(scans) \/ i = Len(scans) + 1
      BY <1>0, <2>2
    <3>2. QED BY <1>0, <2>2, <3>1 DEF ScansWhole
  <2>4. \A d \in Calls : CallWhole(calls[d], more)
    BY <1>0, <2>2, <2>3, ScansGo DEF Goes
  <2>5. CallWhole(new, more)
    <3> DEFINE mid == [k EXCEPT !.scan = Len(scans) + 1]
    <3>0. mid \in McpCall /\ mid.scan = Len(scans) + 1 /\ mid.tool = k.tool
          /\ mid.status = k.status
      <4>1. ASSUME NEW n \in Nat
            PROVE  /\ [k EXCEPT !.scan = n] \in McpCall
                   /\ [k EXCEPT !.scan = n].scan = n /\ [k EXCEPT !.scan = n].tool = k.tool
                   /\ [k EXCEPT !.scan = n].status = k.status
        BY <1>0 DEF McpCall
      <4>2. Len(scans) + 1 \in Nat
        BY <1>0
      <4>3. QED BY <4>1, <4>2
    <3> HIDE DEF mid
    <3>1. new \in McpCall /\ new.scan = Len(scans) + 1
          /\ new.tool = "mendel.scan.start" /\ new.status = k.status
      <4>1. new = [mid EXCEPT !.step = "answered"]
        BY DEF mid
      <4> HIDE DEF new
      <4>2. QED BY <2>1, <3>0, <4>1 DEF McpCall
    <3>2. Len(scans) + 1 \in 1..Len(more)
      BY <1>0, <2>2
    <3> HIDE DEF new
    <3>3. QED BY <1>0, <2>1, <3>1, <3>2 DEF GetWhole, ListWhole, StartWhole
  <2> HIDE DEF new
  <2>6. \A d \in Calls : CallWhole(calls'[d], more)
    BY <1>0, <2>1, <2>4, <2>5
  <2>7. calls' \in [Calls -> McpCall]
    BY <1>0, <2>1, <2>5
  <2>8. QED BY <2>1, <2>3, <2>6, <2>7 DEF McpInv
<1>11. CASE Mcp!Done(c)
  <2>1. CallWhole(Mcp!Idle, scans)
    BY <1>0 DEF GetWhole, ListWhole, StartWhole, Mcp!Idle, McpCall, CallStatus,
       Mcp!Filters, Mcp!Statuses
  <2>2. QED BY <1>11, <2>1, OneCall DEF Mcp!Done
<1>12. QED
  BY <1>1, <1>2, <1>3, <1>4, <1>5, <1>6, <1>7, <1>8, <1>9, <1>10, <1>11

LEMMA ScanStep ==
  ASSUME McpInv, NEW i \in DOMAIN scans, Mcp!Run(i), UNCHANGED calls
  PROVE  McpInv'
<1>1. /\ scans \in Seq(ScanRecord) /\ i \in 1..Len(scans) /\ scans[i] \in ScanRecord
      /\ ScansWhole(scans) /\ calls \in [Calls -> McpCall]
  BY DEF McpInv, ScansWhole
<1>2. PICK row \in ScanRecord :
        /\ scans' = [scans EXCEPT ![i] = row]
        /\ row.status = "completed" => row.issues = Issues
        /\ Goes(scans[i].status, row.status)
  <2>1. ASSUME NEW row \in ScanRecord, scans' = [scans EXCEPT ![i] = row],
               row.status = "completed" => row.issues = Issues,
               Goes(scans[i].status, row.status)
        PROVE  \E r \in ScanRecord : /\ scans' = [scans EXCEPT ![i] = r]
                                     /\ r.status = "completed" => r.issues = Issues
                                     /\ Goes(scans[i].status, r.status)
    BY <2>1
  <2>2. \/ scans' = [scans EXCEPT ![i] = [scans[i] EXCEPT !.status = "running"]]
             /\ scans[i].status = "queued"
        \/ scans' = [scans EXCEPT ![i] = [scans[i] EXCEPT !.issues = scans[i].issues + 1]]
             /\ scans[i].status = "running"
        \/ scans' = [scans EXCEPT ![i] = [scans[i] EXCEPT !.status = "completed"]]
             /\ scans[i].issues = Issues /\ scans[i].status = "running"
        \/ scans' = [scans EXCEPT ![i] = [scans[i] EXCEPT !.status = "failed"]]
             /\ scans[i].status \in {"queued", "running"}
    BY DEF Mcp!Run
  <2>3. /\ [scans[i] EXCEPT !.status = "running"] \in ScanRecord
        /\ [scans[i] EXCEPT !.issues = scans[i].issues + 1] \in ScanRecord
        /\ [scans[i] EXCEPT !.status = "completed"] \in ScanRecord
        /\ [scans[i] EXCEPT !.status = "failed"] \in ScanRecord
    BY <1>1 DEF ScanRecord
  <2>4. /\ [scans[i] EXCEPT !.status = "running"].status = "running"
        /\ [scans[i] EXCEPT !.issues = scans[i].issues + 1].status = scans[i].status
        /\ [scans[i] EXCEPT !.status = "completed"].issues = scans[i].issues
        /\ [scans[i] EXCEPT !.status = "completed"].status = "completed"
        /\ [scans[i] EXCEPT !.status = "failed"].status = "failed"
    BY <1>1 DEF ScanRecord
  <2>5. QED BY <2>1, <2>2, <2>3, <2>4 DEF Goes
<1>4. /\ scans' \in Seq(ScanRecord) /\ Len(scans') = Len(scans)
      /\ \A j \in 1..Len(scans) : scans'[j] = IF j = i THEN row ELSE scans[j]
  BY <1>1, <1>2
<1>5. ScansWhole(scans')
  BY <1>1, <1>2, <1>4 DEF ScansWhole
<1>6. \A c \in Calls : CallWhole(calls[c], scans')
  <2>1. \A j \in 1..Len(scans) : Goes(scans[j].status, scans'[j].status)
    BY <1>1, <1>2, <1>4 DEF Goes
  <2>2. QED BY <1>1, <1>4, <1>5, <2>1, ScansGo
<1>7. QED BY <1>1, <1>5, <1>6 DEF McpInv

\* However several calls and the scans they started interleave, an answer is
\* whole although its queries are no snapshot: for every number of calls, page
\* size and number of issues (lib/mcp/tools.ts).
THEOREM WholeAnswers == McpSpec => []AnswersAreWhole
<1>1. ASSUME McpInv PROVE AnswersAreWhole
  <2>1. \A k : Mcp!Kept(k) = KeptIn(k, scans)
    BY DEF Mcp!Kept, Mcp!Fits, KeptIn, FitsIn
  <2>2. SUFFICES ASSUME NEW c \in Calls, calls[c].step = "answered"
        PROVE  /\ calls[c].tool = "mendel.scan.get" /\ calls[c].status = "completed"
                    => calls[c].issues = Issues
               /\ calls[c].tool = "mendel.scan.list" =>
                    /\ Mcp!Cardinality(calls[c].rows) < PageSize
                         => Mcp!Kept(calls[c]) \subseteq calls[c].rows
                    /\ calls[c].total >= Mcp!Cardinality(Mcp!Kept(calls[c]))
               /\ calls[c].tool = "mendel.scan.start" => calls[c].scan \in DOMAIN scans
    BY DEF AnswersAreWhole, Mcp!AnswersAreWhole
  <2>3. CallWhole(calls[c], scans) /\ scans \in Seq(ScanRecord)
    BY <1>1 DEF McpInv, ScansWhole
  <2>4. calls[c].tool = "mendel.scan.get" /\ calls[c].status = "completed"
          => calls[c].issues = Issues
    BY <2>2, <2>3 DEF CallWhole, GetWhole
  <2>5. calls[c].tool = "mendel.scan.list" =>
          /\ Mcp!Cardinality(calls[c].rows) < PageSize
               => Mcp!Kept(calls[c]) \subseteq calls[c].rows
          /\ calls[c].total >= Mcp!Cardinality(Mcp!Kept(calls[c]))
    BY <2>1, <2>2, <2>3, McpCardinality DEF CallWhole, ListWhole
  <2>6. calls[c].tool = "mendel.scan.start" => calls[c].scan \in DOMAIN scans
    BY <2>2, <2>3 DEF CallWhole, StartWhole
  <2>7. QED BY <2>4, <2>5, <2>6
<1>2. ASSUME McpInv, [Mcp!McpNext]_mcpState PROVE McpInv'
  <2>1. CASE UNCHANGED mcpState
    BY <1>2, <2>1 DEF McpInv, mcpState
  <2>2. CASE Mcp!McpNext
    BY <1>2, <2>2, CallStep, ScanStep DEF Mcp!McpNext
  <2>3. QED BY <1>2, <2>1, <2>2
<1>3. QED BY <1>1, <1>2, McpInit, PTL DEF McpSpec

-----------------------------------------------------------------------------
(* Verdicts: what is decided on evidence *)

\* The least of a set of numbers, as Min chooses it.
Least(S) == CHOOSE x \in S : \A y \in S : x =< y

LEMMA LeastIndex ==
  ASSUME NEW S \in SUBSET Nat, S # {}
  PROVE  Least(S) \in S /\ \A y \in S : Least(S) <= y
<1>1. \E x \in S : \A y \in S : <<y, x>> \notin OpToRel(<, Nat)
  BY NatLessThanWellFounded, WFMin, Zenon
<1>2. OpToRel(<, Nat) = {p \in Nat \X Nat : p[1] < p[2]}
  BY Zenon DEF OpToRel
<1>3. \A x, y \in S : <<y, x>> \notin {p \in Nat \X Nat : p[1] < p[2]} => x <= y
  OBVIOUS
<1>4. \E x \in S : \A y \in S : x <= y
  BY <1>1, <1>2, <1>3, Zenon
<1> QED  BY <1>4, Zenon DEF Least

\* The first index of a set of indices, 0 where there is none: what
\* SelectInSeq returns.
First(I) == IF I # {} THEN Least(I) ELSE 0

LEMMA FirstIndex ==
  ASSUME NEW n \in Nat, NEW I \in SUBSET (1..n)
  PROVE  /\ First(I) \in 0..n
         /\ First(I) = 0 <=> I = {}
         /\ First(I) # 0 => First(I) \in I /\ \A j \in 1..(First(I) - 1) : j \notin I
<1>1. CASE I = {}
  BY <1>1 DEF First
<1>2. CASE I # {}
  <2>1. Least(I) \in I /\ \A y \in I : Least(I) <= y
    BY <1>2, LeastIndex
  <2>2. First(I) = Least(I)
    BY <1>2 DEF First
  <2>3. First(I) \in 1..n /\ First(I) \in I /\ \A y \in I : First(I) <= y
    BY <2>1, <2>2
  <2>4. \A j \in 1..(First(I) - 1) : j \notin I
    <3> DEFINE m == First(I)
    <3>1. m \in 1..n /\ \A y \in I : m <= y
      BY <2>3
    <3> HIDE DEF m
    <3>2. \A j \in 1..(m - 1) : j \notin I
      BY <3>1
    <3> QED  BY <3>2 DEF m
  <2> QED  BY <1>2, <2>3, <2>4
<1> QED  BY <1>1, <1>2

\* The first candidate on disk.
LEMMA FirstIsOnDisk ==
  ASSUME NEW s \in Seq(Judge!Gov!Entries)
  PROVE  Judge!Gov!FirstOnDisk(s) = First({i \in 1..Len(s) : s[i] # "absent"})
BY Zenon DEF Judge!Gov!FirstOnDisk, Judge!Gov!SelectInSeq, Judge!Gov!Min, First, Least

\* The first candidate GitHub finds, or fails to read.
Got(repo, family, down) ==
    [i \in DOMAIN repo[family] |-> Judge!Gov!TryFetchFile(family, i, repo[family][i], down)]

LEMMA FirstIsFetched ==
  ASSUME NEW repo \in Judge!GovRepo, NEW family \in Judge!Gov!Families, NEW down
  PROVE  Judge!Gov!FirstExisting(repo, family, down)
           = IF First({i \in 1..Len(Got(repo, family, down)) : Got(repo, family, down)[i] # "none"}) = 0
             THEN "none"
             ELSE Got(repo, family, down)[First({i \in 1..Len(Got(repo, family, down)) :
                                                   Got(repo, family, down)[i] # "none"})]
BY Zenon DEF Judge!Gov!FirstExisting, Judge!Gov!SelectInSeq, Judge!Gov!Min, First, Least, Got, Judge!Gov!None

\* What GitHub answers is what stands on the disk, unless a read fails on the
\* way to it.
LEMMA FetchedIsOnDisk ==
  ASSUME NEW repo \in Judge!GovRepo, NEW family \in Judge!Gov!Families, NEW down,
         "directory" \notin Judge!Gov!Range(repo[family])
  PROVE  /\ Judge!Gov!FirstOnDisk(repo[family]) # 0 =>
              repo[family][Judge!Gov!FirstOnDisk(repo[family])] \in {"clean", "flagged"}
         /\ \/ Judge!Gov!FirstExisting(repo, family, down) = "throws"
            \/ Judge!Gov!FirstExisting(repo, family, down)
                 = IF Judge!Gov!FirstOnDisk(repo[family]) = 0 THEN "none"
                   ELSE repo[family][Judge!Gov!FirstOnDisk(repo[family])]
<1> DEFINE s == repo[family]
           got == Got(repo, family, down)
           I == {i \in 1..Len(s) : s[i] # "absent"}
           J == {i \in 1..Len(got) : got[i] # "none"}
<1>1. s \in Seq(Judge!Gov!Entries)
  BY DEF Judge!GovRepo, Judge!Gov!Families
<1>2. Len(s) \in Nat /\ DOMAIN s = 1..Len(s) /\ \A i \in 1..Len(s) : s[i] \in {"absent", "clean", "flagged"}
  BY <1>1 DEF Judge!Gov!Range, Judge!Gov!Entries
<1>3. /\ Len(got) = Len(s)
      /\ \A i \in 1..Len(s) : \/ got[i] = "throws"
                              \/ got[i] = IF s[i] = "absent" THEN "none" ELSE s[i]
  <2>1. got = [i \in 1..Len(s) |-> Judge!Gov!TryFetchFile(family, i, s[i], down)]
    BY <1>2 DEF Got
  <2>2. ASSUME NEW i \in 1..Len(s)
        PROVE  \/ Judge!Gov!TryFetchFile(family, i, s[i], down) = "throws"
               \/ Judge!Gov!TryFetchFile(family, i, s[i], down) = IF s[i] = "absent" THEN "none" ELSE s[i]
    <3>1. CASE <<family, i>> \in down
      BY <3>1, Zenon DEF Judge!Gov!TryFetchFile
    <3>2. CASE <<family, i>> \notin down /\ s[i] = "absent"
      BY <3>2 DEF Judge!Gov!TryFetchFile, Judge!Gov!None
    <3>3. CASE <<family, i>> \notin down /\ s[i] \in {"clean", "flagged"}
      BY <3>3 DEF Judge!Gov!TryFetchFile
    <3> QED  BY <1>2, <3>1, <3>2, <3>3
  <2>3. Len(got) = Len(s)
    BY <1>2, <2>1
  <2> QED  BY <2>1, <2>2, <2>3
<1>4. Judge!Gov!FirstOnDisk(s) = First(I)
  BY <1>1, FirstIsOnDisk
<1>5. Judge!Gov!FirstExisting(repo, family, down) = IF First(J) = 0 THEN "none" ELSE got[First(J)]
  BY FirstIsFetched, Zenon
<1>6. /\ First(I) \in 0..Len(s)
      /\ First(I) = 0 <=> I = {}
      /\ First(I) # 0 => First(I) \in I /\ \A j \in 1..(First(I) - 1) : j \notin I
  <2>1. I \in SUBSET (1..Len(s)) /\ Len(s) \in Nat
    BY <1>2
  <2> HIDE DEF I
  <2> QED  BY <2>1, FirstIndex
<1>7. /\ First(J) \in 0..Len(s)
      /\ First(J) = 0 <=> J = {}
      /\ First(J) # 0 => First(J) \in J /\ \A j \in 1..(First(J) - 1) : j \notin J
  <2>1. J \in SUBSET (1..Len(s)) /\ Len(s) \in Nat
    BY <1>2, <1>3
  <2> HIDE DEF J
  <2> QED  BY <2>1, FirstIndex
<1>8. I \subseteq J
  BY <1>2, <1>3
<1>9. \A j \in J \ I : got[j] = "throws"
  BY <1>2, <1>3
<1>10. First(J) # 0 /\ First(J) \in I => First(I) = First(J)
  <2> DEFINE m == First(I)
             n == First(J)
  <2>1. \A i \in I : i \in J
    BY <1>8
  <2>2. /\ m \in Nat /\ n \in Nat
        /\ m # 0 => m \in I /\ m \in J /\ \A j \in 1..(m - 1) : j \notin I
        /\ m = 0 => I = {}
        /\ n # 0 => \A j \in 1..(n - 1) : j \notin J
    <3> HIDE DEF I, J
    <3> QED  BY <1>6, <1>7, <2>1
  <2> HIDE DEF m, n, I, J
  <2>3. n # 0 /\ n \in I => m = n
    BY <2>1, <2>2
  <2> QED  BY <2>3 DEF m, n
<1>11. First(I) # 0 => s[First(I)] \in {"clean", "flagged"}
  BY <1>2, <1>6
<1>12. CASE First(J) = 0
  BY <1>4, <1>5, <1>6, <1>7, <1>8, <1>11, <1>12
<1>13. CASE First(J) # 0 /\ First(J) \in I
  <2>1. got[First(J)] = "throws" \/ got[First(J)] = s[First(J)]
    BY <1>2, <1>3, <1>13
  <2> QED  BY <1>4, <1>5, <1>10, <1>11, <1>13, <2>1
<1>14. CASE First(J) # 0 /\ First(J) \notin I
  BY <1>4, <1>5, <1>7, <1>9, <1>11, <1>14
<1> QED  BY <1>12, <1>13, <1>14

\* The issue a preview shows is no pull request.
LEMMA LinkableIsIssue ==
  ASSUME NEW issues \in Seq(Judge!Issue), Judge!Gov!PickLinkableIssue(issues) # <<>>
  PROVE  ~Judge!Gov!PickLinkableIssue(issues)[1].pull
<1> DEFINE I == {i \in 1..Len(issues) : ~issues[i].pull /\ (issues[i].label \in {"dependency", "upgrade"} \/ issues[i].ask)}
<1>1. Judge!Gov!PickLinkableIssue(issues) = IF First(I) = 0 THEN <<>> ELSE <<issues[First(I)]>>
  BY Zenon DEF Judge!Gov!PickLinkableIssue, Judge!Gov!SelectInSeq, Judge!Gov!Min, First, Least
<1>2. First(I) # 0 => First(I) \in I
  <2>1. I \in SUBSET (1..Len(issues)) /\ Len(issues) \in Nat
    OBVIOUS
  <2> HIDE DEF I
  <2> QED  BY <2>1, FirstIndex
<1>3. First(I) \in I /\ Judge!Gov!PickLinkableIssue(issues) = <<issues[First(I)]>>
  BY <1>1, <1>2
<1> QED  BY <1>3

\* The decision of the gate, from what the first candidates are.
GateFlag(repo) ==
    /\ Judge!Gov!FirstOnDisk(repo.contributing) # 0
    /\ repo.contributing[Judge!Gov!FirstOnDisk(repo.contributing)] = "flagged"
GateAutomation(repo) ==
    CASE Judge!Gov!FirstOnDisk(repo.dependabot) # 0 -> "dependabot"
      [] Judge!Gov!FirstOnDisk(repo.dependabot) = 0 /\ Judge!Gov!FirstOnDisk(repo.renovate) # 0 -> "renovate"
      [] OTHER -> "none"

LEMMA GateDecides ==
  ASSUME NEW repo \in Judge!GovRepo, NEW yes \in BOOLEAN
  PROVE  Judge!Gov!AssessContributionEligibility(repo, yes)
           = Judge!Gov!DecideEligibility(repo.push, GateAutomation(repo), GateFlag(repo), yes)
<1>1. GateAutomation(repo)
        = IF Judge!Gov!FirstOnDisk(repo.dependabot) # 0 THEN "dependabot"
          ELSE IF Judge!Gov!FirstOnDisk(repo.renovate) # 0 THEN "renovate" ELSE "none"
  BY DEF GateAutomation
<1> QED  BY <1>1, Zenon DEF Judge!Gov!AssessContributionEligibility, GateFlag,
            Judge!Gov!FindContributingRedFlag, Judge!Gov!None

\* A read that does not fail tells what the gate will see, a failed one is
\* taken for nothing.
LEMMA ReadsTellTheGate ==
  ASSUME NEW repo \in Judge!GovRepo, NEW down,
         \A f \in Judge!Gov!Families : "directory" \notin Judge!Gov!Range(repo[f])
  PROVE  /\ \/ Judge!Gov!DepAutomation(repo, down) = "throws"
            \/ Judge!Gov!DepAutomation(repo, down) = GateAutomation(repo)
         /\ \/ Judge!Gov!FirstExisting(repo, "contributing", down) = "throws"
            \/ (Judge!Gov!FirstExisting(repo, "contributing", down) = "flagged") = GateFlag(repo)
         /\ GateAutomation(repo) # "throws"
<1> DEFINE D == Judge!Gov!FirstExisting(repo, "dependabot", down)
           R == Judge!Gov!FirstExisting(repo, "renovate", down)
           C == Judge!Gov!FirstExisting(repo, "contributing", down)
           d == Judge!Gov!FirstOnDisk(repo.dependabot)
           r == Judge!Gov!FirstOnDisk(repo.renovate)
           c == Judge!Gov!FirstOnDisk(repo.contributing)
<1>1. /\ repo["dependabot"] = repo.dependabot /\ repo["renovate"] = repo.renovate
      /\ repo["contributing"] = repo.contributing
  OBVIOUS
<1>2. {"dependabot", "renovate", "contributing"} \subseteq Judge!Gov!Families
  BY DEF Judge!Gov!Families
<1>3. /\ d # 0 => repo.dependabot[d] \in {"clean", "flagged"}
      /\ D = "throws" \/ D = IF d = 0 THEN "none" ELSE repo.dependabot[d]
  BY <1>1, <1>2, FetchedIsOnDisk, Zenon
<1>4. /\ r # 0 => repo.renovate[r] \in {"clean", "flagged"}
      /\ R = "throws" \/ R = IF r = 0 THEN "none" ELSE repo.renovate[r]
  BY <1>1, <1>2, FetchedIsOnDisk, Zenon
<1>5. /\ c # 0 => repo.contributing[c] \in {"clean", "flagged"}
      /\ C = "throws" \/ C = IF c = 0 THEN "none" ELSE repo.contributing[c]
  BY <1>1, <1>2, FetchedIsOnDisk, Zenon
<1>6. Judge!Gov!DepAutomation(repo, down)
        = CASE D = "throws" -> "throws"
            [] D \notin {"none", "throws"} -> "dependabot"
            [] D = "none" /\ R = "throws" -> "throws"
            [] D = "none" /\ R \notin {"none", "throws"} -> "renovate"
            [] OTHER -> "none"
  BY Zenon DEF Judge!Gov!DepAutomation, Judge!Gov!None
<1>7. GateAutomation(repo) = CASE d # 0 -> "dependabot"
                               [] d = 0 /\ r # 0 -> "renovate"
                               [] OTHER -> "none"
  BY Zenon DEF GateAutomation
<1>8. GateFlag(repo) = (c # 0 /\ repo.contributing[c] = "flagged")
  BY Zenon DEF GateFlag
<1> HIDE DEF D, R, C, d, r, c
<1>9. GateAutomation(repo) # "throws"
  BY <1>7
<1>10. \/ Judge!Gov!DepAutomation(repo, down) = "throws"
       \/ Judge!Gov!DepAutomation(repo, down) = GateAutomation(repo)
  BY <1>3, <1>4, <1>6, <1>7
<1>11. C = "throws" \/ (C = "flagged") = GateFlag(repo)
  BY <1>5, <1>8
<1> QED  BY <1>9, <1>10, <1>11 DEF C

\* The three decisions.
LEMMA Decisions ==
  ASSUME NEW owns \in BOOLEAN, NEW automation, NEW flag \in BOOLEAN, NEW yes \in BOOLEAN
  PROVE  /\ Judge!Gov!DecideEligibility(owns, automation, flag, yes).canOpenPRs \in BOOLEAN
         /\ owns => /\ Judge!Gov!DecideEligibility(owns, automation, flag, yes).decision = "owned"
                    /\ Judge!Gov!DecideEligibility(owns, automation, flag, yes).canOpenPRs
         /\ ~owns /\ (automation # "none" \/ flag) =>
              /\ Judge!Gov!DecideEligibility(owns, automation, flag, yes).decision = "blocked"
              /\ ~Judge!Gov!DecideEligibility(owns, automation, flag, yes).canOpenPRs
         /\ ~owns /\ automation = "none" /\ ~flag =>
              /\ Judge!Gov!DecideEligibility(owns, automation, flag, yes).decision = "external"
              /\ Judge!Gov!DecideEligibility(owns, automation, flag, yes).canOpenPRs <=> yes
<1>1. CASE owns
  BY <1>1 DEF Judge!Gov!DecideEligibility
<1>2. CASE ~owns /\ (automation # "none" \/ flag)
  BY <1>2 DEF Judge!Gov!DecideEligibility, Judge!Gov!None
<1>3. CASE ~owns /\ automation = "none" /\ ~flag
  BY <1>3 DEF Judge!Gov!DecideEligibility, Judge!Gov!None
<1> QED  BY <1>1, <1>2, <1>3

\* The preview of the eligibility of a repository is the decision the gate of
\* the scan takes on its clone, for every set of governance files without a
\* directory among them, or it says it is degraded; a degraded one may say
\* blocked of an owned repository only when the read of the repository failed
\* (eligibility-preview.ts, eligibility.ts).
THEOREM PreviewAgrees ==
  ASSUME NEW repo \in Judge!GovRepo, NEW issues \in Seq(Judge!Issue), NEW down
  PROVE  Judge!Gov!PreviewIsTheGate(repo, issues, down)
<1> SUFFICES ASSUME \A f \in Judge!Gov!Families : "directory" \notin Judge!Gov!Range(repo[f])
             PROVE  Judge!Gov!PreviewIsTheGate(repo, issues, down)
  BY Zenon DEF Judge!Gov!PreviewIsTheGate
<1> DEFINE owns == <<"repo", 0>> \notin down /\ repo.push
           read == Judge!Gov!DepAutomation(repo, down)
           contributing == Judge!Gov!FirstExisting(repo, "contributing", down)
           coc == Judge!Gov!FirstExisting(repo, "coc", down)
           automation == IF read = "throws" THEN "none" ELSE read
           redFlag == contributing = "flagged"
           listed == automation = "none" /\ ~redFlag
           without == Judge!Gov!DecideEligibility(owns, automation, redFlag, FALSE)
           with == Judge!Gov!DecideEligibility(owns, automation, redFlag, TRUE)
           issue == IF listed /\ <<"issues", 0>> \notin down THEN Judge!Gov!PickLinkableIssue(issues) ELSE <<>>
           degraded == \/ <<"repo", 0>> \in down
                       \/ "throws" \in {read, contributing, coc}
                       \/ listed /\ <<"issues", 0>> \in down
           gate(yes) == Judge!Gov!DecideEligibility(repo.push, GateAutomation(repo), GateFlag(repo), yes)
<1>1. Judge!Gov!PreviewEligibility(repo, issues, down)
        = [decision |-> without.decision, canOpenPRsIfAcknowledged |-> with.canOpenPRs,
           ackNeeded |-> ~without.canOpenPRs /\ with.canOpenPRs,
           linkableIssue |-> issue, degraded |-> degraded]
  BY Zenon DEF Judge!Gov!PreviewEligibility, Judge!Gov!None
<1>2. Judge!Gov!PreviewRoute(TRUE, TRUE, repo, issues, down).preview
        = Judge!Gov!PreviewEligibility(repo, issues, down)
  BY DEF Judge!Gov!PreviewRoute
<1>3. \A yes \in BOOLEAN : Judge!Gov!AssessContributionEligibility(repo, yes) = gate(yes)
  BY GateDecides, Zenon
<1>4. /\ read = "throws" \/ read = GateAutomation(repo)
      /\ contributing = "throws" \/ redFlag = GateFlag(repo)
      /\ GateAutomation(repo) # "throws"
  BY ReadsTellTheGate, Zenon
<1>6. issue # <<>> => ~issue[1].pull /\ listed
  BY LinkableIsIssue, Zenon
<1>7. repo.push \in BOOLEAN /\ owns \in BOOLEAN /\ redFlag \in BOOLEAN /\ GateFlag(repo) \in BOOLEAN
  BY DEF Judge!GovRepo, GateFlag
<1>8. \A yes \in BOOLEAN :
        /\ gate(yes).canOpenPRs \in BOOLEAN
        /\ repo.push => gate(yes).decision = "owned" /\ gate(yes).canOpenPRs
        /\ ~repo.push /\ (GateAutomation(repo) # "none" \/ GateFlag(repo))
             => gate(yes).decision = "blocked" /\ ~gate(yes).canOpenPRs
        /\ ~repo.push /\ GateAutomation(repo) = "none" /\ ~GateFlag(repo)
             => gate(yes).decision = "external" /\ (gate(yes).canOpenPRs <=> yes)
  <2> DEFINE flag == GateFlag(repo)
             push == repo.push
             auto == GateAutomation(repo)
  <2>1. push \in BOOLEAN /\ flag \in BOOLEAN
    BY <1>7
  <2> HIDE DEF flag, push, auto
  <2>2. \A yes \in BOOLEAN :
          /\ Judge!Gov!DecideEligibility(push, auto, flag, yes).canOpenPRs \in BOOLEAN
          /\ push => /\ Judge!Gov!DecideEligibility(push, auto, flag, yes).decision = "owned"
                     /\ Judge!Gov!DecideEligibility(push, auto, flag, yes).canOpenPRs
          /\ ~push /\ (auto # "none" \/ flag) =>
               /\ Judge!Gov!DecideEligibility(push, auto, flag, yes).decision = "blocked"
               /\ ~Judge!Gov!DecideEligibility(push, auto, flag, yes).canOpenPRs
          /\ ~push /\ auto = "none" /\ ~flag =>
               /\ Judge!Gov!DecideEligibility(push, auto, flag, yes).decision = "external"
               /\ Judge!Gov!DecideEligibility(push, auto, flag, yes).canOpenPRs <=> yes
    BY <2>1, Decisions
  <2> QED  BY <2>2, Zenon DEF flag, push, auto
<1>9. /\ owns => without.decision = "owned"
      /\ ~owns /\ (automation # "none" \/ redFlag) => without.decision = "blocked"
      /\ ~owns /\ automation = "none" /\ ~redFlag => without.decision = "external"
  <2> HIDE DEF owns, automation, redFlag
  <2>1. owns \in BOOLEAN /\ redFlag \in BOOLEAN /\ FALSE \in BOOLEAN
    BY <1>7
  <2>2. \A yes \in BOOLEAN :
          /\ owns => Judge!Gov!DecideEligibility(owns, automation, redFlag, yes).decision = "owned"
          /\ ~owns /\ (automation # "none" \/ redFlag) =>
               Judge!Gov!DecideEligibility(owns, automation, redFlag, yes).decision = "blocked"
          /\ ~owns /\ automation = "none" /\ ~redFlag =>
               Judge!Gov!DecideEligibility(owns, automation, redFlag, yes).decision = "external"
    BY <2>1, Decisions
  <2> QED  BY <2>1, <2>2, Zenon
<1>10. ~degraded => without = gate(FALSE) /\ with = gate(TRUE)
  <2> SUFFICES ASSUME ~degraded
               PROVE  without = gate(FALSE) /\ with = gate(TRUE)
    OBVIOUS
  <2>1. owns = repo.push /\ automation = GateAutomation(repo) /\ redFlag = GateFlag(repo)
    BY <1>4, <1>7
  <2> QED  BY <2>1, Zenon
<1>11. without.decision = "owned" => repo.push
  BY <1>9
<1>12. without.decision = "blocked" /\ <<"repo", 0>> \notin down
         => ~repo.push /\ (GateAutomation(repo) # "none" \/ GateFlag(repo))
  <2> SUFFICES ASSUME without.decision = "blocked", <<"repo", 0>> \notin down
               PROVE  ~repo.push /\ (GateAutomation(repo) # "none" \/ GateFlag(repo))
    OBVIOUS
  <2>1. ~owns /\ (automation # "none" \/ redFlag)
    BY <1>7, <1>9
  <2>2. automation # "none" => GateAutomation(repo) # "none"
    BY <1>4
  <2>3. redFlag => GateFlag(repo)
    BY <1>4
  <2> QED  BY <2>1, <2>2, <2>3
<1>13. listed => without.decision # "blocked"
  BY <1>9
<1> DEFINE p == Judge!Gov!PreviewRoute(TRUE, TRUE, repo, issues, down).preview
           assess(yes) == Judge!Gov!AssessContributionEligibility(repo, yes)
<1>14. /\ p.decision = without.decision /\ p.canOpenPRsIfAcknowledged = with.canOpenPRs
       /\ p.ackNeeded = (~without.canOpenPRs /\ with.canOpenPRs)
       /\ p.linkableIssue = issue /\ p.degraded = degraded
  <2>1. p = [decision |-> without.decision, canOpenPRsIfAcknowledged |-> with.canOpenPRs,
             ackNeeded |-> ~without.canOpenPRs /\ with.canOpenPRs,
             linkableIssue |-> issue, degraded |-> degraded]
    BY <1>1, <1>2, Zenon
  <2> HIDE DEF p, without, with, issue, degraded
  <2> QED  BY <2>1, Zenon
<1>15. assess(FALSE) = gate(FALSE) /\ assess(TRUE) = gate(TRUE)
  BY <1>3
<1>16. /\ repo.push => gate(FALSE).decision = "owned"
       /\ ~repo.push /\ (GateAutomation(repo) # "none" \/ GateFlag(repo)) => ~gate(TRUE).canOpenPRs
       /\ gate(FALSE).canOpenPRs \in BOOLEAN /\ gate(TRUE).canOpenPRs \in BOOLEAN
       /\ gate(FALSE).canOpenPRs => gate(TRUE).canOpenPRs
  <2> HIDE DEF gate
  <2>1. repo.push \/ (~repo.push /\ (GateAutomation(repo) # "none" \/ GateFlag(repo)))
        \/ (~repo.push /\ GateAutomation(repo) = "none" /\ ~GateFlag(repo))
    OBVIOUS
  <2>2. TRUE \in BOOLEAN /\ FALSE \in BOOLEAN
    OBVIOUS
  <2> QED  BY <1>8, <2>1, <2>2, Zenon
<1> HIDE DEF owns, read, contributing, coc, automation, redFlag, listed, without, with, issue, degraded, gate, p, assess
<1>17. ~p.degraded => /\ p.decision = assess(FALSE).decision
                      /\ p.canOpenPRsIfAcknowledged = assess(TRUE).canOpenPRs
                      /\ p.ackNeeded <=> assess(TRUE).canOpenPRs # assess(FALSE).canOpenPRs
  BY <1>10, <1>14, <1>15, <1>16
<1>18. /\ p.decision = "owned" => assess(FALSE).decision = "owned"
       /\ p.decision = "blocked" /\ <<"repo", 0>> \notin down => ~assess(TRUE).canOpenPRs
       /\ p.linkableIssue # <<>> => ~p.linkableIssue[1].pull /\ p.decision # "blocked"
  BY <1>6, <1>11, <1>12, <1>13, <1>14, <1>15, <1>16, Zenon
<1> QED  BY <1>17, <1>18, Zenon DEF Judge!Gov!PreviewIsTheGate, p, assess

\* An output is one an analyzer printed before it ended well.
LEMMA OutputsArePrinted ==
  ASSUME NEW lang \in Judge!Analyzers, NEW before \in Judge!Docker, NEW after \in Judge!Docker
  PROVE  Judge!Tool!OutputIsPrinted(lang, before, after)
<1>1. ASSUME NEW l \in Judge!Analyzers, NEW d \in Judge!Docker, Judge!Tool!RunAnalyzer(l, d) = "output"
      PROVE  d.up /\ d.image /\ d.ends = "JSON"
  <2>1. Judge!Tool!ImageExists(d)
    BY <1>1 DEF Judge!Tool!RunAnalyzer
  <2>2. d.ends = "JSON"
    BY <1>1, <2>1 DEF Judge!Tool!RunAnalyzer, Judge!Docker
  <2> QED  BY <2>1, <2>2 DEF Judge!Tool!ImageExists
<1>2. ASSUME NEW d \in Judge!Docker, NEW b \in Judge!Docker, Judge!Tool!Analyze(lang, b, d) = "output"
      PROVE  /\ Judge!Tool!ImageExists(b)
             /\ \E l \in Judge!Analyzers : Judge!Tool!RunAnalyzer(l, d) = "output"
  BY <1>2 DEF Judge!Tool!Analyze, Judge!Tool!RunGriffe, Judge!Tool!RunApidiff,
              Judge!Tool!RunCargoSemverChecks, Judge!Analyzers
<1>3. Judge!Tool!Analyze(lang, before, after) = "output" => after.up /\ after.image /\ after.ends = "JSON"
  BY <1>1, <1>2
<1> DEFINE built == Judge!Tool!EnsureImage(before)
<1>4. Judge!Tool!ImageExists(built) => before.up /\ (before.image \/ before.builds)
  BY DEF Judge!Tool!EnsureImage, Judge!Tool!ImageExists, Judge!Docker
<1>5. Judge!Tool!Analyze(lang, built, built) = "output" => Judge!Tool!ImageExists(built)
  BY DEF Judge!Tool!Analyze
<1> HIDE DEF built
<1> QED  BY <1>3, <1>4, <1>5 DEF Judge!Tool!OutputIsPrinted, built

\* A diff names an analyzer only if one ran.
LEMMA DiffsAreEarned ==
  ASSUME NEW lang \in Judge!Analyzers, NEW image \in BOOLEAN, NEW out \in Judge!Output
  PROVE  Judge!Lang!DiffIsEarned(lang, image, out)
<1> DEFINE named == CASE lang = "python" -> "griffe" [] lang = "go" -> "apidiff"
                      [] lang = "rust" -> "cargo-semver-checks"
<1>1. Judge!Lang!DiffIsEarned(lang, image, out) =
        LET diff == Judge!Lang!Analyzed(named, image, out)
        IN  IF image /\ ~out.thrown
            THEN diff.tier # "ast-only" /\ diff.removed = out.removed
            ELSE diff.tier = "ast-only" /\ diff.coverage = 0 /\ diff.removed = {}
                 /\ diff.unanalyzable # {}
  BY DEF Judge!Lang!DiffIsEarned, Judge!Lang!PythonDiff, Judge!Lang!GoDiff, Judge!Lang!RustDiff,
         Judge!Analyzers
<1>2. named # "ast-only"
  BY DEF Judge!Analyzers
<1> HIDE DEF named
<1> QED  BY <1>1, <1>2 DEF Judge!Lang!Analyzed, Judge!Lang!Fallback

\* The first adapter of the registry that detects its language.
LEMMA AdapterOwns ==
  ASSUME NEW files \in SUBSET STRING
  PROVE  Judge!Lang!AdapterOwnsRepo(files)
<1> DEFINE ids == Judge!Lang!LanguageIds
           I == {i \in 1..Len(ids) : Judge!Lang!Detects(ids[i], files)}
<1>1. Judge!Lang!SelectAdapter(files) = IF First(I) = 0 THEN "none" ELSE ids[First(I)]
  BY Zenon DEF Judge!Lang!SelectAdapter, Judge!Lang!SelectInSeq, Judge!Lang!Min, First, Least
<1>2. /\ Len(ids) = 4 /\ DOMAIN ids = 1..4
      /\ ids[1] = "rust" /\ ids[2] = "go" /\ ids[3] = "python" /\ ids[4] = "typescript"
  BY DEF Judge!Lang!LanguageIds
<1>3. /\ First(I) \in 0..4
      /\ First(I) = 0 <=> I = {}
      /\ First(I) # 0 => First(I) \in I /\ \A j \in 1..(First(I) - 1) : j \notin I
  <2>1. I \in SUBSET (1..4)
    BY <1>2
  <2> HIDE DEF I
  <2> QED  BY <2>1, FirstIndex
<1>4. \A i \in 1..4 : i \in I <=> Judge!Lang!Detects(ids[i], files)
  BY <1>2
<1>5. I = {} <=> \A i \in DOMAIN ids : ~Judge!Lang!Detects(ids[i], files)
  BY <1>2
<1>6. First(I) # 0 => ids[First(I)] # "none"
  BY <1>2, <1>3
<1>7. First(I) # 0 /\ ids[First(I)] = "typescript"
        => \A l \in {"rust", "go", "python"} : ~Judge!Lang!Detects(l, files)
  <2> SUFFICES ASSUME First(I) # 0, ids[First(I)] = "typescript"
               PROVE  \A l \in {"rust", "go", "python"} : ~Judge!Lang!Detects(l, files)
    OBVIOUS
  <2>1. First(I) = 4
    BY <1>2, <1>3
  <2>2. 1 \notin I /\ 2 \notin I /\ 3 \notin I
    BY <1>3, <2>1
  <2> QED  BY <1>2, <1>4, <2>2
<1> HIDE DEF I
<1> QED  BY <1>1, <1>3, <1>5, <1>6, <1>7, Zenon DEF Judge!Lang!AdapterOwnsRepo

\* Of two versions one is behind at most, and what is behind a version is
\* behind every later one.
LEMMA BehindIsOrder ==
  ASSUME NEW u \in Judge!Version, NEW v \in Judge!Version, NEW w \in Judge!Version
  PROVE  Judge!Lang!BehindIsAnOrder(u, v, w)
<1>1. ASSUME NEW x \in Judge!Version
      PROVE  Judge!Lang!Major(x) \in Nat \cup {-1} /\ Judge!Lang!Minor(x) \in Nat \cup {-1}
  <2>1. x.parts \in Seq(Nat \cup {-1})
    BY DEF Judge!Version, Judge!Lang!NaN
  <2>2. Judge!Lang!Major(x) \in Nat \cup {-1}
    <3>1. x.parts # <<>> => x.parts[1] \in Nat \cup {-1}
      BY <2>1
    <3> QED  BY <3>1 DEF Judge!Lang!Major, Judge!Lang!NaN
  <2>3. Judge!Lang!Minor(x) \in Nat \cup {-1}
    BY <2>1 DEF Judge!Lang!Minor
  <2> QED  BY <2>2, <2>3
<1> DEFINE a == Judge!Lang!Major(u)
           b == Judge!Lang!Major(v)
           c == Judge!Lang!Major(w)
           d == Judge!Lang!Minor(u)
           e == Judge!Lang!Minor(v)
           f == Judge!Lang!Minor(w)
<1>2. /\ a \in Nat \cup {-1} /\ b \in Nat \cup {-1} /\ c \in Nat \cup {-1}
      /\ d \in Nat \cup {-1} /\ e \in Nat \cup {-1} /\ f \in Nat \cup {-1}
  BY <1>1
<1> HIDE DEF a, b, c, d, e, f
<1>3. ~(Judge!Lang!IsSignificantlyBehind(u, v) /\ Judge!Lang!IsSignificantlyBehind(v, u))
  BY <1>2 DEF Judge!Lang!IsSignificantlyBehind, Judge!Lang!NaN, a, b, d, e
<1>4. Judge!Lang!IsSignificantlyBehind(u, v) /\ Judge!Lang!NotAfter(<<b, e>>, <<c, f>>)
        => Judge!Lang!IsSignificantlyBehind(u, w)
  BY <1>2 DEF Judge!Lang!IsSignificantlyBehind, Judge!Lang!NotAfter, Judge!Lang!NaN, a, b, c, d, e, f
<1> QED  BY <1>3, <1>4 DEF Judge!Lang!BehindIsAnOrder, b, c, e, f

\* An issue with the letters of the dependency's name is preferred to the first
\* umbrella issue.
LEMMA LinksAreFound ==
  ASSUME NEW issues \in Seq(Judge!Issue), NEW name \in Judge!Name
  PROVE  Judge!Gov!LinkIsFound(issues, name)
<1> DEFINE I == {i \in 1..Len(issues) : Judge!Gov!DepSpecific(issues[i], name)}
           J == {i \in 1..Len(issues) : Judge!Gov!General(issues[i])}
           k == Judge!Gov!PickIssueForDep(issues, name)
           naming == Judge!Gov!Naming(issues, name)
           umbrella == Judge!Gov!Umbrella(issues)
<1>1. k = IF First(I) # 0 THEN First(I) ELSE First(J)
  BY Zenon DEF Judge!Gov!PickIssueForDep, Judge!Gov!SelectInSeq, Judge!Gov!Min, First, Least
<1>2. Len(issues) \in Nat /\ DOMAIN issues = 1..Len(issues)
  OBVIOUS
<1>3. /\ First(I) \in 0..Len(issues)
      /\ First(I) = 0 <=> I = {}
      /\ First(I) # 0 => First(I) \in I
  <2>1. I \in SUBSET (1..Len(issues))
    OBVIOUS
  <2> HIDE DEF I
  <2> QED  BY <1>2, <2>1, FirstIndex
<1>4. /\ First(J) \in 0..Len(issues)
      /\ First(J) = 0 <=> J = {}
      /\ First(J) # 0 => First(J) \in J
  <2>1. J \in SUBSET (1..Len(issues))
    OBVIOUS
  <2> HIDE DEF J
  <2> QED  BY <1>2, <2>1, FirstIndex
<1>5. naming \subseteq I
  <2>1. ASSUME NEW text, name \in text
        PROVE  Judge!Gov!Includes(text, name)
    <3>1. /\ Len(name) \in Nat /\ 1 \in 1..Len(name) /\ 1 + Len(name) - 1 = Len(name)
          /\ SubSeq(name, 1, Len(name)) = name
      BY DEF Judge!Name
    <3> QED  BY <2>1, <3>1 DEF Judge!Gov!Includes
  <2> QED  BY <1>2, <2>1 DEF Judge!Gov!DepSpecific, Judge!Gov!Naming
<1>6. J = umbrella
  <2>0. \A i \in 1..Len(issues) : issues[i] \in Judge!Issue
    OBVIOUS
  <2>1. \A i \in 1..Len(issues) : issues[i].intent \in BOOLEAN /\ issues[i].deps \in BOOLEAN
    BY <2>0 DEF Judge!Issue
  <2>2. \A i \in 1..Len(issues) :
          Judge!Gov!General(issues[i])
            <=> Judge!Gov!LabelHit(issues[i]) \/ (issues[i].deps /\ issues[i].intent)
    BY <2>1 DEF Judge!Gov!General, Judge!Gov!LabelHit
  <2> QED  BY <1>2, <2>2 DEF Judge!Gov!Umbrella
<1>7. \A i \in I \cup J : issues[i].intent \/ Judge!Gov!LabelHit(issues[i])
  BY DEF Judge!Gov!DepSpecific, Judge!Gov!General
<1>8. \A i \in I : Judge!Gov!DepSpecific(issues[i], name)
  OBVIOUS
<1>9. umbrella # {} => First(J) = CHOOSE x \in umbrella : \A y \in umbrella : x <= y
  BY <1>6, Zenon DEF First, Least
<1> HIDE DEF I, J, k
<1>10. naming # {} => k # 0 /\ Judge!Gov!DepSpecific(issues[k], name)
  BY <1>1, <1>3, <1>5, <1>8
<1>11. k # 0 => issues[k].intent \/ Judge!Gov!LabelHit(issues[k])
  BY <1>1, <1>3, <1>4, <1>7
<1>12. umbrella # {} => k # 0
  BY <1>1, <1>4, <1>6
<1>13. k # 0 /\ naming = {} /\ ~Judge!Gov!DepSpecific(issues[k], name)
         => k = CHOOSE x \in umbrella : \A y \in umbrella : x <= y
  <2> SUFFICES ASSUME k # 0, ~Judge!Gov!DepSpecific(issues[k], name)
               PROVE  k = CHOOSE x \in umbrella : \A y \in umbrella : x <= y
    OBVIOUS
  <2>1. First(I) = 0 /\ k = First(J) /\ First(J) # 0
    BY <1>1, <1>3, <1>8
  <2>2. umbrella # {}
    BY <1>4, <1>6, <2>1
  <2> QED  BY <1>9, <2>1, <2>2
<1> HIDE DEF naming, umbrella
<1> QED  BY <1>10, <1>11, <1>12, <1>13, Zenon DEF Judge!Gov!LinkIsFound, k, naming, umbrella

\* The boot command is the first script of the list, else bin or main.
LEMMA BootCommands ==
  ASSUME NEW repo \in Judge!ToolRepo
  PROVE  /\ Judge!Tool!DetectBootCommand(repo) \in {"none", "start", "serve", "dev", "bin", "main"}
         /\ Judge!Tool!DetectBootCommand(repo) = "dev" => repo.scripts \cap {"start", "serve"} = {}
<1> DEFINE boot == Judge!Tool!BootScripts
           I == {i \in 1..Len(boot) : boot[i] \in repo.scripts}
<1>1. Judge!Tool!DetectBootCommand(repo)
        = CASE repo.manifest # "ok" -> "none"
            [] repo.manifest = "ok" /\ First(I) # 0 -> boot[First(I)]
            [] repo.manifest = "ok" /\ First(I) = 0 /\ repo.bin \in {"string", "map"} -> "bin"
            [] repo.manifest = "ok" /\ First(I) = 0 /\ repo.bin \notin {"string", "map"} /\ repo.main -> "main"
            [] OTHER -> "none"
  BY Zenon DEF Judge!Tool!DetectBootCommand, Judge!Tool!SelectInSeq, Judge!Tool!Min, First, Least, Judge!Tool!None
<1>2. Len(boot) = 3 /\ boot[1] = "start" /\ boot[2] = "serve" /\ boot[3] = "dev"
  BY DEF Judge!Tool!BootScripts
<1>3. /\ First(I) \in 0..3
      /\ First(I) # 0 => First(I) \in I /\ \A j \in 1..(First(I) - 1) : j \notin I
  <2>1. I \in SUBSET (1..3)
    BY <1>2
  <2> HIDE DEF I
  <2> QED  BY <2>1, FirstIndex
<1>4. \A i \in 1..3 : i \in I <=> boot[i] \in repo.scripts
  BY <1>2
<1>5. First(I) = 3 => "start" \notin repo.scripts /\ "serve" \notin repo.scripts
  BY <1>2, <1>3, <1>4
<1> HIDE DEF I, boot
<1>6. First(I) # 0 => boot[First(I)] \in {"start", "serve", "dev"}
  BY <1>2, <1>3
<1>7. First(I) # 0 /\ boot[First(I)] = "dev" => First(I) = 3
  BY <1>2, <1>3
<1> QED  BY <1>1, <1>5, <1>6, <1>7

\* The commands fit the repository.
LEMMA ToolsAreFit ==
  ASSUME NEW repo \in Judge!ToolRepo, NEW other \in Judge!ToolRepo
  PROVE  Judge!Tool!ToolsFit(repo, other)
<1>1. /\ Judge!Tool!LockfileForPm["pnpm"] = "pnpm-lock.yaml"
      /\ Judge!Tool!LockfileForPm["yarn"] = "yarn.lock"
      /\ Judge!Tool!LockfileForPm["npm"] = "package-lock.json"
      /\ Judge!Tool!Range(Judge!Tool!LockfileForPm) = Judge!Locks
  BY DEF Judge!Tool!LockfileForPm, Judge!Tool!Range, Judge!Locks
<1>2. repo.files \cap Judge!Locks # {} =>
        Judge!Tool!LockfileForPm[Judge!Tool!DetectPackageManager(repo)] \in repo.files
  BY <1>1 DEF Judge!Tool!DetectPackageManager, Judge!Locks
<1>3. /\ repo.manifest \in {"absent", "malformed", "ok"} /\ repo.runners \in SUBSET {"vitest", "jest"}
  BY DEF Judge!ToolRepo
<1>4. Judge!Tool!DetectTestCommand(repo) \notin {"none", "throws"} => Judge!Tool!DetectTestRunner(repo) # "none"
  BY <1>3 DEF Judge!Tool!DetectTestCommand, Judge!Tool!DetectTestRunner, Judge!Tool!None, Judge!Tool!Runnable
<1>5. Judge!Tool!DetectTestRunner(repo) \in {"vitest", "script"} => Judge!Tool!DetectTestCommand(repo) # "none"
  BY <1>3 DEF Judge!Tool!DetectTestCommand, Judge!Tool!DetectTestRunner, Judge!Tool!None, Judge!Tool!Runnable
<1>6. /\ Judge!Tool!DetectBootCommand(repo) \notin {"test", "no test", "build"}
      /\ Judge!Tool!DetectBootCommand(repo) = "dev" => repo.scripts \cap {"start", "serve"} = {}
  BY BootCommands
<1> DEFINE k == Judge!Tool!ComputeCacheKey(repo, 22)
           m == Judge!Tool!ComputeCacheKey(other, 22)
           pm(r) == Judge!Tool!DetectPackageManager(r)
           lock(r) == Judge!Tool!LockfileForPm[pm(r)]
<1>7. ASSUME NEW r \in Judge!ToolRepo, Judge!Tool!ComputeCacheKey(r, 22).pm # "none"
      PROVE  /\ lock(r) \in r.files
             /\ Judge!Tool!ComputeCacheKey(r, 22) = [pm |-> pm(r), lockfile |-> r.content[lock(r)], runtime |-> 22]
  BY <1>7 DEF Judge!Tool!ComputeCacheKey, Judge!Tool!None
<1>8. k.pm # "none" /\ k = m => \E f \in repo.files \cap other.files : repo.content[f] = other.content[f]
  <2> SUFFICES ASSUME k.pm # "none", k = m
               PROVE  \E f \in repo.files \cap other.files : repo.content[f] = other.content[f]
    OBVIOUS
  <2>1. /\ lock(repo) \in repo.files /\ lock(other) \in other.files
        /\ k.pm = pm(repo) /\ k.lockfile = repo.content[lock(repo)]
        /\ m.pm = pm(other) /\ m.lockfile = other.content[lock(other)]
    BY <1>7
  <2>2. pm(repo) = pm(other) /\ repo.content[lock(repo)] = other.content[lock(other)]
    BY <2>1
  <2> QED  BY <2>1, <2>2
<1> QED  BY <1>1, <1>2, <1>4, <1>5, <1>6, <1>8, Zenon DEF Judge!Tool!ToolsFit, Judge!Tool!None

\* A ready signal is a phrase the pattern asked for, or a default one, occurs in.
LEMMA SignalsAreSeen ==
  ASSUME NEW stdout \in SUBSET DOMAIN Judge!Tool!PatternsIn, NEW pattern,
         Judge!Tool!DetectReadySignal(stdout, pattern)
  PROVE  /\ \E p \in stdout : Judge!Tool!PatternsIn[p] # {}
         /\ pattern # "none" => \E p \in stdout : pattern \in Judge!Tool!PatternsIn[p]
<1>1. PICK p \in stdout : IF pattern # "none" THEN pattern \in Judge!Tool!PatternsIn[p]
                          ELSE Judge!Tool!PatternsIn[p] \cap Judge!Tool!Defaults # {}
  BY Zenon DEF Judge!Tool!DetectReadySignal, Judge!Tool!None
<1>2. CASE pattern # "none"
  BY <1>1, <1>2
<1>3. CASE pattern = "none"
  BY <1>1, <1>3
<1> QED  BY <1>2, <1>3

\* What a boot that counts has shown.
LEMMA BootsAreEarned ==
  ASSUME NEW stdout \in SUBSET DOMAIN Judge!Tool!PatternsIn, NEW late \in BOOLEAN, NEW code \in Nat,
         NEW pattern,
         Judge!Tool!ResolvePhaseCReason([stdout |-> stdout, timedOut |-> late, exitCode |-> code], pattern).booted
  PROVE  Judge!Tool!DetectReadySignal(stdout, pattern) \/ (~late /\ code = 0)
<1>1. CASE Judge!Tool!DetectReadySignal(stdout, pattern)
  BY <1>1
<1>2. CASE ~Judge!Tool!DetectReadySignal(stdout, pattern) /\ late
  <2>1. ~Judge!Tool!ResolvePhaseCReason([stdout |-> stdout, timedOut |-> late, exitCode |-> code], pattern).booted
    BY <1>2 DEF Judge!Tool!ResolvePhaseCReason
  <2> QED  BY <2>1
<1>3. CASE ~Judge!Tool!DetectReadySignal(stdout, pattern) /\ ~late
  <2>1. code # 0 =>
          ~Judge!Tool!ResolvePhaseCReason([stdout |-> stdout, timedOut |-> late, exitCode |-> code], pattern).booted
    BY <1>3 DEF Judge!Tool!ResolvePhaseCReason
  <2> QED  BY <1>3, <2>1
<1> QED  BY <1>1, <1>2, <1>3

\* A phase passes only if what it ran passed.
LEMMA PhasesHonest ==
  ASSUME NEW repo \in Judge!ToolRepo, NEW smoke \in Judge!Smoke, NEW run \in Judge!Boot,
         NEW outcome \in Judge!End
  PROVE  Judge!Tool!PhasesAreHonest(repo, smoke, run, outcome)
<1> DEFINE b == Judge!Tool!PhaseB(repo, outcome)
           c == Judge!Tool!PhaseC(repo, smoke, run)
           late == run.seconds > Judge!Tool!ResolveTimeout(smoke.timeout)
           code == IF late THEN 1 ELSE run.exitCode
           result == Judge!Tool!ResolvePhaseCReason(
                       [stdout |-> run.stdout, timedOut |-> late, exitCode |-> code], smoke.pattern)
           command == IF smoke.command # "none" THEN smoke.command ELSE Judge!Tool!DetectBootCommand(repo)
<1>1. b.success <=> /\ ~outcome.killed
                    /\ "tsconfig.json" \in repo.files => outcome.tsc
                    /\ Judge!Tool!DetectTestCommand(repo) # "none" => outcome.tests
  BY Zenon DEF Judge!Tool!PhaseB, Judge!Tool!TypecheckPassed, Judge!Tool!TestsPassed, Judge!Tool!None
<1>2. Judge!Tool!DetectTestRunner(repo) \in {"vitest", "script"} => Judge!Tool!DetectTestCommand(repo) # "none"
  BY ToolsAreFit, Zenon DEF Judge!Tool!ToolsFit, Judge!Tool!None
<1>3. c = CASE ~smoke.enabled -> [attempted |-> FALSE, success |-> FALSE, reason |-> "smoke-disabled"]
            [] smoke.enabled /\ command = "none" ->
                 [attempted |-> FALSE, success |-> FALSE, reason |-> "no-boot-command-detected"]
            [] OTHER -> [attempted |-> TRUE, success |-> result.booted, reason |-> result.reason]
  BY Zenon DEF Judge!Tool!PhaseC, Judge!Tool!None
<1>4. c.success => smoke.enabled /\ c.attempted /\ result.booted
  <2> HIDE DEF c, command, result
  <2>1. CASE ~smoke.enabled
    <3>1. c = [attempted |-> FALSE, success |-> FALSE, reason |-> "smoke-disabled"]
      BY <1>3, <2>1
    <3> QED  BY <3>1
  <2>2. CASE smoke.enabled /\ command = "none"
    <3>1. c = [attempted |-> FALSE, success |-> FALSE, reason |-> "no-boot-command-detected"]
      BY <1>3, <2>2
    <3> QED  BY <3>1
  <2>3. CASE smoke.enabled /\ command # "none"
    <3>1. c = [attempted |-> TRUE, success |-> result.booted, reason |-> result.reason]
      BY <1>3, <2>3
    <3> QED  BY <2>3, <3>1
  <2> QED  BY <2>1, <2>2, <2>3
<1>5. /\ run.stdout \in SUBSET DOMAIN Judge!Tool!PatternsIn
      /\ run.seconds \in Nat /\ run.exitCode \in Nat /\ smoke.timeout \in Int
  BY DEF Judge!Boot, Judge!Smoke
<1>6. /\ Judge!Tool!ResolveTimeout(smoke.timeout) \in 1..90
      /\ late \in BOOLEAN /\ code \in Nat
      /\ ~late => run.seconds <= 90 /\ code = run.exitCode
      /\ late => code # 0
  BY <1>5 DEF Judge!Tool!ResolveTimeout
<1>7. result.booted => \/ Judge!Tool!DetectReadySignal(run.stdout, smoke.pattern)
                       \/ ~late /\ code = 0
  <2> HIDE DEF late, code
  <2> QED  BY <1>5, <1>6, BootsAreEarned
<1>8. c.success => \/ run.exitCode = 0 /\ run.seconds <= 90
                   \/ Judge!Tool!DetectReadySignal(run.stdout, smoke.pattern)
  <2> HIDE DEF c, result, late, code
  <2> QED  BY <1>4, <1>6, <1>7
<1>9. Judge!Tool!DetectReadySignal(run.stdout, smoke.pattern) =>
        /\ \E p \in run.stdout : Judge!Tool!PatternsIn[p] # {}
        /\ smoke.pattern # "none" => \E p \in run.stdout : smoke.pattern \in Judge!Tool!PatternsIn[p]
  BY <1>5, SignalsAreSeen
<1>10. run.stdout \subseteq {"banner"} => ~\E p \in run.stdout : Judge!Tool!PatternsIn[p] # {}
  <2>1. Judge!Tool!PatternsIn["banner"] = {}
    BY DEF Judge!Tool!PatternsIn
  <2> QED  BY <2>1
<1>11. run.seconds > 90 => ~(run.seconds <= 90)
  BY <1>5
<1>12. outcome.killed \in BOOLEAN /\ outcome.tsc \in BOOLEAN /\ outcome.tests \in BOOLEAN
  BY DEF Judge!End
<1> HIDE DEF b, c
<1>13. /\ b.success => ~outcome.killed
       /\ b.success /\ "tsconfig.json" \in repo.files => outcome.tsc
       /\ b.success /\ Judge!Tool!DetectTestRunner(repo) \in {"vitest", "script"} => outcome.tests
       /\ ~b.success => outcome.killed \/ ~outcome.tsc \/ ~outcome.tests
  BY <1>1, <1>2, <1>12, Zenon
<1>14. /\ c.success => smoke.enabled /\ c.attempted
       /\ c.success => \/ run.exitCode = 0 /\ run.seconds <= 90
                       \/ \E p \in run.stdout : Judge!Tool!PatternsIn[p] # {}
       /\ c.success /\ smoke.pattern # "none" /\ run.exitCode # 0 =>
             \E p \in run.stdout : smoke.pattern \in Judge!Tool!PatternsIn[p]
       /\ run.seconds > 90 /\ run.stdout \subseteq {"banner"} => ~c.success
  BY <1>4, <1>8, <1>9, <1>10, <1>11, Zenon
<1> QED  BY <1>13, <1>14, Zenon DEF Judge!Tool!PhasesAreHonest, Judge!Tool!None, b, c

-----------------------------------------------------------------------------
(* Verdicts: the files an upgrade affects, the bump and the inspection *)

\* Every file that imports a symbol is listed for it, under whatever alias, and a
\* file listed without importing it uses a name some file of the repository gave
\* the symbol (signals.ts, ast-parser.ts).
LEMMA SitesAreListed ==
  ASSUME NEW repo \in Judge!Sources, NEW pkg \in STRING, NEW symbols \in SUBSET STRING
  PROVE  Judge!Sig!AffectedFilesAreFound(repo, pkg, symbols)
<1> DEFINE index == Judge!Sig!BuildReferenceIndex(repo)
           sites == Judge!Sig!AffectedSitesFromIndex(index, pkg, symbols)
           readable == {f \in repo : f.parses}
           Importers(s) == {f \in repo : f.parses /\ \E i \in f.imports : i.pkg = pkg /\ i.imported = s}
           Listed(s) == UNION {site.files : site \in {site \in sites : site.symbol = s}}
           Aliases(s) == UNION {{i.local : i \in {i \in f.imports : i.pkg = pkg /\ i.imported = s}} :
                                  f \in Importers(s)}
           Locals(s) == {i.local : i \in {i \in index.imports : i.pkg = pkg /\ i.imported = s}}
<1>1. ASSUME NEW s \in symbols
      PROVE  Listed(s) = Judge!Sig!FilesOf(index, pkg, s)
  <2> HIDE DEF index
  <2>1. \A site \in sites : site.symbol = s => site.files = Judge!Sig!FilesOf(index, pkg, s)
    BY DEF Judge!Sig!AffectedSitesFromIndex
  <2>2. Judge!Sig!FilesOf(index, pkg, s) # {} =>
          [symbol |-> s, files |-> Judge!Sig!FilesOf(index, pkg, s)] \in sites
    BY DEF Judge!Sig!AffectedSitesFromIndex
  <2>3. [symbol |-> s, files |-> Judge!Sig!FilesOf(index, pkg, s)].symbol = s
        /\ [symbol |-> s, files |-> Judge!Sig!FilesOf(index, pkg, s)].files = Judge!Sig!FilesOf(index, pkg, s)
    OBVIOUS
  <2> HIDE DEF sites
  <2>4. Listed(s) \subseteq Judge!Sig!FilesOf(index, pkg, s)
    BY <2>1
  <2>5. Judge!Sig!FilesOf(index, pkg, s) \subseteq Listed(s)
    BY <2>2, <2>3
  <2> QED  BY <2>4, <2>5
<1>2. index.imports = UNION {{[pkg |-> i.pkg, imported |-> i.imported, local |-> i.local, file |-> f.path] :
                                i \in f.imports} : f \in readable}
  BY DEF Judge!Sig!BuildReferenceIndex
<1>3. index.usages = UNION {{[symbol |-> s, file |-> f.path] :
                               s \in {i.local : i \in index.imports} \cap Judge!Sig!NamesOf(f)} : f \in readable}
  BY DEF Judge!Sig!BuildReferenceIndex
<1>4. ASSUME NEW s \in symbols
      PROVE  Locals(s) = Aliases(s)
  <2>1. ASSUME NEW i \in index.imports
        PROVE  \E f \in readable : \E k \in f.imports : i.pkg = k.pkg /\ i.imported = k.imported /\ i.local = k.local
    BY <1>2
  <2>2. ASSUME NEW f \in readable, NEW k \in f.imports
        PROVE  \E i \in index.imports : i.pkg = k.pkg /\ i.imported = k.imported /\ i.local = k.local
    <3>1. [pkg |-> k.pkg, imported |-> k.imported, local |-> k.local, file |-> f.path] \in index.imports
      BY <1>2
    <3> QED  BY <3>1
  <2> HIDE DEF index
  <2>3. Locals(s) \subseteq Aliases(s)
    BY <2>1
  <2>4. Aliases(s) \subseteq Locals(s)
    BY <2>2
  <2> QED  BY <2>3, <2>4
<1>5. \A s \in symbols : Judge!Sig!FilesOf(index, pkg, s) = {u.file : u \in {u \in index.usages : u.symbol \in Locals(s)}}
  BY DEF Judge!Sig!FilesOf
<1>6. ASSUME NEW s \in symbols, NEW f \in Importers(s)
      PROVE  f.path \in Judge!Sig!FilesOf(index, pkg, s)
  <2>1. PICK k \in f.imports : k.pkg = pkg /\ k.imported = s
    OBVIOUS
  <2>2. k.local \in Aliases(s) /\ k.local \in Locals(s)
    <3>1. k.local \in Aliases(s)
      BY <2>1
    <3> QED  BY <1>4, <3>1
  <2>3. k.local \in {i.local : i \in index.imports}
    BY <2>2
  <2>4. k.local \in Judge!Sig!NamesOf(f)
    BY DEF Judge!Sig!NamesOf
  <2>5. f \in readable
    OBVIOUS
  <2> DEFINE u == [symbol |-> k.local, file |-> f.path]
  <2>6. u \in index.usages
    <3> HIDE DEF index
    <3> QED  BY <1>3, <2>3, <2>4, <2>5
  <2> HIDE DEF index
  <2>7. u.symbol \in Locals(s) /\ u.file = f.path
    BY <2>2
  <2>8. f.path \in {x.file : x \in {x \in index.usages : x.symbol \in Locals(s)}}
    <3> HIDE DEF u, Locals
    <3> QED  BY <2>6, <2>7
  <2>9. Judge!Sig!FilesOf(index, pkg, s) = {x.file : x \in {x \in index.usages : x.symbol \in Locals(s)}}
    BY <1>5
  <2> HIDE DEF u, Locals, Importers
  <2> QED  BY <2>8, <2>9
<1>7. ASSUME NEW s \in symbols, NEW f \in repo,
             f.path \in Judge!Sig!FilesOf(index, pkg, s) \ {g.path : g \in Importers(s)}
      PROVE  Judge!Sig!NamesOf(f) \cap Aliases(s) # {}
  <2>1. PICK u \in index.usages : u.symbol \in Locals(s) /\ u.file = f.path
    <3> HIDE DEF index
    <3> QED  BY <1>5, <1>7
  <2>2. PICK g \in readable : u.file = g.path /\ u.symbol \in Judge!Sig!NamesOf(g)
    <3> HIDE DEF index
    <3> QED  BY <1>3
  <2>3. g = f
    BY <2>1, <2>2 DEF Judge!Sources
  <2>4. u.symbol \in Aliases(s)
    BY <1>4, <2>1
  <2> QED  BY <2>2, <2>3, <2>4
<1>8. ASSUME NEW s \in symbols
      PROVE  /\ {f.path : f \in Importers(s)} \subseteq Listed(s)
             /\ \A f \in repo : f.path \in Listed(s) \ {g.path : g \in Importers(s)} =>
                  Judge!Sig!NamesOf(f) \cap Aliases(s) # {}
  <2> HIDE DEF index, sites
  <2>1. Listed(s) = Judge!Sig!FilesOf(index, pkg, s)
    BY <1>1
  <2>2. {f.path : f \in Importers(s)} \subseteq Listed(s)
    BY <1>6, <2>1
  <2>3. \A f \in repo : f.path \in Listed(s) \ {g.path : g \in Importers(s)} =>
                  Judge!Sig!NamesOf(f) \cap Aliases(s) # {}
    <3> HIDE DEF Aliases, Importers, Listed
    <3> QED  BY <1>7, <2>1
  <2> QED  BY <2>2, <2>3
<1> QED  BY <1>8, Zenon DEF Judge!Sig!AffectedFilesAreFound

\* A bump changes the version of the dependency and nothing else of the
\* package.json, the range operator of the entry included.
LEMMA BumpsAreExact ==
  ASSUME NEW entries \in Seq(Judge!Entry), NEW name, NEW latest
  PROVE  Judge!Edit!BumpedExactly(entries, name, latest)
<1>1. \A i \in DOMAIN entries :
        Judge!Edit!BumpPackageJson(entries, name, latest)[i] = Judge!Edit!BumpEntry(entries[i], name, latest)
  BY DEF Judge!Edit!BumpPackageJson
<1>2. DOMAIN Judge!Edit!BumpPackageJson(entries, name, latest) = DOMAIN entries
  BY DEF Judge!Edit!BumpPackageJson
<1>3. \A e \in Judge!Entry : LET d == Judge!Edit!BumpEntry(e, name, latest) IN
        /\ d.key = e.key /\ d.op = e.op
        /\ d.version = IF e.key = name THEN latest ELSE e.version
  BY DEF Judge!Edit!BumpEntry, Judge!Entry
<1>4. \A i \in DOMAIN entries : entries[i] \in Judge!Entry
  OBVIOUS
<1> QED  BY <1>1, <1>2, <1>3, <1>4 DEF Judge!Edit!BumpedExactly

\* The base score of finitely many symbols is a number.
LEMMA ScoreIsNumber ==
  ASSUME NEW C, IsFiniteSet(C), NEW diff, IsFiniteSet(diff.broken), IsFiniteSet(diff.deprecated)
  PROVE  Judge!Rep!Conf!BaseScore(C, diff) \in Int
<1> DEFINE matrix == Judge!Rep!Conf!SymbolMatrix(C, diff)
<1>1. \A S : Judge!Rep!Conf!Cardinality(S) = Cardinality(S)
  BY DEF Judge!Rep!Conf!Cardinality, Cardinality
<1>2. IsFiniteSet(matrix)
  <2>1. IsFiniteSet(diff.broken \cup diff.deprecated)
    BY FS_Union
  <2>2. IsFiniteSet(C \cup (diff.broken \cup diff.deprecated))
    BY <2>1, FS_Union
  <2> QED  BY <2>2 DEF Judge!Rep!Conf!SymbolMatrix, Judge!Rep!Conf!Flagged
<1>3. \A v : Cardinality(Judge!Rep!Conf!Scoring(v, C, diff)) \in Nat
  <2> TAKE v
  <2>1. Judge!Rep!Conf!Scoring(v, C, diff) \subseteq matrix
    BY DEF Judge!Rep!Conf!Scoring
  <2> QED  BY <1>2, <2>1, FS_Subset, FS_CardinalityType
<1>4. Judge!Rep!Conf!TotalScore(C, diff) \in Nat
  <2> DEFINE Card(v) == Cardinality(Judge!Rep!Conf!Scoring(v, C, diff))
  <2>1. Card(90) \in Nat /\ Card(70) \in Nat /\ Card(60) \in Nat /\ Card(48) \in Nat
    BY <1>3
  <2>2. Judge!Rep!Conf!TotalScore(C, diff) = 90 * Card(90) + 70 * Card(70) + 60 * Card(60) + 48 * Card(48)
    BY <1>1 DEF Judge!Rep!Conf!TotalScore, Judge!Rep!Conf!BothAgree, Judge!Rep!Conf!SemanticOnly,
       Judge!Rep!Conf!SingleSignalOnly, Judge!Rep!Conf!ChangelogOnlyHighCoverage
  <2> HIDE DEF Card
  <2> QED  BY <2>1, <2>2
<1>5. CASE matrix = {}
  BY <1>5 DEF Judge!Rep!Conf!BaseScore, Judge!Rep!Conf!NoBreakage
<1>6. CASE matrix # {}
  <2> DEFINE n == Cardinality(matrix)
             t == Judge!Rep!Conf!TotalScore(C, diff)
  <2>1. n \in Nat /\ n > 0
    BY <1>2, <1>6, FS_CardinalityType, FS_EmptySet
  <2>2. Judge!Rep!Conf!BaseScore(C, diff) = (2 * t + n) \div (2 * n)
    BY <1>1, <1>6 DEF Judge!Rep!Conf!BaseScore, Judge!Rep!Conf!RoundedQuotient
  <2>3. t \in Nat
    BY <1>4
  <2> HIDE DEF n, t
  <2>4. 2 * t + n \in Int /\ 2 * n \in Int /\ 2 * n > 0
    BY <2>1, <2>3
  <2> QED  BY <2>2, <2>4
<1> QED  BY <1>5, <1>6

\* An inspection, which verifies nothing, is never of high confidence and says
\* when it was capped for that; its errors name every signal that is missing; and
\* what was stored is read back, no older report changed (inspect.ts).
LEMMA InspectionsAreModest ==
  ASSUME NEW pat \in BOOLEAN, NEW changelog \in Judge!Changelog, NEW diff \in Judge!Semantic,
         NEW rows \in Judge!Stored, NEW body \in [valid : BOOLEAN, same : BOOLEAN], NEW saves \in BOOLEAN
  PROVE  Judge!Rep!InspectionIsModest(pat, changelog, diff, rows, body, saves)
<1> DEFINE report == Judge!Rep!InspectApi(pat, changelog, diff)
           answer == Judge!Rep!PostInspect(rows, body, saves, report)
           base == Judge!Rep!Conf!BaseScore(report.changes, report.diff)
           scan == Judge!Rep!Conf!CalculateConfidence(report.changes, report.diff, TRUE, "booted", "high")
           score == Judge!Rep!Conf!CalculateConfidence(report.changes, report.diff, TRUE, "none", "high")
<1>0. \A S \in Judge!Symbols : IsFiniteSet(S)
  BY DEF Judge!Symbols, Judge!IsFiniteSet, IsFiniteSet
<1>1. /\ report.changes = IF pat /\ changelog.ok THEN changelog.result ELSE {}
      /\ report.diff = IF diff.ok THEN diff.result ELSE Judge!Rep!Conf!NoDiff
      /\ report.errors = (IF ~pat THEN {"changelog skipped"} ELSE {})
                    \cup (IF pat /\ ~changelog.ok THEN {"changelog"} ELSE {})
                    \cup (IF diff.ok THEN {} ELSE {"semantic-diff"})
      /\ report.confidence = Judge!Rep!ApplyInspectStructuralCap(score).score
      /\ report.cap = Judge!Rep!ApplyInspectStructuralCap(score).cap
  BY DEF Judge!Rep!InspectApi
<1>2. base \in Int
  <2>1. IsFiniteSet(report.changes)
    BY <1>0, <1>1, FS_EmptySet DEF Judge!Changelog
  <2>2. IsFiniteSet(report.diff.broken) /\ IsFiniteSet(report.diff.deprecated)
    <3>1. diff.result \in [ran : BOOLEAN, broken : Judge!Symbols, deprecated : Judge!Symbols, coverage : 0..100]
      BY DEF Judge!Semantic
    <3>2. IsFiniteSet(diff.result.broken) /\ IsFiniteSet(diff.result.deprecated)
      BY <1>0, <3>1
    <3>3. IsFiniteSet(Judge!Rep!Conf!NoDiff.broken) /\ IsFiniteSet(Judge!Rep!Conf!NoDiff.deprecated)
      BY FS_EmptySet DEF Judge!Rep!Conf!NoDiff
    <3> QED  BY <1>1, <3>2, <3>3
  <2> HIDE DEF report
  <2> QED  BY <2>1, <2>2, ScoreIsNumber
<1> HIDE DEF report
<1>3. scan = [overall |-> base, bucket |-> Judge!Rep!Conf!BucketFromScore(base)] /\ score = scan
  <2>1. Judge!Rep!Conf!ScoreAfterCaps(base, TRUE, "booted") = base
        /\ Judge!Rep!Conf!ScoreAfterCaps(base, TRUE, "none") = base
    BY DEF Judge!Rep!Conf!ScoreAfterCaps
  <2> QED  BY <2>1 DEF Judge!Rep!Conf!CalculateConfidence, Judge!Rep!Conf!ClampToMaxBucket
<1> HIDE DEF scan, score, base
<1>4. /\ report.confidence.bucket = Judge!Rep!Conf!BucketFromScore(report.confidence.overall)
      /\ report.confidence.bucket # "high" /\ report.confidence.overall <= scan.overall
      /\ report.cap = Judge!Rep!None <=> report.confidence = scan
  <2>1. scan.overall = base /\ scan.bucket = Judge!Rep!Conf!BucketFromScore(base) /\ score = scan
    BY <1>3
  <2> DEFINE capped == Judge!Rep!ApplyInspectStructuralCap(score)
  <2>0. report.confidence = capped.score /\ report.cap = capped.cap
    BY <1>1, Zenon
  <2> HIDE DEF capped
  <2>2. CASE base <= 79
    <3>1. Judge!Rep!Conf!BucketFromScore(base) # "high"
      BY <1>2, <2>2 DEF Judge!Rep!Conf!BucketFromScore, Judge!Rep!Conf!BucketHigh
    <3>2. capped = [score |-> scan, cap |-> Judge!Rep!None]
      BY <2>1, <2>2, <3>1 DEF capped, Judge!Rep!ApplyInspectStructuralCap, Judge!Rep!MediumCeiling
    <3>3. report.confidence = scan /\ report.cap = Judge!Rep!None
      BY <2>0, <3>2
    <3> QED  BY <1>2, <2>1, <3>1, <3>3
  <2>3. CASE ~(base <= 79)
    <3>1. Judge!Rep!Conf!AtMost(base, 79) = 79
      BY <1>2, <2>3 DEF Judge!Rep!Conf!AtMost
    <3>2. capped
            = [score |-> [overall |-> 79, bucket |-> "medium"], cap |-> "medium-ceiling-no-verify"]
      BY <2>1, <2>3, <3>1 DEF capped, Judge!Rep!ApplyInspectStructuralCap, Judge!Rep!MediumCeiling
    <3>3. report.confidence = [overall |-> 79, bucket |-> "medium"] /\ report.cap = "medium-ceiling-no-verify"
      BY <2>0, <3>2
    <3>4. Judge!Rep!Conf!BucketFromScore(79) = "medium"
      BY DEF Judge!Rep!Conf!BucketFromScore, Judge!Rep!Conf!BucketHigh, Judge!Rep!Conf!BucketMedium
    <3>5. report.confidence.overall = 79 /\ report.confidence.bucket = "medium"
      BY <3>3
    <3>6. report.confidence # scan /\ report.cap # Judge!Rep!None
      BY <1>2, <2>1, <2>3, <3>3, <3>5 DEF Judge!Rep!None
    <3> QED  BY <1>2, <2>1, <2>3, <3>4, <3>5, <3>6
  <2> QED  BY <2>2, <2>3
<1>5. /\ report.errors = {} => pat /\ changelog.ok /\ diff.ok
      /\ ~changelog.ok => report.changes = {} /\ report.errors # {}
  BY <1>1 DEF Judge!Changelog, Judge!Semantic
<1>6. /\ answer.status = 201 =>
           Judge!Rep!GetInspect(answer.rows, answer.id) = [status |-> 200, report |-> report]
      /\ \A id \in DOMAIN rows : Judge!Rep!GetInspect(answer.rows, id) = Judge!Rep!GetInspect(rows, id)
  <2>1. rows \in Seq({<<>>} \cup [1..1 -> STRING])
    BY DEF Judge!Stored
  <2>2. CASE body.valid /\ ~body.same /\ saves
    <3> DEFINE new == Append(rows, <<report>>)
    <3>1. answer.rows = new /\ answer.id = Len(rows) + 1
      BY <2>2 DEF Judge!Rep!PostInspect
    <3>2. /\ DOMAIN new = 1..(Len(rows) + 1) /\ new[Len(rows) + 1] = <<report>>
          /\ \A id \in DOMAIN rows : id \in DOMAIN new /\ new[id] = rows[id]
      BY <2>1
    <3> HIDE DEF new, answer
    <3>3. <<report>> # <<>> /\ <<report>>[1] = report
      OBVIOUS
    <3> QED  BY <2>1, <3>1, <3>2, <3>3 DEF Judge!Rep!GetInspect
  <2>3. CASE ~(body.valid /\ ~body.same /\ saves)
    <3>1. answer.rows = rows /\ answer.status # 201
      BY <2>3 DEF Judge!Rep!PostInspect
    <3> QED  BY <3>1
  <2> QED  BY <2>2, <2>3
<1> QED  BY <1>4, <1>5, <1>6 DEF Judge!Rep!InspectionIsModest, report, answer, scan

-----------------------------------------------------------------------------
(* Verdicts: the rejections recalled *)

\* Finitely many rows can be listed newest first, each once.
LEMMA RowsAreListed ==
  ASSUME NEW S \in SUBSET Nat, IsFiniteSet(S)
  PROVE  /\ Cardinality(S) \in Nat
         /\ Judge!Rec!NewestFirst(S) \in [1..Cardinality(S) -> S]
         /\ \A i, j \in 1..Cardinality(S) :
              Judge!Rec!NewestFirst(S)[i] = Judge!Rec!NewestFirst(S)[j] => i = j
<1> DEFINE n == Cardinality(S)
           Above(r) == {s \in S : s >= r}
           rank == [r \in S |-> Cardinality(Above(r))]
           list == [i \in 1..n |-> CHOOSE r \in S : rank[r] = i]
           Falls(q) == \A i, j \in DOMAIN q : i < j => q[i] > q[j]
<1>1. n \in Nat
  BY FS_CardinalityType
<1>2. \A r \in S : IsFiniteSet(Above(r)) /\ Cardinality(Above(r)) \in 1..n
  <2> TAKE r \in S
  <2>1. IsFiniteSet(Above(r)) /\ Cardinality(Above(r)) <= n
    BY FS_Subset
  <2>2. Cardinality(Above(r)) \in Nat
    BY <2>1, FS_CardinalityType
  <2>3. Above(r) # {}
    <3>1. r \in Above(r)
      OBVIOUS
    <3> QED  BY <3>1
  <2>4. Cardinality(Above(r)) # 0
    BY <2>1, <2>3, FS_EmptySet
  <2> HIDE DEF n, Above
  <2> QED  BY <1>1, <2>1, <2>2, <2>4
<1>3. \A r, s \in S : r > s => rank[r] < rank[s]
  <2> SUFFICES ASSUME NEW r \in S, NEW s \in S, r > s
               PROVE  Cardinality(Above(r)) < Cardinality(Above(s))
    OBVIOUS
  <2>1. Above(r) \subseteq Above(s) /\ s \in Above(s) /\ s \notin Above(r)
    <3>1. \A x \in S : x \in Nat
      OBVIOUS
    <3>2. r \in Nat /\ s \in Nat
      BY <3>1
    <3>3. \A x \in S : x >= r => x >= s
      BY <3>1, <3>2
    <3>4. Above(r) \subseteq Above(s)
      BY <3>3
    <3>5. s >= s /\ ~(s >= r)
      BY <3>2
    <3>6. s \in Above(s) /\ s \notin Above(r)
      BY <3>5
    <3> QED  BY <3>4, <3>6
  <2>2. Cardinality(Above(r)) <= Cardinality(Above(s)) /\ Cardinality(Above(r)) # Cardinality(Above(s))
    <3> HIDE DEF Above
    <3>1. Cardinality(Above(r)) <= Cardinality(Above(s))
           /\ (Cardinality(Above(s)) = Cardinality(Above(r)) => Above(s) = Above(r))
      BY <1>2, <2>1, FS_Subset
    <3> QED  BY <2>1, <3>1
  <2>3. Cardinality(Above(r)) \in Nat /\ Cardinality(Above(s)) \in Nat
    BY <1>1, <1>2
  <2> HIDE DEF Above
  <2> QED  BY <2>2, <2>3
<1>4. IsFiniteSet(1..n) /\ Cardinality(1..n) = n
  BY <1>1, FS_Interval
<1>5. rank \in [S -> 1..n]
  BY <1>2
<1> HIDE DEF Above, rank
<1>6. rank \in Surjection(S, 1..n)
  <2>1. \A r, s \in S : rank[r] = rank[s] => r = s
    <3> TAKE r, s \in S
    <3>1. rank[r] \in 1..n /\ rank[s] \in 1..n /\ r \in Nat /\ s \in Nat
      BY <1>5
    <3>2. (r > s => rank[r] < rank[s]) /\ (s > r => rank[s] < rank[r])
      BY <1>3
    <3> HIDE DEF n
    <3> QED  BY <3>1, <3>2, <1>1
  <2>2. rank \in Injection(S, 1..n)
    BY <1>5, <2>1 DEF Injection, IsInjective
  <2> HIDE DEF n
  <2>3. Cardinality(S) = Cardinality(1..n)
    BY <1>4 DEF n
  <2> QED  BY <1>4, <2>2, <2>3, FS_Injection
<1>7. \A i \in 1..n : list[i] \in S /\ rank[list[i]] = i
  <2>1. \A i \in 1..n : \E r \in S : rank[r] = i
    BY <1>6 DEF Surjection
  <2> QED  BY <2>1
<1>8. list \in [1..n -> S] /\ Falls(list)
  <2>1. list \in [1..n -> S]
    BY <1>7
  <2>2. ASSUME NEW i \in 1..n, NEW j \in 1..n, i < j
        PROVE  list[i] > list[j]
    <3>1. list[i] \in S /\ list[j] \in S /\ rank[list[i]] = i /\ rank[list[j]] = j
      BY <1>7
    <3> HIDE DEF list, n
    <3>2. list[j] > list[i] => rank[list[j]] < rank[list[i]]
      BY <1>3, <3>1
    <3>3. list[i] \in Nat /\ list[j] \in Nat
      BY <3>1
    <3> QED  BY <1>1, <2>2, <3>1, <3>2, <3>3
  <2> QED  BY <2>1, <2>2
<1> HIDE DEF list
<1>9. Judge!Rec!NewestFirst(S) \in [1..n -> S] /\ Falls(Judge!Rec!NewestFirst(S))
  <2>1. Judge!Rec!Cardinality(S) = n
    BY DEF Judge!Rec!Cardinality, Cardinality
  <2>2. Judge!Rec!NewestFirst(S) = CHOOSE q \in [1..n -> S] : Falls(q)
    BY <2>1 DEF Judge!Rec!NewestFirst
  <2> HIDE DEF Falls, n
  <2> QED  BY <1>8, <2>2, Zenon
<1> DEFINE q == Judge!Rec!NewestFirst(S)
<1>10. ASSUME NEW i \in 1..n, NEW j \in 1..n, q[i] = q[j]
       PROVE  i = j
  <2>1. (i < j => q[i] > q[j]) /\ (j < i => q[j] > q[i]) /\ q[i] \in S /\ q[j] \in S
    BY <1>9
  <2> HIDE DEF q, n
  <2>2. q[i] \in Nat /\ q[j] \in Nat
    BY <2>1
  <2> QED  BY <1>1, <1>10, <2>1, <2>2
<1> QED  BY <1>1, <1>9, <1>10

\* No more rows than asked for, none twice.
LEMMA RowsAreTaken ==
  ASSUME NEW S \in SUBSET Nat, IsFiniteSet(S), NEW n \in Int
  PROVE  LET q == Judge!Rec!Take(Judge!Rec!NewestFirst(S), n)
             k == Judge!Rec!Smaller(Judge!Rec!Larger(n, 0), Cardinality(S))
         IN  /\ k \in Nat /\ q \in [1..k -> S]
             /\ \A i, j \in 1..k : q[i] = q[j] => i = j
<1> DEFINE list == Judge!Rec!NewestFirst(S)
           m == Cardinality(S)
           k == Judge!Rec!Smaller(Judge!Rec!Larger(n, 0), m)
           q == Judge!Rec!Take(list, n)
<1>1. m \in Nat /\ list \in [1..m -> S] /\ \A i, j \in 1..m : list[i] = list[j] => i = j
  BY RowsAreListed
<1> HIDE DEF list, m
<1>2. k \in Nat /\ k <= m
  BY <1>1 DEF Judge!Rec!Smaller, Judge!Rec!Larger
<1>3. Len(list) = m
  BY <1>1
<1>4. q = SubSeq(list, 1, k)
  BY <1>3 DEF Judge!Rec!Take
<1> HIDE DEF k, q
<1>5. q = [i \in 1..k |-> list[i]]
  <2>1. list \in Seq(S)
    BY <1>1
  <2>2. SubSeq(list, 1, k) = [i \in 1..(k - 1 + 1) |-> list[1 + i - 1]]
    BY <1>1, <1>2, <1>3, <2>1
  <2>3. k - 1 + 1 = k /\ \A i \in 1..k : 1 + i - 1 = i
    BY <1>2
  <2> QED  BY <1>4, <2>2, <2>3
<1>6. q \in [1..k -> S] /\ \A i, j \in 1..k : q[i] = q[j] => i = j
  BY <1>1, <1>2, <1>5
<1> QED  BY <1>2, <1>6 DEF q, k, list, m

\* Two sequences end to end.
LEMMA Joined ==
  ASSUME NEW S, NEW u \in Seq(S), NEW v \in Seq(S)
  PROVE  /\ u \o v \in Seq(S) /\ Len(u \o v) = Len(u) + Len(v)
         /\ \A i \in 1..Len(u) : (u \o v)[i] = u[i]
         /\ \A i \in 1..Len(v) : (u \o v)[Len(u) + i] = v[i]
OBVIOUS

\* The two queries of the recall, whatever is recorded between them.
LEMMA RecallsAreOfTheDep ==
  ASSUME NEW q \in Judge!Recalled
  PROVE  Judge!Rec!RecallIsOfTheDep(q.before, q.after, q.dep, q.change, q.limit)
<1> DEFINE before == q.before
           after == q.after
           limit == q.limit
           rows == Judge!Rec!RecallRejectionPatterns(before, after, q.dep, q.change, limit)
           B == {r \in DOMAIN before : before[r].dep = q.dep}
           A == {r \in DOMAIN after : after[r].dep = q.dep}
           E == {r \in DOMAIN before : before[r].dep = q.dep /\ before[r].change = q.change}
           exact == Judge!Rec!ExactMatches(before, q.dep, q.change, limit)
           fill == Judge!Rec!Backfill(after, q.dep, exact, limit)
<1>1. /\ before \in Seq(Judge!Rejection) /\ after \in Seq(Judge!Rejection) /\ limit \in Int
      /\ Len(before) <= Len(after) /\ \A r \in DOMAIN before : after[r].dep = before[r].dep
  BY DEF Judge!Recalled
<1>2. \A S : Judge!Rec!Cardinality(S) = Cardinality(S)
  BY DEF Judge!Rec!Cardinality, Cardinality
<1>3. /\ B \subseteq A /\ E \subseteq B /\ A \subseteq 1..Len(after)
  <2>1. DOMAIN before = 1..Len(before) /\ DOMAIN after = 1..Len(after) /\ Len(before) \in Nat /\ Len(after) \in Nat
    BY <1>1
  <2>2. DOMAIN before \subseteq DOMAIN after
    BY <1>1, <2>1
  <2> QED  BY <1>1, <2>1, <2>2
<1>4. /\ IsFiniteSet(A) /\ IsFiniteSet(B) /\ IsFiniteSet(E)
      /\ Cardinality(A) \in Nat /\ Cardinality(B) \in Nat /\ Cardinality(E) \in Nat
      /\ Cardinality(B) <= Cardinality(A) /\ A \subseteq Nat /\ E \subseteq Nat
  <2> HIDE DEF A, B, E
  <2>1. IsFiniteSet(1..Len(after)) /\ 1..Len(after) \subseteq Nat
    <3>1. Len(after) \in Int
      BY <1>1
    <3> QED  BY <3>1, FS_Interval
  <2>2. IsFiniteSet(A)
    BY <1>3, <2>1, FS_Subset
  <2>3. IsFiniteSet(B) /\ Cardinality(B) <= Cardinality(A)
    BY <1>3, <2>2, FS_Subset
  <2>4. IsFiniteSet(E)
    BY <1>3, <2>3, FS_Subset
  <2> QED  BY <1>3, <2>1, <2>2, <2>3, <2>4, FS_CardinalityType
<1> HIDE DEF before, after, limit
<1>5. CASE limit <= 0 \/ q.dep = Judge!Rec!None
  <2>1. rows = <<>>
    BY <1>1, <1>5 DEF Judge!Rec!RecallRejectionPatterns
  <2>2. q.dep = Judge!Rec!None => B = {}
    <3>1. \A r \in DOMAIN before : before[r] \in Judge!Rejection
      BY <1>1
    <3>2. \A x \in Judge!Rejection : x.dep # Judge!Rec!None
      BY DEF Judge!Rejection
    <3> QED  BY <3>1, <3>2
  <2>3. Judge!Rec!Smaller(limit, Cardinality(B)) <= 0
    <3>1. q.dep = Judge!Rec!None => Cardinality(B) = 0
      BY <2>2, FS_EmptySet
    <3> HIDE DEF B
    <3> QED  BY <1>1, <1>4, <1>5, <3>1 DEF Judge!Rec!Smaller
  <2>4. Judge!Rec!Larger(limit, 0) >= 0
    BY <1>1 DEF Judge!Rec!Larger
  <2>5. DOMAIN rows = {} /\ Len(rows) = 0
    BY <2>1
  <2>6. Judge!Rec!ToSet(rows) = {} /\ Judge!Rec!IsInjective(rows)
    BY <2>5 DEF Judge!Rec!ToSet, Judge!Rec!IsInjective
  <2> HIDE DEF rows
  <2> QED  BY <1>2, <2>3, <2>4, <2>5, <2>6 DEF Judge!Rec!RecallIsOfTheDep, rows, before, after, limit
<1>6. CASE limit > 0 /\ q.dep # Judge!Rec!None
  <2> DEFINE k == Len(exact)
             c == Judge!Rec!Smaller(limit, Cardinality(E))
  <2>1. /\ k \in Nat /\ exact \in [1..k -> E] /\ \A i, j \in 1..k : exact[i] = exact[j] => i = j
        /\ k <= limit /\ (q.change # Judge!Rec!None => k = c)
    <3>1. CASE q.change = Judge!Rec!None
      <4>1. exact = <<>>
        BY <3>1 DEF Judge!Rec!ExactMatches
      <4> HIDE DEF exact, E
      <4> QED  BY <1>1, <1>6, <3>1, <4>1
    <3>2. CASE q.change # Judge!Rec!None
      <4>1. exact = Judge!Rec!Take(Judge!Rec!NewestFirst(E), limit)
        BY <3>2 DEF Judge!Rec!ExactMatches
      <4>2. Judge!Rec!Smaller(Judge!Rec!Larger(limit, 0), Cardinality(E)) = c
        BY <1>1, <1>6 DEF Judge!Rec!Larger
      <4> HIDE DEF exact, E
      <4>3. c \in Nat /\ exact \in [1..c -> E] /\ \A i, j \in 1..c : exact[i] = exact[j] => i = j
        BY <1>1, <1>4, <4>1, <4>2, RowsAreTaken
      <4>4. k = c
        BY <4>3
      <4>5. c <= limit
        BY <1>1, <1>4 DEF Judge!Rec!Smaller
      <4> HIDE DEF c, k
      <4> QED  BY <4>3, <4>4, <4>5
    <3> QED  BY <3>1, <3>2
  <2> DEFINE X == Judge!Rec!ToSet(exact)
             R == A \ X
  <2>2. IsFiniteSet(X) /\ Cardinality(X) = k /\ X \subseteq E /\ \A i \in 1..k : exact[i] \in X
    <3> HIDE DEF exact, E
    <3>1. X = {exact[i] : i \in 1..k}
      BY <2>1 DEF Judge!Rec!ToSet
    <3>2. exact \in Surjection(1..k, X)
      BY <2>1, <3>1 DEF Surjection
    <3>3. exact \in Injection(1..k, X)
      BY <2>1, <3>1 DEF Injection, IsInjective
    <3>4. IsFiniteSet(1..k) /\ Cardinality(1..k) = k
      <4> HIDE DEF k
      <4> QED  BY <2>1, FS_Interval
    <3>5. IsFiniteSet(X) /\ Cardinality(X) = Cardinality(1..k)
      <4> HIDE DEF k, X
      <4> QED  BY <3>2, <3>3, <3>4, FS_Surjection
    <3> QED  BY <2>1, <3>1, <3>4, <3>5
  <2>3. IsFiniteSet(R) /\ Cardinality(R) = Cardinality(A) - k /\ R \subseteq Nat
    <3> HIDE DEF A, X, B, E
    <3>1. A \cap X = X
      BY <1>3, <2>2
    <3>2. IsFiniteSet(R) /\ Cardinality(R) = Cardinality(A) - Cardinality(A \cap X)
      BY <1>4, FS_Difference
    <3> QED  BY <1>4, <2>2, <3>1, <3>2
  <2> DEFINE m == Len(rows)
  <2>4. /\ m \in Nat /\ rows \in [1..m -> A] /\ \A i, j \in 1..m : rows[i] = rows[j] => i = j
        /\ m <= limit /\ (m = limit \/ m >= Cardinality(A)) /\ k <= m
        /\ \A i \in 1..k : rows[i] = exact[i]
    <3>1. CASE k >= limit
      <4>1. rows = exact
        BY <1>1, <1>6, <3>1 DEF Judge!Rec!RecallRejectionPatterns
      <4>2. m = k
        BY <4>1
      <4> HIDE DEF rows, exact, A, E, B, k, m
      <4>3. k = limit
        BY <1>1, <2>1, <3>1
      <4>4. rows \in [1..m -> A]
        BY <1>3, <2>1, <4>1, <4>2
      <4> QED  BY <2>1, <4>1, <4>2, <4>3, <4>4
    <3>2. CASE ~(k >= limit)
      <4> DEFINE f == Judge!Rec!Smaller(limit - k, Cardinality(R))
      <4>1. rows = exact \o fill
        BY <1>1, <1>6, <2>1, <3>2 DEF Judge!Rec!RecallRejectionPatterns
      <4>2. fill = Judge!Rec!Take(Judge!Rec!NewestFirst(R), limit - k)
        BY DEF Judge!Rec!Backfill
      <4> HIDE DEF rows, exact, fill, A, E, B, X, R
      <4>3. limit - k \in Int /\ limit - k > 0
        BY <1>1, <2>1, <3>2
      <4>4. Judge!Rec!Smaller(Judge!Rec!Larger(limit - k, 0), Cardinality(R)) = f
        BY <4>3 DEF Judge!Rec!Larger
      <4>5. f \in Nat /\ fill \in [1..f -> R] /\ \A i, j \in 1..f : fill[i] = fill[j] => i = j
        BY <2>3, <4>2, <4>3, <4>4, RowsAreTaken
      <4>6. f <= limit - k /\ (f = limit - k \/ f = Cardinality(R))
        BY <1>4, <2>1, <2>3, <4>3 DEF Judge!Rec!Smaller
      <4> HIDE DEF f, k
      <4>7. exact \in Seq(E) /\ fill \in Seq(R) /\ Len(exact) = k /\ Len(fill) = f
        BY <2>1, <4>5
      <4>8. /\ Len(rows) = k + f /\ rows \in [1..(k + f) -> E \cup R]
            /\ \A i \in 1..k : rows[i] = exact[i]
            /\ \A i \in 1..(k + f) : i > k => i - k \in 1..f /\ rows[i] = fill[i - k]
        <5>1. exact \in Seq(E \cup R) /\ fill \in Seq(E \cup R)
          BY <4>7
        <5>2. /\ rows \in Seq(E \cup R) /\ Len(rows) = k + f
              /\ \A i \in 1..k : rows[i] = exact[i]
              /\ \A y \in 1..f : rows[k + y] = fill[y]
          <6> DEFINE U == E \cup R
                     w == exact \o fill
          <6>1. exact \in Seq(U) /\ fill \in Seq(U)
            BY <5>1
          <6> HIDE DEF U
          <6>2. /\ w \in Seq(U) /\ Len(w) = Len(exact) + Len(fill)
                /\ \A i \in 1..Len(exact) : w[i] = exact[i]
                /\ \A i \in 1..Len(fill) : w[Len(exact) + i] = fill[i]
            BY <6>1, Joined
          <6> HIDE DEF w
          <6>3. rows = w
            BY <4>1 DEF w
          <6>4. /\ w \in Seq(U) /\ Len(w) = k + f
                /\ \A i \in 1..k : w[i] = exact[i]
                /\ \A y \in 1..f : w[k + y] = fill[y]
            BY <4>7, <6>2
          <6> QED  BY <6>3, <6>4 DEF U
        <5>3. ASSUME NEW i \in 1..(k + f), i > k
              PROVE  i - k \in 1..f /\ rows[i] = fill[i - k]
          <6>1. i - k \in 1..f /\ k + (i - k) = i
            BY <2>1, <4>5, <5>3
          <6> QED  BY <5>2, <6>1
        <5>4. rows \in [1..(k + f) -> E \cup R]
          BY <5>2
        <5> QED  BY <5>2, <5>3, <5>4
      <4>9. E \cup R \subseteq A
        BY <1>3 DEF R
      <4>10. ASSUME NEW i \in 1..(k + f), NEW j \in 1..(k + f), rows[i] = rows[j]
             PROVE  i = j
        <5>1. CASE i <= k /\ j <= k
          BY <2>1, <4>5, <4>8, <4>10, <5>1
        <5>2. CASE i > k /\ j > k
          BY <2>1, <4>5, <4>8, <4>10, <5>2
        <5>3. \A x \in 1..k, y \in 1..f : exact[x] # fill[y]
          BY <2>2, <4>5 DEF R
        <5>4. CASE i <= k /\ j > k
          <6>1. i \in 1..k
            BY <2>1, <4>5, <5>4
          <6> QED  BY <4>8, <4>10, <5>3, <5>4, <6>1
        <5>5. CASE i > k /\ j <= k
          <6>1. j \in 1..k
            BY <2>1, <4>5, <5>5
          <6> QED  BY <4>8, <4>10, <5>3, <5>5, <6>1
        <5> QED  BY <2>1, <4>5, <5>1, <5>2, <5>4, <5>5
      <4>11. m = k + f
        BY <4>8
      <4>12. m <= limit /\ (m = limit \/ m >= Cardinality(A)) /\ k <= m /\ m \in Nat
        <5> HIDE DEF m, c
        <5>1. limit \in Int /\ Cardinality(A) \in Nat /\ k \in Nat /\ f \in Nat /\ k <= limit
          BY <1>1, <1>4, <2>1, <4>5
        <5>2. f <= limit - k /\ (f = limit - k \/ f = Cardinality(A) - k)
          BY <2>3, <4>6
        <5> QED  BY <4>11, <5>1, <5>2
      <4> HIDE DEF m
      <4> QED  BY <4>8, <4>9, <4>10, <4>11, <4>12
    <3> QED  BY <3>1, <3>2
  <2> HIDE DEF rows, exact, fill, A, B, E, k, R, X
  <2>5. Judge!Rec!IsInjective(rows) /\ Judge!Rec!ToSet(rows) \subseteq A
    BY <2>4 DEF Judge!Rec!IsInjective, Judge!Rec!ToSet
  <2>6. m <= Judge!Rec!Larger(limit, 0)
    <3> HIDE DEF m
    <3> QED  BY <1>1, <1>6, <2>4 DEF Judge!Rec!Larger
  <2>7. m >= Judge!Rec!Smaller(limit, Cardinality(B))
    <3> HIDE DEF m
    <3> QED  BY <1>1, <1>4, <2>4 DEF Judge!Rec!Smaller
  <2>8. ASSUME q.change # Judge!Rec!None, NEW i \in DOMAIN rows, i <= c
        PROVE  rows[i] \in E
    <3>1. i \in 1..k
      <4> HIDE DEF m, c
      <4> QED  BY <2>1, <2>4, <2>8
    <3> QED  BY <2>1, <2>4, <3>1
  <2> HIDE DEF c, m
  <2>9. /\ Judge!Rec!IsInjective(rows) /\ Judge!Rec!ToSet(rows) \subseteq A
        /\ Len(rows) <= Judge!Rec!Larger(limit, 0)
        /\ Len(rows) >= Judge!Rec!Smaller(limit, Judge!Rec!Cardinality(B))
        /\ q.change # Judge!Rec!None =>
             \A i \in DOMAIN rows : i <= Judge!Rec!Smaller(limit, Judge!Rec!Cardinality(E)) => rows[i] \in E
    BY <1>2, <2>5, <2>6, <2>7, <2>8 DEF c, m
  <2> QED  BY <2>9, Zenon DEF Judge!Rec!RecallIsOfTheDep, rows, before, after, limit, A, B, E
<1> QED  BY <1>1, <1>5, <1>6

-----------------------------------------------------------------------------

\* Whatever is asked, of whatever size, no verdict is given without its
\* evidence (lib/sandbox, lib/agent/lang, signals.ts, rejection-recall.ts,
\* inspect.ts, eligibility-preview.ts, issue-link.ts).
THEOREM Verdicts == VerdictSpec => []VerdictsAreEarned
<1>1. ASSUME NEW q \in Judge!Question
      PROVE  Judge!Earned(q)
  <2>1. CASE q \in [kind : {"tools"}, repo : Judge!ToolRepo, other : Judge!ToolRepo]
    BY <2>1, ToolsAreFit DEF Judge!Earned
  <2>2. CASE q \in [kind : {"phases"}, repo : Judge!ToolRepo, smoke : Judge!Smoke, run : Judge!Boot,
                    outcome : Judge!End]
    BY <2>2, PhasesHonest DEF Judge!Earned
  <2>3. CASE q \in [kind : {"analyzer"}, lang : Judge!Analyzers, before : Judge!Docker, after : Judge!Docker]
    BY <2>3, OutputsArePrinted DEF Judge!Earned
  <2>4. CASE q \in [kind : {"diff"}, lang : Judge!Analyzers, image : BOOLEAN, out : Judge!Output]
    BY <2>4, DiffsAreEarned DEF Judge!Earned
  <2>5. CASE q \in [kind : {"adapter"}, files : SUBSET STRING]
    BY <2>5, AdapterOwns DEF Judge!Earned
  <2>6. CASE q \in [kind : {"order"}, u : Judge!Version, v : Judge!Version, w : Judge!Version]
    BY <2>6, BehindIsOrder DEF Judge!Earned
  <2>7. CASE q \in [kind : {"preview"}, repo : Judge!GovRepo, issues : Seq(Judge!Issue), down : SUBSET Judge!Reads]
    BY <2>7, PreviewAgrees DEF Judge!Earned
  <2>8. CASE q \in [kind : {"link"}, issues : Seq(Judge!Issue), name : Judge!Name]
    BY <2>8, LinksAreFound DEF Judge!Earned
  <2>9. CASE q \in [kind : {"sites"}, repo : Judge!Sources, pkg : STRING, symbols : SUBSET STRING]
    BY <2>9, SitesAreListed DEF Judge!Earned
  <2>10. CASE q \in [kind : {"bump"}, entries : Seq(Judge!Entry), name : STRING, latest : STRING]
    BY <2>10, BumpsAreExact DEF Judge!Earned
  <2>11. CASE q \in Judge!Recalled
    <3>1. q.kind = "recall"
      BY <2>11 DEF Judge!Recalled
    <3>2. Judge!Rec!RecallIsOfTheDep(q.before, q.after, q.dep, q.change, q.limit)
      BY <2>11, RecallsAreOfTheDep
    <3> QED  BY <3>1, <3>2 DEF Judge!Earned
  <2>12. CASE q \in [kind : {"inspection"}, pat : BOOLEAN, changelog : Judge!Changelog, diff : Judge!Semantic,
                     rows : Judge!Stored, body : [valid : BOOLEAN, same : BOOLEAN], saves : BOOLEAN]
    <3>1. q.kind = "inspection"
      BY <2>12
    <3>2. Judge!Rep!InspectionIsModest(q.pat, q.changelog, q.diff, q.rows, q.body, q.saves)
      BY <2>12, InspectionsAreModest
    <3> QED  BY <3>1, <3>2 DEF Judge!Earned
  <2> QED  BY <2>1, <2>2, <2>3, <2>4, <2>5, <2>6, <2>7, <2>8, <2>9, <2>10, <2>11, <2>12 DEF Judge!Question
<1>2. Judge!Earned(Judge!NoTask)
  BY DEF Judge!Earned, Judge!NoTask
<1>3. Judge!VerdictInit => Judge!VerdictsAreEarned
  BY <1>2 DEF Judge!VerdictInit, Judge!VerdictsAreEarned
<1>4. Judge!VerdictsAreEarned /\ [Judge!VerdictNext]_task => Judge!VerdictsAreEarned'
  <2>1. Questions \subseteq Judge!Question
    BY PartsAssumption DEF Judge!VerdictAssumption
  <2>2. CASE Judge!VerdictNext
    <3>1. Judge!Earned(task')
      BY <1>1, <2>1, <2>2 DEF Judge!VerdictNext
    <3> QED  BY <3>1 DEF Judge!VerdictsAreEarned
  <2>3. CASE task' = task
    BY <2>3 DEF Judge!VerdictsAreEarned
  <2> QED  BY <2>2, <2>3
<1> QED  BY <1>3, <1>4, PTL DEF VerdictSpec, VerdictsAreEarned
=============================================================================
