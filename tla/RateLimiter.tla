----------------------------- MODULE RateLimiter -----------------------------
(***************************************************************************)
(* checkRateLimit and applyRateLimit of lib/rate-limit.ts: a fixed window  *)
(* per preset and address, in the memory of one process.                   *)
(***************************************************************************)
EXTENDS Naturals, FiniteSets, Sequences

CONSTANTS
    Presets,   \* the LIMITS: preset |-> limit
    Window,    \* windowMs
    Ips,       \* the addresses getClientIp tells apart
    MaxClock   \* bounds Date.now()

RateAssumption ==
    /\ \A p \in DOMAIN Presets : Presets[p] \in Nat \ {0}
    /\ Window \in Nat \ {0} /\ MaxClock \in Nat

VARIABLES
    clock,      \* Date.now()
    store,      \* key |-> entry of the current window, or None
    admitted    \* history: key |-> the times at which requests were let through

rateVars == <<clock, store, admitted>>

None == [count |-> 0, resetAt |-> 0]
Keys == (DOMAIN Presets) \X Ips

RateInit ==
    /\ clock = 1
    /\ store = [k \in Keys |-> None]
    /\ admitted = [k \in Keys |-> <<>>]

-----------------------------------------------------------------------------
(* Steps *)

\* A window ends after resetAt: at that very moment it still counts, and the
\* refusal then says to retry after 0 seconds.
BugExpired(e) == e.resetAt <= clock + 1
Expired(e) == e.resetAt < clock

\* checkRateLimit lets the request through, in a new window or in this one.
Admit(k) ==
    LET entry == store[k]
        fresh == entry = None \/ Expired(entry) IN
    /\ fresh \/ entry.count < Presets[k[1]]
    /\ store' = [store EXCEPT ![k] =
         IF fresh THEN [count |-> 1, resetAt |-> clock + Window]
         ELSE [entry EXCEPT !.count = @ + 1]]
    /\ admitted' = [admitted EXCEPT ![k] = Append(@, clock)]
    /\ UNCHANGED clock

\* A refused request leaves the window as it is; so it is no step.
Refused(k) == store[k] # None /\ ~Expired(store[k]) /\ store[k].count >= Presets[k[1]]

\* The timer of every five minutes.
Prune ==
    /\ store' = [k \in Keys |-> IF store[k] # None /\ Expired(store[k]) THEN None ELSE store[k]]
    /\ store' # store
    /\ UNCHANGED <<clock, admitted>>

Tick ==
    /\ clock < MaxClock /\ clock' = clock + 1
    /\ UNCHANGED <<store, admitted>>

RateNext == (\E k \in Keys : Admit(k)) \/ Prune \/ Tick

-----------------------------------------------------------------------------
(* Properties *)

AdmittedIn(k, from, to) ==
    Cardinality({i \in DOMAIN admitted[k] : admitted[k][i] \in from..to})

\* No client gets more than twice the limit of a preset into any window of
\* time, wherever it starts and whenever the timer prunes, and a client who is
\* refused has used its limit up within the last window; what one address or
\* preset spends is not charged to another.
RateHolds == \A k \in Keys :
    /\ \A t \in 0..MaxClock :
         AdmittedIn(k, t, t + Window) <= 2 * Presets[k[1]]
    /\ Refused(k) =>
         \E t \in 0..clock : t + Window >= clock /\ AdmittedIn(k, t, clock) >= Presets[k[1]]
=============================================================================
