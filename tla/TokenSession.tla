---------------------------- MODULE TokenSession ----------------------------
(***************************************************************************)
(* The GitHub token of a browser session: the connect page, the token form *)
(* of the settings page, and the route that asks GitHub about a token      *)
(* (api/validate-pat/route.ts).  The scan form reads it from sessionStorage*)
(***************************************************************************)
EXTENDS Naturals, FiniteSets

CONSTANTS
    Tokens,          \* what a user may type
    MaxTokenSteps    \* bounds the clicks and GitHub's revocations

NoToken == "no token"
Masked == "masked"   \* the field after a mount with a stored token

TokenAssumption == {NoToken, Masked} \cap Tokens = {} /\ MaxTokenSteps \in Nat

VARIABLES
    stored,      \* sessionStorage's mendel_pat
    field,       \* pat, the text of the input
    hasToken,    \* what the settings page believes
    info,        \* the token that "authenticated as" is about
    asked,       \* the request to the route: who sent it and the token, or NoRequest
    live,        \* the tokens GitHub accepts
    proven,      \* history: the tokens GitHub has accepted when asked
    taps

tokenVars == <<stored, field, hasToken, info, asked, live, proven, taps>>

NoRequest == [by |-> "none", token |-> NoToken]

TokenInit ==
    /\ stored = NoToken /\ field = NoToken /\ hasToken = FALSE /\ info = NoToken
    /\ asked = NoRequest /\ live = Tokens /\ proven = {} /\ taps = 0

Tap == taps < MaxTokenSteps /\ taps' = taps + 1

-----------------------------------------------------------------------------
(* Steps *)

Mount ==
    /\ Tap /\ asked = NoRequest
    /\ hasToken' = (stored # NoToken)
    /\ field' = IF stored # NoToken THEN Masked ELSE NoToken
    /\ info' = NoToken
    /\ UNCHANGED <<stored, asked, live, proven>>

Write(t) ==
    /\ Tap /\ field' = t
    /\ UNCHANGED <<stored, hasToken, info, asked, live, proven>>

\* handleSave of the settings and handleConnect of the connect page.  A masked
\* token is not sent, and the buttons are disabled while a request is pending.
Submit(by) ==
    /\ Tap /\ asked = NoRequest
    /\ field \in Tokens
    /\ asked' = [by |-> by, token |-> field]
    /\ UNCHANGED <<stored, field, hasToken, info, live, proven>>

\* handleValidate.
Revalidate ==
    /\ Tap /\ asked = NoRequest /\ stored # NoToken /\ hasToken
    /\ asked' = [by |-> "validate", token |-> stored]
    /\ UNCHANGED <<stored, field, hasToken, info, live, proven>>

\* The route asked GitHub, which knows the token.
Accepted ==
    /\ asked # NoRequest /\ asked.token \in live
    /\ stored' = IF asked.by = "validate" THEN stored ELSE asked.token
    /\ hasToken' = IF asked.by = "settings" THEN TRUE ELSE hasToken
    /\ info' = IF asked.by = "connect" THEN info ELSE asked.token
    /\ proven' = proven \cup {asked.token}
    /\ asked' = NoRequest
    /\ UNCHANGED <<field, live, taps>>

\* GitHub refused the token, or somewhere on the way the network failed.
\* Mutant: "accept anything on network error".
BugKeptOnFailure(a) == IF a.by = "validate" THEN stored ELSE a.token
KeptOnFailure(a) == stored

Refused ==
    /\ asked # NoRequest
    /\ stored' = KeptOnFailure(asked)
    /\ asked' = NoRequest
    /\ UNCHANGED <<field, hasToken, info, live, proven, taps>>

\* handleRevoke; it does not wait for a pending request.
Revoke ==
    /\ Tap /\ hasToken
    /\ stored' = NoToken /\ field' = NoToken /\ hasToken' = FALSE /\ info' = NoToken
    /\ UNCHANGED <<asked, live, proven>>

\* The token expires at GitHub.
Expire ==
    /\ Tap
    /\ \E t \in live : live' = live \ {t}
    /\ UNCHANGED <<stored, field, hasToken, info, asked, proven>>

TokenNext ==
    \/ Mount \/ (\E t \in Tokens : Write(t))
    \/ (\E by \in {"settings", "connect"} : Submit(by))
    \/ Revalidate \/ Accepted \/ Refused \/ Revoke \/ Expire

-----------------------------------------------------------------------------
(* Properties *)

\* A token reaches the session, and the name shown beside it, only after
\* GitHub has accepted that very token, whatever was typed, revoked or expired
\* while the answer was on its way ("do NOT fall through to accept anything on
\* network error").
OnlyProvenTokens == {stored, info} \subseteq proven \cup {NoToken}
=============================================================================
