--------------------------- MODULE ScanLifecycle ----------------------------
(***************************************************************************)
(* What a scan promises to whoever started it, without a word about how it *)
(* is carried out.  It is accepted, it begins, it may open pull requests,  *)
(* and it ends in one of two ways: it is recorded as completed, does no    *)
(* more and says so, or it announces an error, does no more and is at some *)
(* point recorded as failed or, if it was told to stop, as cancelled.      *)
(* ScanRunner is shown to implement this specification.                    *)
(***************************************************************************)
CONSTANTS Scans, PRIds

VARIABLES status,    \* what the database says of a scan
          told,      \* the terminal event its listeners were sent
          asked,     \* scans with a stop request that is pending or was heeded
          delivered  \* pull requests open on GitHub, with the scan that did it

vars == <<status, told, asked, delivered>>

TypeOK ==
  /\ status \in [Scans -> {"none", "queued", "running",
                           "completed", "failed", "cancelled"}]
  /\ told \in [Scans -> {"none", "done", "error"}]
  /\ asked \subseteq Scans
  /\ delivered \subseteq Scans \X PRIds

Init ==
  /\ status = [s \in Scans |-> "none"]
  /\ told = [s \in Scans |-> "none"]
  /\ asked = {}
  /\ delivered = {}

Accept(s) ==
  /\ status[s] = "none"
  /\ status' = [status EXCEPT ![s] = "queued"]
  /\ UNCHANGED <<told, asked, delivered>>

Begin(s) ==
  /\ status[s] = "queued"
  /\ told[s] = "none"
  /\ status' = [status EXCEPT ![s] = "running"]
  /\ UNCHANGED <<told, asked, delivered>>

Deliver(s, p) ==
  /\ status[s] = "running"
  /\ told[s] = "none"
  /\ delivered' = delivered \union {<<s, p>>}
  /\ UNCHANGED <<status, told, asked>>

\* The stop request may come at any time, and be forgotten with the process.
AskToStop(s) ==
  /\ asked' = asked \union {s}
  /\ UNCHANGED <<status, told, delivered>>

Forget ==
  /\ asked' \subseteq asked
  /\ UNCHANGED <<status, told, delivered>>

Complete(s) ==
  /\ status[s] = "running"
  /\ told[s] = "none"
  /\ status' = [status EXCEPT ![s] = "completed"]
  /\ UNCHANGED <<told, asked, delivered>>

SayDone(s) ==
  /\ status[s] = "completed"
  /\ told[s] = "none"
  /\ told' = [told EXCEPT ![s] = "done"]
  /\ asked' \subseteq asked
  /\ UNCHANGED <<status, delivered>>

GiveUp(s) ==
  /\ status[s] \in {"queued", "running"}
  /\ told[s] = "none"
  /\ told' = [told EXCEPT ![s] = "error"]
  /\ UNCHANGED <<status, asked, delivered>>

Record(s) ==
  /\ status[s] \in {"queued", "running"}
  /\ told[s] = "error"
  /\ \/ status' = [status EXCEPT ![s] = "failed"]
     \/ s \in asked /\ status' = [status EXCEPT ![s] = "cancelled"]
  /\ asked' \subseteq asked
  /\ UNCHANGED <<told, delivered>>

Next ==
  \/ \E s \in Scans : \/ Accept(s) \/ Begin(s) \/ AskToStop(s)
                      \/ Complete(s) \/ SayDone(s) \/ GiveUp(s) \/ Record(s)
                      \/ \E p \in PRIds : Deliver(s, p)
  \/ Forget

Spec == Init /\ [][Next]_vars
=============================================================================
