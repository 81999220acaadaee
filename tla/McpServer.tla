------------------------------ MODULE McpServer ------------------------------
(***************************************************************************)
(* The MCP server (mcp/server.ts) and its tools (lib/mcp/tools.ts): calls  *)
(* of a client, several at a time, that read the tables or start a scan,   *)
(* while the scans the server has started go on writing them.              *)
(*                                                                         *)
(* A scan is seen through its row and its Issue rows only (ScanRunner has  *)
(* the rest): it runs, stores its issues one by one, and writes its row.   *)
(***************************************************************************)
EXTENDS Integers, Sequences, FiniteSets

CONSTANTS
    Calls,      \* the calls a client makes
    Asked,      \* the filters it gives to mendel.scan.list
    PageSize,   \* the limit of a list
    MaxScans,   \* bounds the scans started
    Issues      \* how many issues a scan that completes stores


VARIABLES
    scans,    \* the Scan rows in the order of startedAt
    calls     \* call |-> how far it is and what it has read

mcpVars == <<scans, calls>>

ReadTools == {"mendel.health", "mendel.scan.list", "mendel.scan.get", "mendel.inspect.list",
              "mendel.automerge.get-verdict", "mendel.monitor.list"}
ActionTools == {"mendel.scan.start", "mendel.inspect.run"}

Statuses == {"queued", "running", "completed", "failed"}
Filters == Statuses \cup {"any"}

McpAssumption ==
    /\ Asked \subseteq Filters
    /\ PageSize \in Nat \ {0} /\ MaxScans \in Nat /\ Issues \in Nat

\* filter and known are of mendel.scan.list: the status asked for, and the rows
\* that had it when the call was made (history).
Idle == [tool |-> "none", step |-> "none", scan |-> 0, filter |-> "any", rows |-> {},
         known |-> {}, total |-> 0, status |-> "none", issues |-> 0]

\* The call asks for the rows, and for their number.
Unread == -1

McpInit == scans = <<>> /\ calls = [c \in Calls |-> Idle]

\* The where clause of mendel.scan.list.
Fits(i, filter) == filter = "any" \/ scans[i].status = filter
Matching(filter) == {i \in DOMAIN scans : Fits(i, filter)}

-----------------------------------------------------------------------------
(* Calls *)

\* defineTool and startMcpServer: the schema is parsed before the handler
\* runs; whatever the handler throws becomes an error result.
Invoke(c) ==
    /\ calls[c].step = "none"
    /\ \/ \E tool \in ReadTools \cup ActionTools, i \in 1..Len(scans) + 1,
             f \in Asked \cup {"any"} :
            /\ tool # "mendel.scan.list" => f = "any"
            /\ calls' = [calls EXCEPT ![c] = [Idle EXCEPT
                 !.tool = tool, !.step = "handler", !.total = Unread, !.issues = Unread,
                 !.scan = IF tool = "mendel.scan.get" THEN i ELSE 0,
                 !.filter = f,
                 !.known = IF tool = "mendel.scan.list" THEN Matching(f) ELSE {}]]
       \/ calls' = [calls EXCEPT ![c].step = "error"]   \* the input does not parse
    /\ UNCHANGED scans

Answer(c, call) == calls' = [calls EXCEPT ![c] = [call EXCEPT !.step = "answered"]]
In(c, tool) == calls[c].step = "handler" /\ calls[c].tool = tool

\* A query of the handler, or inspectApi, rejects.
Throws(c) ==
    /\ calls[c].step = "handler" /\ calls[c].tool # "mendel.health"
    /\ calls' = [calls EXCEPT ![c] = [Idle EXCEPT !.step = "error"]]
    /\ UNCHANGED scans

\* Handlers with one await at most, and mendel.inspect.list, whose queries are
\* those of mendel.scan.list over a table whose rows never change.
Simple(c) ==
    /\ \E tool \in {"mendel.health", "mendel.automerge.get-verdict", "mendel.monitor.list",
                    "mendel.inspect.run", "mendel.inspect.list"} : In(c, tool)
    /\ Answer(c, calls[c])
    /\ UNCHANGED scans

\* mendel.scan.list: the newest of the rows that match and the count of all that
\* match are two queries of one Promise.all.
IsPage(page, matching) ==
    /\ page \subseteq matching
    /\ \A i \in page, j \in matching \ page : i > j
    /\ Cardinality(page) = PageSize \/ (page = matching /\ Cardinality(page) < PageSize)

ListRows(c) ==
    /\ In(c, "mendel.scan.list") /\ calls[c].status = "none"
    /\ \E page \in SUBSET Matching(calls[c].filter) :
         /\ IsPage(page, Matching(calls[c].filter))
         /\ calls' = [calls EXCEPT ![c].rows = page, ![c].status = "listed"]
    /\ UNCHANGED scans

ListCount(c) ==
    /\ In(c, "mendel.scan.list") /\ calls[c].total = Unread
    /\ calls' = [calls EXCEPT ![c].total = Cardinality(Matching(calls[c].filter))]
    /\ UNCHANGED scans

ListAnswer(c) ==
    /\ calls[c].step = "handler" /\ calls[c].status = "listed" /\ calls[c].total # Unread
    /\ Answer(c, calls[c])
    /\ UNCHANGED scans

\* mendel.scan.get: the row is read first and the issues after it.
BugReady(call) == call.issues # Unread
Ready(call) == TRUE

GetScan(c) ==
    /\ In(c, "mendel.scan.get") /\ calls[c].status = "none" /\ Ready(calls[c])
    /\ IF calls[c].scan \notin DOMAIN scans
       THEN Answer(c, [calls[c] EXCEPT !.status = "not found"])
       ELSE calls' = [calls EXCEPT ![c].status = scans[calls[c].scan].status]
    /\ UNCHANGED scans

GetIssues(c) ==
    /\ In(c, "mendel.scan.get") /\ calls[c].issues = Unread
    /\ calls[c].scan \in DOMAIN scans
    /\ calls[c].status # "none" \/ ~Ready(calls[c])
    /\ calls' = [calls EXCEPT ![c].issues = scans[calls[c].scan].issues]
    /\ UNCHANGED scans

GetAnswer(c) ==
    /\ In(c, "mendel.scan.get") /\ calls[c].status # "none" /\ calls[c].issues # Unread
    /\ Answer(c, calls[c])
    /\ UNCHANGED scans

\* mendel.scan.start: the row is created with the encrypted token, runScan is
\* not awaited, and the answer names the row.
StartScan(c) ==
    /\ In(c, "mendel.scan.start") /\ Len(scans) < MaxScans
    /\ scans' = Append(scans, [status |-> "queued", issues |-> 0])
    /\ Answer(c, [calls[c] EXCEPT !.scan = Len(scans) + 1])

\* The client has the answer and may call again.
Done(c) ==
    /\ calls[c].step \in {"answered", "error"}
    /\ calls' = [calls EXCEPT ![c] = Idle]
    /\ UNCHANGED scans

-----------------------------------------------------------------------------
(* runScan in the background *)

Run(i) == \/ /\ scans[i].status = "queued"
             /\ scans' = [scans EXCEPT ![i].status = "running"]
          \/ /\ scans[i].status = "running" /\ scans[i].issues < Issues
             /\ scans' = [scans EXCEPT ![i].issues = @ + 1]
          \/ /\ scans[i].status = "running" /\ scans[i].issues = Issues
             /\ scans' = [scans EXCEPT ![i].status = "completed"]
          \/ /\ scans[i].status \in {"queued", "running"}
             /\ scans' = [scans EXCEPT ![i].status = "failed"]

McpNext ==
    \/ \E c \in Calls :
         \/ Invoke(c) \/ Throws(c) \/ Simple(c) \/ ListRows(c) \/ ListCount(c) \/ ListAnswer(c)
         \/ GetScan(c) \/ GetIssues(c) \/ GetAnswer(c) \/ StartScan(c) \/ Done(c)
    \/ \E i \in DOMAIN scans : Run(i) /\ UNCHANGED calls

-----------------------------------------------------------------------------
(* Properties *)

\* Of the rows that matched when the list was asked for, those that still do.
Kept(call) == {i \in call.known : Fits(i, call.filter)}

\* The queries of a call are no snapshot, and yet: a scan shown as completed
\* is shown with all of its issues; a page that is not full holds every row
\* that has matched since the call was made, and the total never counts fewer
\* rows than these; a scan that was started has a row.
AnswersAreWhole == \A c \in Calls : LET call == calls[c] IN call.step = "answered" =>
    /\ call.tool = "mendel.scan.get" /\ call.status = "completed" => call.issues = Issues
    /\ call.tool = "mendel.scan.list" =>
         /\ Cardinality(call.rows) < PageSize => Kept(call) \subseteq call.rows
         /\ call.total >= Cardinality(Kept(call))
    /\ call.tool = "mendel.scan.start" => call.scan \in DOMAIN scans

\* What the comment of the module promises: "List endpoints carry a `total` field
\* so the client can detect pagination overflow": a total that is no more than
\* the rows shown means that none is missing.  Not true of the code: rows start
\* or stop to match between the two queries.
TotalShowsOverflow == \A c \in Calls : LET call == calls[c] IN
    call.step = "answered" /\ call.tool = "mendel.scan.list" =>
      call.total > Cardinality(call.rows) \/ Kept(call) \subseteq call.rows
=============================================================================
