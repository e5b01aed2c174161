--------------------------- MODULE VerifierReport ---------------------------
(***************************************************************************)
(* What a failed verifier run tells the policy: environment.py lifts a few *)
(* lines out of what pytest printed.  A line is a record:                  *)
(*   [says |-> "node", of]     FAILED or ERROR and a path or a node id     *)
(*   [says |-> "log", of]      a captured log line, ERROR and a logger     *)
(*   [says |-> "raised", of]   E and an exception                          *)
(*   [says |-> "diff"]         E and a line of an assertion's difference   *)
(*   [says |-> "frame", of, own]  > a statement, and its path: own if it   *)
(*                             is relative and not of site-packages        *)
(*   [says |-> "string", of]   name = 'value'                              *)
(* Lengths count lines.                                                    *)
(***************************************************************************)
EXTENDS Arrangements

CONSTANTS
    NamedNodes,    \* scale: failing tests that are named (4)
    NamedLogs,     \* scale: logged errors that are named (2)
    NamedStrings,  \* scale: strings that are named (4)
    SummaryItems   \* scale: characters of the summary (700)

ASSUME ReportAssumption ==
    /\ NamedNodes \in Nat \ {0} /\ NamedLogs \in Nat /\ NamedStrings \in Nat
    /\ SummaryItems \in Nat \ {0}

Printed(text, kind) == Having(text, LAMBDA line : line.says = kind)

FinalOf(s) == IF s = <<>> THEN <<>> ELSE <<Last(s)>>

\* other in detail
Within(other, detail) ==
    \E i \in 0 .. Len(detail) : i + Len(other) <= Len(detail)
                                /\ SubSeq(detail, i + 1, i + Len(other)) = other

\* Mutant: stderr, when there is one.
StreamsOfStderr(stdout, stderr) == IF stderr # <<>> THEN stderr ELSE stdout

\* verifier_output_streams: the longer stream, and the other when it adds something.
Streams(stdout, stderr) ==
    LET detail == IF Len(stderr) > Len(stdout) THEN stderr ELSE stdout
        other  == IF detail = stdout THEN stderr ELSE stdout
    IN  IF Within(other, detail) THEN detail ELSE detail \o other

\* failing_nodes: only a token that names a path or a node id.
FailingNodes(text) == Distinct(Printed(text, "node"))

\* raised_line: the last exception, not the difference under it.
RaisedLine(text) == FinalOf(Printed(text, "raised"))

\* The last frame in the repository.
FailingStatement(text) ==
    FinalOf(Having(text, LAMBDA line : line.says = "frame" /\ line.own))

\* logged_error_line
LoggedErrors(text) == FirstOf(Distinct(Printed(text, "log")), NamedLogs)

\* Strings of every frame that was printed, from the first on.
FrameStrings(text) == FirstOf(Distinct(Printed(text, "string")), NamedStrings)

\* failure_summary: what does not fit is cut off at its end.
FailureSummary(stdout, stderr) ==
    LET text == Streams(stdout, stderr)
    IN  FirstOf(FirstOf(FailingNodes(text), NamedNodes) \o FailingStatement(text)
                 \o RaisedLine(text) \o LoggedErrors(text) \o FrameStrings(text),
               SummaryItems)

----------------------------------------------------------------------------
\* failing_nodes: "a logged error cannot displace the node the run actually failed on", and
\* verifier_output_streams: preferring one stream "hid the traceback the policy needed".  If
\* either stream names a node that failed, so does the summary, before anything else; if
\* either holds an exception, an exception of the run is there unless the nodes fill it.
FailureIsNamed(stdout, stderr) ==
    LET summary == FailureSummary(stdout, stderr)
        named(kind) == ToSet(Printed(summary, kind))
        run(kind)   == ToSet(Printed(stdout, kind) \o Printed(stderr, kind))
    IN  /\ run("node") # {} => summary # <<>> /\ Head(summary) \in run("node")
        /\ run("raised") # {} /\ Len(summary) < SummaryItems => named("raised") # {}

\* failure_summary: "the short string values in the failing frame".  The strings that are
\* named were printed for the frame whose statement is named.
StringsAreOfTheFailingFrame(stdout, stderr) ==
    LET text == Streams(stdout, stderr)
        of(i) == {j \in DOMAIN text : /\ j > i /\ text[j].says = "frame"
                                      /\ \A k \in i .. j - 1 : text[k].says # "frame"}
    IN  \A i \in DOMAIN text, line \in ToSet(FailingStatement(text)) :
           /\ text[i].says = "string" /\ Contains(FailureSummary(stdout, stderr), text[i])
           => \A j \in of(i) : text[j] = line
=============================================================================
