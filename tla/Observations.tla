--------------------------- MODULE Observations ----------------------------
(***************************************************************************)
(* What a policy is told of a file, of a repository and of a failed test   *)
(* run, and what an edit then does.  The policy calls a tool, takes its    *)
(* observation in, and calls the next.  Refusals that ToolEnvironment has  *)
(* (protected files, unread ranges, the loop guard) are left out here: the *)
(* calls are those that reach the file.                                    *)
(***************************************************************************)
EXTENDS FileEdits, SearchText, VerifierReport

CONSTANTS
    Contents,      \* what the file may hold at first
    Olds, News,    \* arguments of the edits
    Ranges,        \* line ranges a policy may name
    Repositories,  \* what may be searched
    Queries,
    Orders,        \* how a Python process may iterate over a set of strings
    Outputs,       \* [stdout, stderr] of failed verifier runs
    MaxContent     \* bound: characters in the file

ASSUME RepositoriesAssumption == \A r \in Repositories : Listing(r)

ASSUME QueriesAssumption == \A q \in Queries : Sequence(q.parts) /\ Sequence(q.words)

ASSUME OutputsAssumption ==
    \A output \in Outputs : Sequence(output.stdout) /\ Sequence(output.stderr)

\* A text is a text, and a file as it is read holds no carriage return.  Any other range is
\* a tool error of replace_line_range_bounds or of read_line_range: such a call reaches no file.
ASSUME EditsAssumption ==
    /\ \A text \in Contents \cup Olds \cup News : Sequence(text)
    /\ \A text \in Contents : \A i \in DOMAIN text : text[i] # "cr"
    /\ \A span \in Ranges : /\ span.first \in Nat /\ span.last \in Nat
                             /\ 1 <= span.first /\ span.first <= span.last

VARIABLES content, repo, call, said

vars == <<content, repo, call, said>>

NoCall    == [kind |-> "none"]
Nothing   == [says |-> "nothing"]

\* A file to edit, or a repository to search: no call depends on both, so there is one.
Init ==
    /\ \/ content \in Contents /\ repo = <<>>
       \/ content = <<>> /\ repo \in Repositories
    /\ call = NoCall /\ said = Nothing

Calls == call = NoCall
Edits == Calls /\ repo = <<>>

Tell(c, observation) == call' = c /\ said' = observation /\ UNCHANGED <<content, repo>>

\* The edit is written, or refused when the file would no longer parse.  What counts from
\* then on is what is read of the file.
Write(c, updated, span) ==
    /\ Len(updated) <= MaxContent
    /\ IF Parses(updated)
       THEN /\ content' = ReadBack(updated)
            /\ call' = [c EXCEPT !.before = content] /\ said' = [says |-> "updated"]
            /\ UNCHANGED repo
       ELSE Tell(c, Unparseable(content, span))

\* read_file: without a range the first DefaultLines lines.
ReadFile ==
    /\ Edits
    /\ \/ Tell([kind |-> "read"], IF content = <<>> THEN [says |-> "empty"]
                                  ELSE Window(content, Span(1, DefaultLines)))
       \/ \E range \in Ranges :
             /\ RangeAccepted(range)
             /\ Tell([kind |-> "read"], IF content = <<>> THEN [says |-> "empty"]
                                        ELSE Window(content, range))

ReplaceText ==
    /\ Edits
    /\ \E old \in Olds, new \in News :
          LET c == [kind |-> "replace_text", old |-> old, new |-> new, before |-> content] IN
          /\ old # new
          /\ IF Count(content, old) = 1
             THEN Write(c, WithText(content, old, new), ReplacedSpan(content, old))
             ELSE Tell(c, Mismatch(content, old))

ReplaceLines ==
    /\ Edits
    /\ \E span \in Ranges, new \in News :
          LET c == [kind |-> "replace_lines", span |-> span, new |-> new, before |-> content] IN
          IF span.last > Len(SplitLines(content))
          THEN Tell(c, [says |-> "too far"])
          ELSE IF WithLines(content, span, new) = content
          THEN Tell(c, [says |-> "identical"])
          ELSE Write(c, WithLines(content, span, new), span)

SearchText ==
    /\ Calls /\ repo # <<>>
    /\ \E query \in Queries, order \in Orders :
          \/ Tell([kind |-> "search", by |-> "fixture", query |-> query, order |-> order],
                  [says |-> "found", lines |-> FixtureSearch(repo, query, order)])
          \/ Tell([kind |-> "search", by |-> "container", query |-> query, order |-> order],
                  [says |-> "found", lines |-> ContainerSearch(repo, query, order)])

\* run_tests on a failing tree.  (Any tree: what the run prints is not derived from it.)
RunTests ==
    /\ Edits /\ content = <<>>
    /\ \E output \in Outputs :
          Tell([kind |-> "run_tests", output |-> output],
               [says |-> "failed",
                summary |-> FailureSummary(output.stdout, output.stderr)])

\* The policy takes the observation in and decides on its next call.
Decide ==
    /\ ~Calls
    /\ call' = NoCall /\ said' = Nothing
    /\ UNCHANGED <<content, repo>>

Next == ReadFile \/ ReplaceText \/ ReplaceLines \/ SearchText \/ RunTests \/ Decide

Spec == Init /\ [][Next]_vars

----------------------------------------------------------------------------
Pure == \A i \in DOMAIN content : content[i] # "ff"

\* replace_text_mismatch_message: "Use exactly that value, or replace_lines start_line=...
\* end_line=...".  Of a mismatch in white space, the value that is printed, unless it is too
\* long to be printed whole, is not the one that was given and matches once; and the lines
\* that are named, as read_file numbers them, hold the text and no line too many.
MismatchAdviceIsRight ==
    said.says = "whitespace" =>
        /\ Len(said.exact) <= MaxQuote =>
              said.shown # call.old /\ Count(content, said.shown) = 1
        /\ Pure => LET lines == SplitLines(content)
                       named == FlattenSeq(SubSeq(lines, said.lines.first, said.lines.last))
                   IN  /\ Positions(named, said.exact) # {}
                       /\ \A inner \in {Span(said.lines.first + 1, said.lines.last),
                                        Span(said.lines.first, said.lines.last - 1)} :
                             Positions(FlattenSeq(SubSeq(lines, inner.first, inner.last)),
                                       said.exact) = {}

\* The lines around a range are the lines that were there, each still a line of its own.
AroundAsBefore(old, new, span) ==
    LET tail == Len(old) - span.last
    IN  /\ SubSeq(new, 1, span.first - 1) = SubSeq(old, 1, span.first - 1)
        /\ Len(new) >= span.first - 1 + tail
        /\ SubSeq(new, Len(new) - tail + 1, Len(new)) = SubSeq(old, span.last + 1, Len(old))

\* A replacement that ends in a carriage return, above an empty line: the two make one newline.
Joins(new, old, span) ==
    /\ new # <<>> /\ Last(new) = "cr"
    /\ span.last < Len(old) /\ Head(old[span.last + 1]) = "nl"

\* replace_line_range: "Replace a small inclusive one-based line range while preserving its
\* final newline".  Nothing around the range changes in the file as it is read afterwards,
\* unless the range ends at a form feed or the replacement joins an empty line.
OnlyTheRangeChanges ==
    call.kind = "replace_lines" /\ said.says = "updated" =>
        LET old == SplitLines(call.before)
        IN  Last(old[call.span.last]) # "ff" /\ ~Joins(call.new, old, call.span) =>
               AroundAsBefore(old, SplitLines(content), call.span)

Found == call.kind = "search"
Answer(says) == {line.file : line \in {l \in ToSet(said.lines) : l.says = says}}

Matched == Collect(repo, call.query.whole) # <<>>

\* The query if it has matches, or the piece a retry in the container took for it.
Searched ==
    IF Matched THEN {call.query.whole}
    ELSE {Head(a) : a \in {Attempt(repo, ContainerAttempts(call.query, call.order))} \ {<<>>}}

\* search_repository: "trimmed to max_chars from the top so the highest-ranked matches
\* survive".  Whatever hints and budget, the best match of a search is in the answer; the
\* retry of the fixture is excepted, whose last trim may drop all of them.
BestMatchIsShown ==
    Found /\ (Matched \/ call.by = "container") /\ Searched # {} =>
        \E t \in Searched : Contains(said.lines, Head(Collect(repo, t)))

\* implementation_candidate_lines: "turns 'every match is a test' into a concrete file to
\* read".  When only tests and prose match the query itself, and one of the first three
\* imports a file of the repository, the answer names an implementation, however many
\* matches there are.
ImplementationIsNamed ==
    Found =>
        LET shown == FirstOf(Collect(repo, call.query.whole), TotalLimit)
        IN  shown # <<>> /\ Candidates(repo, shown) # <<>> => Answer("candidate") # {}

\* What a failed run names (FailureIsNamed, in VerifierReport) is what the policy is told.
FailedRunIsNamed ==
    call.kind = "run_tests" => FailureIsNamed(call.output.stdout, call.output.stderr)

----------------------------------------------------------------------------
(* What does not hold.                                                     *)

\* "Use exactly that value": a long one is cut, and ends in dots that are not in the file.
QuoteMatches == said.says = "whitespace" => Count(content, said.shown) = 1

\* "preserving its final newline": a carriage return passes for one.
EveryRangeChangesAlone ==
    call.kind = "replace_lines" /\ said.says = "updated" =>
        LET old == SplitLines(call.before)
        IN  Last(old[call.span.last]) # "ff" =>
               AroundAsBefore(old, SplitLines(content), call.span)

\* "replace_text requires exactly one match": str.count does not see overlapping matches.
MatchIsUnique ==
    call.kind = "replace_text" /\ said.says = "updated" =>
        Cardinality(Positions(call.before, call.old)) = 1

\* "continue with read_file start_line=... end_line=...": the range may be one that
\* read_line_range refuses.
ContinuationIsAccepted == said.says = "lines" /\ said.more => RangeAccepted(said.next)

\* replaced_line_span: "The inclusive range of lines a matched `old` block occupies".
ReplacedSpanIsOccupied ==
    \A old \in Olds : Count(content, old) = 1 =>
        ReplacedSpan(content, old).last
            = LineAt(content, FirstPosition(content, old) + Len(old) - 1)

\* "the short string values in the failing frame": those of the frames before it as well.
StringsAreOfOneFrame ==
    call.kind = "run_tests" =>
        StringsAreOfTheFailingFrame(call.output.stdout, call.output.stderr)

\* A retry of the fixture that matched shows a match.
FixtureRetryShows ==
    Found /\ call.by = "fixture" /\ Answer("no exact matches") # {}
          /\ Attempt(repo, FixtureAttempts(call.query, CHOOSE o \in Orders : TRUE)) # <<>> =>
        Answer("match") # {}
=============================================================================
