----------------------------- MODULE FileEdits -----------------------------
(***************************************************************************)
(* What read_file, replace_text and replace_lines do to a file and say of  *)
(* it, in environment.py and, the same line by line, in the scripts that   *)
(* docker_environment.py runs in the container.  A file is a sequence of   *)
(* characters: "nl" is a newline, "cr" a carriage return, "ff" any of the  *)
(* other characters at which str.splitlines ends a line (form feed,        *)
(* vertical tab, U+2028).  A file that was read holds no "cr" (ReadBack).  *)
(***************************************************************************)
EXTENDS Arrangements

CONSTANTS
    Letters,        \* characters that are no white space
    Parses(_),      \* compile accepts the text
    Statements(_),  \* [first, last] of every statement ast finds in a text that parses
    DefaultLines,   \* scale: READ_FILE_DEFAULT_LINES (200)
    MaxChars,       \* scale: READ_FILE_MAX_CHARS (8000)
    MinRead,        \* scale: lines a range must have (20)
    MaxRead,        \* scale: lines a range may have (400)
    MaxQuote        \* scale: characters quoted of a mismatch (300)

Breaks == {"nl", "ff"}
White  == Breaks \cup {" ", "cr"}

Least(a, b) == IF a < b THEN a ELSE b
Span(first, last) == [first |-> first, last |-> last]

\* A text that write_text wrote, as the next read_text returns it: "\r\n" and "\r" are newlines.
ReadBack(text) ==
    At([i \in DOMAIN text |-> IF text[i] = "cr" THEN "nl" ELSE text[i]],
       {i \in DOMAIN text : text[i] = "cr" /\ i < Len(text) => text[i + 1] # "nl"})

----------------------------------------------------------------------------
(* Lines, counted in two ways.                                             *)

LineEnds(content) == {i \in DOMAIN content : content[i] \in Breaks \/ i = Len(content)}

\* content.splitlines(keepends=True)
SplitLines(content) ==
    LET ends == At([i \in DOMAIN content |-> i], LineEnds(content))
    IN  [k \in DOMAIN ends |-> SubSeq(content, IF k = 1 THEN 1 ELSE ends[k - 1] + 1, ends[k])]

\* content.count("\n", 0, offset) + 1
LineAt(content, i) == 1 + Cardinality({j \in 1 .. i - 1 : content[j] = "nl"})

LineSize(line) == Len(line) + 1

\* render_numbered_window: at least one line, then what fits, and what to read next.
Window(content, range) ==
    LET lines == SplitLines(content)
        total == Len(lines)
        last  == Least(total, range.last)
        used(n) == FoldLeft(LAMBDA sum, line : sum + LineSize(line), 0,
                            SubSeq(lines, range.first, n))
        fits  == {n \in range.first .. last : n = range.first \/ used(n) <= MaxChars}
        shown == CHOOSE n \in fits : \A m \in fits : m <= n
    IN  IF last < range.first THEN [says |-> "no lines"]
        ELSE [says |-> "lines", first |-> range.first, last |-> shown, more |-> shown < total,
              next |-> Span(shown + 1, Least(total, shown + DefaultLines))]

\* read_line_range
RangeAccepted(range) ==
    /\ 1 <= range.first /\ range.first <= range.last
    /\ range.last - range.first + 1 \in MinRead .. MaxRead

----------------------------------------------------------------------------
(* replace_text                                                            *)

Positions(content, old) ==
    {i \in 1 .. (Len(content) + 1) - Len(old) : SubSeq(content, i, i + Len(old) - 1) = old}

\* content.count(old): matches that do not overlap, from the left.
Counted(content, old) ==
    CHOOSE G \in SUBSET Positions(content, old) :
        \A i \in Positions(content, old) :
            i \in G <=> \A j \in G : j < i => j + Len(old) <= i

Count(content, old) == Cardinality(Counted(content, old))

\* _collapse_whitespace: the characters that are left, each with its offset.  Of white space
\* between two others the last is left, as a blank.
Kept(content) ==
    {i \in DOMAIN content :
        content[i] \in White => /\ i < Len(content) /\ content[i + 1] \notin White
                                /\ \E j \in 1 .. i - 1 : content[j] \notin White}

Collapse(content) ==
    At([i \in DOMAIN content |->
           [char |-> IF content[i] \in White THEN " " ELSE content[i], at |-> i]],
       Kept(content))

Chars(collapsed) == [k \in DOMAIN collapsed |-> collapsed[k].char]

\* What is printed of the text that would have matched: all of it, or its head and three dots.
Shown(exact) ==
    IF Len(exact) <= MaxQuote THEN exact ELSE SubSeq(exact, 1, MaxQuote) \o <<".", ".", ".">>

\* Mutant: the quote ends before its last character.
QuoteShort(content, start, end) ==
    LET exact == SubSeq(content, start, end - 1)
    IN  [says |-> "whitespace", exact |-> exact, shown |-> Shown(exact),
         lines |-> Span(LineAt(content, start), LineAt(content, end))]

\* The text that would have matched, what is printed of it, and its lines.
Quote(content, start, end) ==
    LET exact == SubSeq(content, start, end)
    IN  [says |-> "whitespace", exact |-> exact, shown |-> Shown(exact),
         lines |-> Span(LineAt(content, start), LineAt(content, end))]

\* replace_text_mismatch_message
Mismatch(content, old) ==
    LET collapsed == Collapse(content)
        wanted    == Chars(Collapse(old))
        at        == Positions(Chars(collapsed), wanted)
    IN  IF Count(content, old) > 1
        THEN [says |-> "ambiguous", at |-> {LineAt(content, i) : i \in Positions(content, old)}]
        ELSE IF wanted # <<>> /\ Cardinality(at) = 1
        THEN LET k == CHOOSE k \in at : TRUE
             IN  Quote(content, collapsed[k].at, collapsed[k + Len(wanted) - 1].at)
        ELSE [says |-> "absent"]

FirstPosition(content, old) ==
    CHOOSE i \in Positions(content, old) : \A j \in Positions(content, old) : i <= j

\* content.replace(old, new, 1)
WithText(content, old, new) ==
    LET i == FirstPosition(content, old)
    IN  SubSeq(content, 1, i - 1) \o new \o SubSeq(content, i + Len(old), Len(content))

\* replaced_line_span
ReplacedSpan(content, old) ==
    LET first == LineAt(content, FirstPosition(content, old))
    IN  Span(first, first + Cardinality({k \in DOMAIN old : old[k] = "nl"}))

NoSpan == Span(0, 0)

\* enclosed_statement_span: the innermost statement around the lines, when it is wider.
EnclosedSpan(content, span) ==
    LET all    == IF Parses(content) THEN Statements(content) ELSE {}
        around == {s \in all : s.first <= span.first /\ span.last <= s.last}
    IN  IF span \in all \/ around = {} THEN NoSpan
        ELSE CHOOSE s \in around : \A t \in around : s.last - s.first <= t.last - t.first

Unparseable(content, span) == [says |-> "unparseable", span |-> EnclosedSpan(content, span)]

----------------------------------------------------------------------------
(* replace_lines                                                           *)

\* Mutant: the replacement is put in as it comes.
TerminatedNever(new, selected) == new

\* The replacement is ended by a newline when the lines it replaces were, unless it ends in
\* a newline or a carriage return.
Terminated(new, selected) ==
    IF new # <<>> /\ Last(selected) = "nl" /\ Last(new) \notin {"nl", "cr"}
    THEN Append(new, "nl")
    ELSE new

\* replace_line_range
WithLines(content, span, new) ==
    LET lines == SplitLines(content)
    IN  FlattenSeq(SubSeq(lines, 1, span.first - 1)) \o Terminated(new, lines[span.last])
        \o FlattenSeq(SubSeq(lines, span.last + 1, Len(lines)))
=============================================================================
