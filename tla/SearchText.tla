---------------------------- MODULE SearchText -----------------------------
(***************************************************************************)
(* search_text: environment.py searches a fixture, and a script of         *)
(* docker_environment.py, written separately, the working tree in the      *)
(* container.  A query is a token; a path or a line of a file is the set   *)
(* of tokens that occur in it.  Lengths count: of lines, of hints and of   *)
(* the answer.                                                             *)
(***************************************************************************)
EXTENDS Arrangements

CONSTANTS
    Length,          \* token -> characters
    TotalLimit,      \* scale: SEARCH_TOTAL_LIMIT (100)
    FallbackLimit,   \* scale: SEARCH_FALLBACK_LIMIT (20)
    PerFileLimit,    \* scale: SEARCH_PER_FILE_LIMIT (5)
    CandidateLimit,  \* scale: IMPLEMENTATION_CANDIDATE_LIMIT (6)
    RelatedFiles,    \* scale: RELATED_QUERY_FILE_LIMIT (12)
    RelatedMatches,  \* scale: RELATED_QUERY_MATCH_LIMIT (8)
    RelatedChars,    \* scale: RELATED_QUERY_MAX_CHARS (2400)
    AnswerChars,     \* scale: READ_FILE_MAX_CHARS (8000)
    LabelChars       \* scale: the length of the lines that are no matches

ASSUME SearchAssumption ==
    /\ {TotalLimit, FallbackLimit, PerFileLimit, CandidateLimit} \subseteq Nat \ {0}
    /\ {RelatedFiles, RelatedMatches, RelatedChars, AnswerChars, LabelChars} \subseteq Nat

\* A repository is its sorted listing, of
\*   [rank: 0 implementation, 1 test, 2 prose; path: tokens in the path; depth: of the path;
\*    size: of the path; lines: sequence of [has, size]; readable: below 1 MB and UTF-8;
\*    shows: "path" if the path has no white space, "match" if it is of [\w./+-] and ends in
\*    .py, .pyi, .cfg, .ini, .json, .toml, .yaml or .yml;
\*    imports: the files its import statements name].
\* A query is [whole, parts: its pieces between slashes, words: between blanks,
\*    dotted: the last piece has a dot and there is no blank].

\* With the two lines that go before it, a match fits into an answer: it is a path, at most
\* PATH_MAX (4096), and 300 characters of a line, and those lines quote a query of 200.
Fits(size) == size \in Nat /\ LabelChars + LabelChars + size + 3 <= AnswerChars

Listing(repo) ==
    /\ Sequence(repo)
    /\ \A f \in DOMAIN repo :
          /\ repo[f].rank \in 0 .. 2 /\ repo[f].imports \subseteq DOMAIN repo
          /\ Fits(repo[f].size)
          /\ Sequence(repo[f].lines)
          /\ \A k \in DOMAIN repo[f].lines : Fits(repo[f].size + repo[f].lines[k].size)

Larger(a, b) == IF a > b THEN a ELSE b

Line(says, file, size) == [says |-> says, file |-> file, line |-> 0, size |-> size]
Label(says) == Line(says, 0, LabelChars)

Sized(lines) ==
    LET sum[n \in 0 .. Len(lines)] == IF n = 0 THEN 0 ELSE sum[n - 1] + lines[n].size + 1
    IN  sum[Len(lines)]

----------------------------------------------------------------------------
(* One query.                                                              *)

MatchLines(file, token) ==
    {k \in DOMAIN file.lines : file.readable /\ token \in file.lines[k].has}

\* What matches in a file: its path, and at most PerFileLimit of its lines.
PathMatch(repo, token, f) ==
    IF token \in repo[f].path
    THEN <<[says |-> "match", rank |-> repo[f].rank, kind |-> 0, file |-> f, line |-> 0,
            size |-> repo[f].size]>>
    ELSE <<>>

LineMatches(repo, token, f) ==
    LET match(k) == [says |-> "match", rank |-> repo[f].rank, kind |-> 1, file |-> f, line |-> k,
                     size |-> repo[f].size + repo[f].lines[k].size]
        lines    == [k \in DOMAIN repo[f].lines |-> match(k)]
    IN  FirstOf(At(lines, MatchLines(repo[f], token)), PerFileLimit)

\* Of the files of a rank in the order of the listing, paths before lines.
OfRank(repo, token, rank) ==
    LET files == Having([f \in DOMAIN repo |-> f], LAMBDA f : repo[f].rank = rank)
    IN  FlattenSeq([i \in DOMAIN files |-> PathMatch(repo, token, files[i])])
        \o FlattenSeq([i \in DOMAIN files |-> LineMatches(repo, token, files[i])])

\* _collect_search_matches
Collect(repo, token) ==
    OfRank(repo, token, 0) \o OfRank(repo, token, 1) \o OfRank(repo, token, 2)

\* Mutant: the budget is spent from the end.
BoundedFromTheEnd(lines, max) ==
    LET fits == {n \in DOMAIN lines : n = Len(lines) \/ Sized(SubSeq(lines, n, Len(lines))) <= max}
        kept == CHOOSE n \in fits : \A m \in fits : n <= m
    IN  IF lines = <<>> THEN <<>> ELSE SubSeq(lines, kept, Len(lines))

\* _bounded_search_lines: the first line, then whole lines while they fit.
Bounded(lines, max) ==
    LET fits == {n \in DOMAIN lines : n = 1 \/ Sized(SubSeq(lines, 1, n)) <= max}
        kept == CHOOSE n \in fits : \A m \in fits : m <= n
    IN  IF lines = <<>> THEN <<>>
        ELSE SubSeq(lines, 1, kept) \o (IF kept < Len(lines) THEN <<Label("cut")>> ELSE <<>>)

\* sorted(set, key=len, reverse=True): order says how the set iterates, which differs from
\* one Python process to the next.
LongestFirst(tokens, order) ==
    LET before(a, b) ==
            Length[a] > Length[b] \/ (Length[a] = Length[b] /\ order[a] < order[b])
    IN  InOrder(tokens, before)

\* The matching lines of a file, as many as a search takes of one file.
Taken(repo, segment, f) ==
    Having(Collect(repo, segment), LAMBDA m : m.file = f /\ m.kind = 1)

\* _related_query_matches: the implementation files, by path and by number of matches.
Grouped(repo, segment) ==
    LET count(f) == Len(Taken(repo, segment, f))
        named(f) == segment \in repo[f].path
        first(f, g) ==
            \/ named(f) /\ ~named(g)
            \/ named(f) = named(g) /\ count(f) > count(g)
            \/ named(f) = named(g) /\ count(f) = count(g) /\ f < g
    IN  InOrder({f \in DOMAIN repo : repo[f].rank = 0 /\ count(f) > 0}, first)

\* The first matches of the first three files.
Sample(repo, segment, files) ==
    LET some(k, n) == IF k > Len(files) THEN <<>>
                      ELSE FirstOf(Taken(repo, segment, files[k]), n)
    IN  some(1, 4) \o some(2, 2) \o some(3, 2)

\* related_query_lines: of the pieces of a path, longest first, the first one that a few
\* implementation files hold.
Pieces(query, order) ==
    LongestFirst({t \in ToSet(query.parts) : Length[t] >= 3} \ {query.whole}, order)

RelatedLines(repo, useful) ==
    IF useful = <<>> THEN <<>>
    ELSE <<Label("related")>>
         \o Bounded(FirstOf(Sample(repo, Head(useful), Grouped(repo, Head(useful))),
                            RelatedMatches),
                    RelatedChars)

Related(repo, query, order) ==
    RelatedLines(repo, Having(Pieces(query, order),
                              LAMBDA t : Len(Grouped(repo, t)) \in 1 .. RelatedFiles))

\* _implementation_candidate_lines: what the first three test files import, deepest first.
Candidates(repo, shown) ==
    LET files == Distinct([i \in DOMAIN shown |-> shown[i].file])
        named == UNION {IF repo[f].readable THEN repo[f].imports ELSE {}
                        : f \in ToSet(FirstOf(files, 3))}
        deeper(f, g) ==
            repo[f].depth > repo[g].depth \/ (repo[f].depth = repo[g].depth /\ f < g)
        ranked == InOrder(named, deeper)
    IN  IF \E m \in ToSet(shown) : m.rank = 0 THEN <<>>
        ELSE [k \in DOMAIN FirstOf(ranked, CandidateLimit) |->
                 Line("candidate", ranked[k], repo[ranked[k]].size + LabelChars)]

\* _navigation_lines
Navigation(repo, query, shown, order) ==
    (IF \E m \in ToSet(shown) : m.rank = 0 THEN <<>> ELSE Related(repo, query, order))
    \o Candidates(repo, shown)

\* _remaining_search_chars
Remaining(hints, max) ==
    Larger(max \div 2, IF Sized(hints) < max THEN max - Sized(hints) ELSE 0)

\* Mutant: matches and hints share one trim.
TrimTogether(repo, query, shown, max, order) ==
    Bounded(shown \o Navigation(repo, query, shown, order), max)

RenderThenTrim(repo, query, token, total, max, order) ==
    TrimTogether(repo, query, FirstOf(Collect(repo, token), total), max, order)

\* _render_query_matches, and the body of the script: matches, trimmed to what the hints
\* leave, and the hints.
WithHints(shown, hints, max) ==
    IF shown = <<>> THEN <<>> ELSE Bounded(shown, Remaining(hints, max)) \o hints

Rendered(repo, query, shown, max, order) ==
    WithHints(shown, Navigation(repo, query, shown, order), max)

Render(repo, query, token, total, max, order) ==
    Rendered(repo, query, FirstOf(Collect(repo, token), total), max, order)

----------------------------------------------------------------------------
(* The query and, when nothing matches it, one of its pieces.              *)

Direct(repo, query, order) ==
    Render(repo, query, query.whole, TotalLimit, AnswerChars, order)

LongestWord(query, order) ==
    FirstOf(LongestFirst({t \in ToSet(query.words) : Length[t] >= 4}, order), 1)

LongEnough(tokens) == Having(tokens, LAMBDA t : Length[t] >= 4)

\* fallback_query_segments: basename, the other pieces from the end, the whole.
FixtureAttempts(query, order) ==
    IF Len(query.parts) = 1 THEN LongestWord(query, order)
    ELSE IF query.dotted
    THEN FirstOf(LongEnough(Reverse(query.parts) \o <<query.whole>>), 4)
    ELSE <<>>

\* The script: no dot is asked for.
ContainerAttempts(query, order) ==
    IF Len(query.parts) = 1 THEN LongestWord(query, order) ELSE LongEnough(Reverse(query.parts))

\* A piece is a query of its own: it has no slash.
Piece(token) == [whole |-> token, parts |-> <<token>>, words |-> <<token>>, dotted |-> FALSE]

Attempt(repo, attempts) == Having(attempts, LAMBDA t : Collect(repo, t) # <<>>)

Missed == <<Label("no exact matches"), Label("retried with")>>

NothingFound == <<Label("no exact matches"), Label("suggested")>>

\* search_repository: the rendered body of the retry is one item of the last trim.
AsOneItem(body) ==
    LET whole == Bounded(Append(Missed, Line("body", 0, Sized(body) - 1)), AnswerChars)
    IN  FlattenSeq([k \in DOMAIN whole |-> IF whole[k].says = "body" THEN body
                                            ELSE <<whole[k]>>])

RetryOfFixture(repo, useful, order) ==
    IF useful = <<>> THEN NothingFound
    ELSE AsOneItem(Render(repo, Piece(Head(useful)), Head(useful), FallbackLimit,
                          Remaining(<<Label("retried with")>>, AnswerChars), order))

FixtureRetry(repo, query, order) ==
    RetryOfFixture(repo, Attempt(repo, FixtureAttempts(query, order)), order)

\* _SEARCH_TEXT_SCRIPT: hints of the query as it was, and a last trim line by line.
RetryOfContainer(repo, query, useful, order) ==
    IF useful = <<>> THEN NothingFound
    ELSE Bounded(Missed \o Render(repo, query, Head(useful), FallbackLimit, AnswerChars, order),
                 AnswerChars)

ContainerRetry(repo, query, order) ==
    RetryOfContainer(repo, query, Attempt(repo, ContainerAttempts(query, order)), order)

OrElse(found, retried) == IF found # <<>> THEN found ELSE retried

FixtureSearch(repo, query, order) ==
    OrElse(Direct(repo, query, order), FixtureRetry(repo, query, order))

ContainerSearch(repo, query, order) ==
    OrElse(Direct(repo, query, order), ContainerRetry(repo, query, order))
=============================================================================
