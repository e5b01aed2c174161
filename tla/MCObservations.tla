-------------------------- MODULE MCObservations ---------------------------
(* Observations for TLC.  A line that begins with b opens a block of the   *)
(* indented lines after it; there is no other syntax.                      *)
EXTENDS LoopGuidance

Alphabet == {"a", "b", " ", "nl", "ff"}
MCContents == UNION {[1 .. n -> Alphabet] : n \in 0 .. 3} \cup [1 .. 4 -> Alphabet \ {"ff"}]
MCOlds == UNION {[1 .. n -> Alphabet \ {"ff"}] : n \in 1 .. 2}
          \cup {<<"a">> \o s : s \in [1 .. 2 -> {"a", " ", "nl"}]}
MCNews == {<<>>, <<" ", "a">>, <<"b", "nl">>, <<"a", "cr">>, <<"cr", "nl">>}
MCRanges == {r \in [first : 1 .. 3, last : 1 .. 4] : r.first <= r.last}

\* (compile reads a carriage return as a newline, too.)
NlLines(written) ==
    LET text == ReadBack(written)
        ends == SetToSortSeq({i \in DOMAIN text : text[i] = "nl" \/ i = Len(text)}, <)
    IN  [k \in DOMAIN ends |-> SubSeq(text, IF k = 1 THEN 1 ELSE ends[k - 1] + 1, ends[k])]
Indented(line) == Head(line) = " "
Opens(line) == Head(line) = "b"
MCParses(text) ==
    LET lines == NlLines(text)
    IN  \A k \in DOMAIN lines :
           /\ Indented(lines[k]) => k > 1 /\ (Indented(lines[k - 1]) \/ Opens(lines[k - 1]))
           /\ Opens(lines[k]) => k < Len(lines) /\ Indented(lines[k + 1])
MCStatements(text) ==
    LET lines == NlLines(text)
        end(k) == CHOOSE m \in k .. Len(lines) :
                     /\ \A n \in k + 1 .. m : Indented(lines[n])
                     /\ m = Len(lines) \/ ~Indented(lines[m + 1])
    IN  {[first |-> k, last |-> IF Opens(lines[k]) THEN end(k) ELSE k] : k \in DOMAIN lines}

\* One implementation file and two tests.  "api/conf" occurs in tests only as a whole.
MCLength == [t \in {"api/conf", "api", "conf", "word", "conf word", "none"} |->
               CASE t = "api" -> 3 [] t \in {"conf", "word", "none"} -> 4 [] t = "api/conf" -> 8
                 [] OTHER -> 9]

Text(has, n) == [k \in 1 .. n |-> [has |-> has, size |-> 5]]
File(rank, path, lines, imports, readable) ==
    [rank |-> rank, path |-> path, depth |-> 1, size |-> 2, lines |-> lines,
     imports |-> imports, readable |-> readable, shows |-> {"path", "match"}]

Sources ==
    {File(0, path, lines, {}, TRUE) :
        path \in {{}, {"conf"}}, lines \in {<<>>, Text({"conf"}, 3), Text({"word", "api"}, 1)}}
Tests ==
    {File(1, {}, lines, imports, TRUE) :
        lines \in {<<>>, Text({"api/conf", "api", "conf"}, 2), Text({"conf"}, 3), Text({"word"}, 3)},
        imports \in {{}, {1}}}
    \cup {File(1, {}, Text({"conf"}, 3), {1}, FALSE)}
\* An implementation that a search finds, unless it cannot be decoded, a test that imports it,
\* and one more file that a search finds by its path: an implementation or a test.
MCExplored ==
    {<<[File(0, {}, Text({"conf", "word"}, 3), {}, r.readable) EXCEPT !.shows = r.shows],
       File(1, {}, Text({"api/conf", "api", "conf"}, 2), {1}, TRUE),
       File(r.rank, {"conf"}, Text({"word"}, 1), {}, TRUE)>> :
        r \in {[readable |-> TRUE, rank |-> 0, shows |-> {"path", "match"}],
               [readable |-> FALSE, rank |-> 1, shows |-> {"path", "match"}],
               [readable |-> TRUE, rank |-> 1, shows |-> {"path", "match"}],
               [readable |-> TRUE, rank |-> 1, shows |-> {"path"}]}}

MCRepositories ==
    MCExplored
    \cup {<<a, b, c>> : a \in Sources, b \in Tests,
                        c \in {t \in Tests : t.lines = Text({"conf"}, 3) /\ t.imports = {1}}
                              \cup {File(1, {}, Text({"word"}, 3), {}, TRUE)}}

MCQueries ==
    {[whole |-> "api/conf", parts |-> <<"api", "conf">>, words |-> <<"api/conf">>, dotted |-> d] :
        d \in BOOLEAN}
    \cup {[whole |-> "conf", parts |-> <<"conf">>, words |-> <<"conf">>, dotted |-> FALSE],
          [whole |-> "none", parts |-> <<"none">>, words |-> <<"none">>, dotted |-> FALSE],
          [whole |-> "conf word", parts |-> <<"conf word">>, words |-> <<"conf", "word">>,
           dotted |-> FALSE]}
MCAsked == {q \in MCQueries : q.whole \in {"conf", "none"}}
MCOrders == {[t \in DOMAIN MCLength |-> IF t = first THEN 0 ELSE 1] : first \in {"conf", "word"}}

Printable ==
    {[says |-> "node", of |-> "test_a"], [says |-> "node", of |-> "test_b"],
     [says |-> "log", of |-> "logger"], [says |-> "raised", of |-> "ValueError"],
     [says |-> "diff"], [says |-> "string", of |-> "name"]}
    \cup [says : {"frame"}, of : {"a.py", "lib.py"}, own : {TRUE}]
    \cup {[says |-> "frame", of |-> "lib.py", own |-> FALSE]}
Streamed(n) == UNION {[1 .. m -> Printable] : m \in 0 .. n}
MCOutputs == [stdout : Streamed(3), stderr : Streamed(1)]
                \cup [stdout : Streamed(1), stderr : Streamed(2)]
=============================================================================
