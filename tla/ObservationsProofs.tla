------------------------- MODULE ObservationsProofs -------------------------
(***************************************************************************)
(* What the policy is told, for every file, repository, query and output   *)
(* of a failed run, and what its edits do.  The lists of an answer and of  *)
(* a summary are followed operator by operator (SearchText, VerifierReport,*)
(* LoopGuidance), and so are the lines of a file and the quote of a        *)
(* mismatch (FileEdits); what ties them to the state is that an            *)
(* observation is the answer to the call it comes with (Answers).          *)
(***************************************************************************)
EXTENDS LoopGuidance, ArrangementProofs

----------------------------------------------------------------------------
(* The summary of a failed run                                             *)

\* The lines of a kind.
LEMMA PrintedHolds ==
    ASSUME NEW s, Sequence(s), NEW kind
    PROVE  /\ Sequence(Printed(s, kind))
           /\ ToSet(Printed(s, kind)) = {line \in ToSet(s) : line.says = kind}
<1> DEFINE P == {i \in DOMAIN s : s[i].says = kind}
<1>1. P \in SUBSET (DOMAIN s) /\ Printed(s, kind) = At(s, P)
  BY DEF Printed, Having
<1>2. Sequence(At(s, P)) /\ ToSet(At(s, P)) = {s[i] : i \in P}
  BY <1>1, AtHolds
<1>3. {s[i] : i \in P} = {line \in ToSet(s) : line.says = kind}
  BY DEF ToSet
<1>4. QED
  BY <1>1, <1>2, <1>3

\* The last line of a kind, if there is one.
LEMMA FinalHolds ==
    ASSUME NEW s, Sequence(s)
    PROVE  /\ Sequence(FinalOf(s)) /\ ToSet(FinalOf(s)) \subseteq ToSet(s)
           /\ s # <<>> => ToSet(FinalOf(s)) # {}
<1>1. s = <<>> => FinalOf(s) = <<>>
  BY DEF FinalOf
<1>2. ASSUME s # <<>>
      PROVE  /\ Sequence(FinalOf(s)) /\ ToSet(FinalOf(s)) \subseteq ToSet(s)
             /\ ToSet(FinalOf(s)) # {}
  <2>1. FinalOf(s) = <<Last(s)>> /\ Last(s) \in ToSet(s)
    BY <1>2, EndsAreIn DEF FinalOf
  <2>2. Sequence(<<Last(s)>>) /\ ToSet(<<Last(s)>>) = {Last(s)}
    BY SmallLists DEF ToSet
  <2>3. QED
    BY <2>1, <2>2
<1>3. QED
  BY <1>1, <1>2, SmallLists DEF ToSet

\* Neither stream is lost, whichever is taken first.
LEMMA StreamsHold ==
    ASSUME NEW stdout, Sequence(stdout), NEW stderr, Sequence(stderr)
    PROVE  /\ Sequence(Streams(stdout, stderr))
           /\ ToSet(Streams(stdout, stderr)) = ToSet(stdout) \cup ToSet(stderr)
<1> DEFINE detail == IF Len(stderr) > Len(stdout) THEN stderr ELSE stdout
           other  == IF detail = stdout THEN stderr ELSE stdout
<1>1. /\ Sequence(detail) /\ Sequence(other)
      /\ ToSet(detail) \cup ToSet(other) = ToSet(stdout) \cup ToSet(stderr)
  OBVIOUS
<1>2. Streams(stdout, stderr) = IF Within(other, detail) THEN detail ELSE detail \o other
  BY DEF Streams
<1> HIDE DEF detail, other
<1>3. Sequence(detail \o other) /\ ToSet(detail \o other) = ToSet(detail) \cup ToSet(other)
  BY <1>1, ConcatHolds
<1>4. ASSUME Within(other, detail) PROVE ToSet(other) \subseteq ToSet(detail)
  <2>1. PICK i \in 0 .. Len(detail) :
            i + Len(other) <= Len(detail) /\ SubSeq(detail, i + 1, i + Len(other)) = other
    BY <1>4 DEF Within
  <2>2. /\ Len(other) \in Nat /\ DOMAIN other = 1 .. Len(other)
        /\ Len(detail) \in Nat /\ DOMAIN detail = 1 .. Len(detail)
    BY <1>1, ListFacts
  <2>3. ASSUME NEW k \in DOMAIN other PROVE other[k] \in ToSet(detail)
    <3>1. other[k] = detail[i + k] /\ i + k \in DOMAIN detail
      <4> DEFINE a == i + 1
                 b == i + Len(other)
      <4>1. a \in Nat /\ b \in Nat /\ k \in 1 .. (b - a) + 1 /\ (a + k) - 1 = i + k
        BY <2>2
      <4>2. SubSeq(detail, a, b) = [j \in 1 .. (b - a) + 1 |-> detail[(a + j) - 1]]
        BY <2>2
      <4> HIDE DEF a, b
      <4>3. SubSeq(detail, a, b)[k] = detail[(a + k) - 1]
        BY <4>1, <4>2
      <4>4. QED
        BY <2>1, <2>2, <4>1, <4>3 DEF a, b
    <3>2. QED
      BY <3>1 DEF ToSet
  <2>4. QED
    BY <2>3 DEF ToSet
<1>5. QED
  BY <1>1, <1>2, <1>3, <1>4

\* Of any two streams, what they name is named.
LEMMA SummaryNames ==
    ASSUME NEW stdout, Sequence(stdout), NEW stderr, Sequence(stderr)
    PROVE  FailureIsNamed(stdout, stderr)
<1> DEFINE text    == Streams(stdout, stderr)
           nodes   == FirstOf(FailingNodes(text), NamedNodes)
           raised  == RaisedLine(text)
           logs    == LoggedErrors(text)
           strings == FrameStrings(text)
           frame   == FailingStatement(text)
           whole   == nodes \o frame \o raised \o logs \o strings
           summary == FirstOf(whole, SummaryItems)
           Of(kind) == ToSet(Printed(stdout, kind) \o Printed(stderr, kind))
<1>1. Sequence(text) /\ ToSet(text) = ToSet(stdout) \cup ToSet(stderr)
  BY StreamsHold
<1>2. \A kind : Of(kind) = {line \in ToSet(text) : line.says = kind}
  <2>1. TAKE kind
  <2>2. /\ Sequence(Printed(stdout, kind)) /\ Sequence(Printed(stderr, kind))
        /\ ToSet(Printed(stdout, kind)) = {line \in ToSet(stdout) : line.says = kind}
        /\ ToSet(Printed(stderr, kind)) = {line \in ToSet(stderr) : line.says = kind}
    BY PrintedHolds
  <2>3. Of(kind) = ToSet(Printed(stdout, kind)) \cup ToSet(Printed(stderr, kind))
    BY <2>2, ConcatHolds
  <2>4. QED
    BY <1>1, <2>2, <2>3
<1>3. FailureSummary(stdout, stderr) = summary
  BY DEF FailureSummary
<1> HIDE DEF text, Of
<1>4. /\ Sequence(FailingNodes(text))
      /\ ToSet(FailingNodes(text)) = {line \in ToSet(text) : line.says = "node"}
  BY <1>1, PrintedHolds, DistinctHolds DEF FailingNodes
<1>5. /\ Sequence(nodes) /\ ToSet(nodes) \subseteq ToSet(FailingNodes(text))
      /\ FailingNodes(text) # <<>> => nodes # <<>> /\ Head(nodes) = Head(FailingNodes(text))
  <2> HIDE DEF nodes
  <2>1. NamedNodes \in Nat /\ NamedNodes > 0
    BY ReportAssumption
  <2>2. QED
    BY <1>4, <2>1, FirstOfHolds DEF nodes
<1>6. /\ Sequence(raised) /\ ToSet(raised) \subseteq {line \in ToSet(text) : line.says = "raised"}
      /\ {line \in ToSet(text) : line.says = "raised"} # {} => ToSet(raised) # {}
  <2>1. /\ Sequence(Printed(text, "raised"))
        /\ ToSet(Printed(text, "raised")) = {line \in ToSet(text) : line.says = "raised"}
    BY <1>1, PrintedHolds
  <2>2. Printed(text, "raised") # <<>> <=> ToSet(Printed(text, "raised")) # {}
    BY <2>1, EmptyHoldsNothing
  <2>3. QED
    BY <2>1, <2>2, FinalHolds DEF RaisedLine
<1>7. Sequence(frame) /\ Sequence(logs) /\ Sequence(strings)
  <2> DEFINE P == {i \in DOMAIN text : text[i].says = "frame" /\ text[i].own}
             frames == Having(text, LAMBDA line : line.says = "frame" /\ line.own)
  <2>1. frames = At(text, P) /\ P \in SUBSET (DOMAIN text)
    BY DEF Having
  <2>2. Sequence(frames)
    BY <1>1, <2>1, AtHolds
  <2>3. frame = FinalOf(frames)
    BY DEF FailingStatement
  <2> HIDE DEF frames, frame
  <2>4. Sequence(frame)
    BY <2>2, <2>3, FinalHolds
  <2>5. Sequence(logs)
    BY <1>1, PrintedHolds, DistinctHolds, FirstOfHolds, ReportAssumption DEF LoggedErrors
  <2>6. Sequence(strings)
    BY <1>1, PrintedHolds, DistinctHolds, FirstOfHolds, ReportAssumption DEF FrameStrings
  <2>7. QED
    BY <2>4, <2>5, <2>6
<1> HIDE DEF nodes, raised, logs, strings, frame
<1>8. /\ Sequence(whole) /\ ToSet(raised) \subseteq ToSet(whole)
      /\ nodes # <<>> => whole # <<>> /\ Head(whole) = Head(nodes)
  <2>1. /\ Sequence(nodes \o frame)
        /\ nodes # <<>> => nodes \o frame # <<>> /\ Head(nodes \o frame) = Head(nodes)
    BY <1>5, <1>7, ConcatHolds, EmptyHoldsNothing
  <2> DEFINE a == nodes \o frame
  <2> HIDE DEF a
  <2>2. /\ Sequence(a \o raised) /\ ToSet(raised) \subseteq ToSet(a \o raised)
        /\ a # <<>> => a \o raised # <<>> /\ Head(a \o raised) = Head(a)
    BY <1>6, <2>1, ConcatHolds, EmptyHoldsNothing DEF a
  <2> DEFINE b == a \o raised
  <2> HIDE DEF b
  <2>3. /\ Sequence(b \o logs) /\ ToSet(b) \subseteq ToSet(b \o logs)
        /\ b # <<>> => b \o logs # <<>> /\ Head(b \o logs) = Head(b)
    BY <1>7, <2>2, ConcatHolds, EmptyHoldsNothing DEF b
  <2> DEFINE c == b \o logs
  <2> HIDE DEF c
  <2>4. /\ Sequence(c \o strings) /\ ToSet(c) \subseteq ToSet(c \o strings)
        /\ c # <<>> => c \o strings # <<>> /\ Head(c \o strings) = Head(c)
    BY <1>7, <2>3, ConcatHolds, EmptyHoldsNothing DEF c
  <2>5. whole = c \o strings
    BY DEF a, b, c
  <2> HIDE DEF whole
  <2>6. QED
    BY <2>1, <2>2, <2>3, <2>4, <2>5 DEF a, b, c
<1> HIDE DEF whole
<1>9. /\ Sequence(summary)
      /\ summary = whole \/ Len(summary) = SummaryItems
      /\ whole # <<>> => summary # <<>> /\ Head(summary) = Head(whole)
  <2>1. SummaryItems \in Nat /\ SummaryItems > 0
    BY ReportAssumption
  <2>2. QED
    BY <1>8, <2>1, FirstOfHolds
<1> HIDE DEF summary
<1>10. ASSUME Of("node") # {} PROVE summary # <<>> /\ Head(summary) \in Of("node")
  <2>1. FailingNodes(text) # <<>>
    BY <1>2, <1>4, <1>10, EmptyHoldsNothing
  <2>2. Head(FailingNodes(text)) \in Of("node")
    BY <1>2, <1>4, <2>1, EndsAreIn
  <2>3. QED
    BY <1>5, <1>8, <1>9, <2>1, <2>2
<1>11. ASSUME Of("raised") # {}, Len(summary) < SummaryItems
       PROVE  ToSet(Printed(summary, "raised")) # {}
  <2>1. SummaryItems \in Nat /\ summary = whole
    BY <1>9, <1>11, ReportAssumption
  <2>2. PICK line \in ToSet(raised) : line.says = "raised"
    BY <1>2, <1>6, <1>11
  <2>3. line \in ToSet(summary)
    BY <1>8, <2>1, <2>2
  <2>4. QED
    BY <1>9, <2>2, <2>3, PrintedHolds
<1>12. QED
  BY <1>3, <1>10, <1>11 DEF FailureIsNamed, Of

----------------------------------------------------------------------------
(* What a search finds                                                     *)

\* A match of a file of the repository.
IsMatch(tree, m) ==
    /\ m.says = "match" /\ m.file \in DOMAIN tree /\ m.rank = tree[m.file].rank
    /\ m.line \in Nat /\ Fits(m.size)

\* The path of a file.
LEMMA PathMatches ==
    ASSUME NEW tree, Listing(tree), NEW token, NEW f \in DOMAIN tree
    PROVE  /\ Sequence(PathMatch(tree, token, f))
           /\ \A m \in ToSet(PathMatch(tree, token, f)) : IsMatch(tree, m) /\ m.file = f
<1> DEFINE m == [says |-> "match", rank |-> tree[f].rank, kind |-> 0, file |-> f, line |-> 0,
                 size |-> tree[f].size]
<1>1. IsMatch(tree, m) /\ m.file = f
  BY DEF IsMatch, Listing
<1>2. PathMatch(tree, token, f) = IF token \in tree[f].path THEN <<m>> ELSE <<>>
  BY DEF PathMatch
<1> HIDE DEF m
<1>3. Sequence(<<m>>) /\ ToSet(<<m>>) = {m} /\ Sequence(<<>>) /\ ToSet(<<>>) = {}
  BY SmallLists DEF ToSet
<1>4. QED
  BY <1>1, <1>2, <1>3

\* The lines of a file.
LEMMA LinesMatch ==
    ASSUME NEW tree, Listing(tree), NEW token, NEW f \in DOMAIN tree
    PROVE  /\ Sequence(LineMatches(tree, token, f))
           /\ \A m \in ToSet(LineMatches(tree, token, f)) : IsMatch(tree, m) /\ m.file = f
<1> DEFINE match(k) == [says |-> "match", rank |-> tree[f].rank, kind |-> 1, file |-> f, line |-> k,
                        size |-> tree[f].size + tree[f].lines[k].size]
           n     == Len(tree[f].lines)
           lines == [k \in DOMAIN tree[f].lines |-> match(k)]
           P     == MatchLines(tree[f], token)
<1>1. n \in Nat /\ DOMAIN tree[f].lines = 1 .. n
  BY ListFacts DEF Listing
<1>2. Sequence(lines) /\ DOMAIN lines = 1 .. n
  <2>1. lines = [k \in 1 .. n |-> lines[k]]
    BY <1>1
  <2> HIDE DEF lines, n
  <2>2. QED
    BY <1>1, <2>1, FunctionList
<1>3. \A k \in 1 .. n : IsMatch(tree, lines[k]) /\ lines[k].file = f
  <2>1. TAKE k \in 1 .. n
  <2>2. lines[k] = match(k)
    BY <1>1
  <2>3. Fits(tree[f].size + tree[f].lines[k].size)
    BY <1>1 DEF Listing
  <2>4. IsMatch(tree, match(k)) /\ match(k).file = f
    BY <2>3 DEF IsMatch
  <2> HIDE DEF lines, match
  <2>5. QED
    BY <2>2, <2>4
<1>4. P \in SUBSET (DOMAIN lines)
  BY DEF MatchLines
<1>5. LineMatches(tree, token, f) = FirstOf(At(lines, P), PerFileLimit)
  BY DEF LineMatches
<1> HIDE DEF lines, P
<1>6. Sequence(At(lines, P)) /\ ToSet(At(lines, P)) = {lines[i] : i \in P}
  BY <1>2, <1>4, AtHolds
<1>7. PerFileLimit \in Nat
  BY SearchAssumption
<1>8. /\ Sequence(FirstOf(At(lines, P), PerFileLimit))
      /\ ToSet(FirstOf(At(lines, P), PerFileLimit)) \subseteq {lines[i] : i \in P}
  BY <1>6, <1>7, FirstOfHolds
<1>9. QED
  BY <1>2, <1>3, <1>4, <1>5, <1>8

\* One list for each file.
LEMMA OfFiles ==
    ASSUME NEW tree, NEW files, Sequence(files), NEW ss, ss = [i \in DOMAIN files |-> ss[i]],
           \A i \in DOMAIN files : Sequence(ss[i]) /\ \A m \in ToSet(ss[i]) : IsMatch(tree, m)
    PROVE  Sequence(FlattenSeq(ss)) /\ \A m \in ToSet(FlattenSeq(ss)) : IsMatch(tree, m)
<1> DEFINE n == Len(files)
<1>1. n \in Nat /\ DOMAIN files = 1 .. n
  BY ListFacts
<1> HIDE DEF n
<1>2. ss = [i \in 1 .. n |-> ss[i]] /\ \A i \in 1 .. n : Sequence(ss[i])
  BY <1>1
<1>3. /\ Sequence(FlattenSeq(ss))
      /\ ToSet(FlattenSeq(ss)) = UNION {ToSet(ss[i]) : i \in 1 .. n}
  BY <1>1, <1>2, FlattenHolds
<1>4. QED
  BY <1>1, <1>3

\* Of the files of a rank.
LEMMA RankMatches ==
    ASSUME NEW tree, Listing(tree), NEW token, NEW rank
    PROVE  /\ Sequence(OfRank(tree, token, rank))
           /\ \A m \in ToSet(OfRank(tree, token, rank)) : IsMatch(tree, m)
<1> DEFINE ids   == [f \in DOMAIN tree |-> f]
           P     == {i \in DOMAIN ids : tree[ids[i]].rank = rank}
           files == Having(ids, LAMBDA f : tree[f].rank = rank)
           paths == [i \in DOMAIN files |-> PathMatch(tree, token, files[i])]
           lines == [i \in DOMAIN files |-> LineMatches(tree, token, files[i])]
<1>1. files = At(ids, P) /\ P \in SUBSET (DOMAIN ids)
  BY DEF Having
<1>2. Sequence(ids)
  <2>1. Len(tree) \in Nat /\ DOMAIN tree = 1 .. Len(tree)
    BY ListFacts DEF Listing
  <2>2. ids = [i \in 1 .. Len(tree) |-> ids[i]]
    BY <2>1
  <2> HIDE DEF ids
  <2>3. QED
    BY <2>1, <2>2, FunctionList
<1>3. OfRank(tree, token, rank) = FlattenSeq(paths) \o FlattenSeq(lines)
  BY DEF OfRank
<1>4. \A i \in P : ids[i] \in DOMAIN tree
  OBVIOUS
<1> HIDE DEF ids, P, files
<1>5. Sequence(files) /\ \A i \in DOMAIN files : files[i] \in DOMAIN tree
  <2>1. Sequence(files) /\ ToSet(files) = {ids[i] : i \in P}
    BY <1>1, <1>2, AtHolds
  <2>2. QED
    BY <1>4, <2>1 DEF ToSet
<1>6. \A i \in DOMAIN files : paths[i] = PathMatch(tree, token, files[i])
  OBVIOUS
<1>7. \A i \in DOMAIN files : lines[i] = LineMatches(tree, token, files[i])
  OBVIOUS
<1>8. paths = [i \in DOMAIN files |-> paths[i]] /\ lines = [i \in DOMAIN files |-> lines[i]]
  OBVIOUS
<1> HIDE DEF paths, lines
<1>9. \A i \in DOMAIN files : Sequence(paths[i]) /\ \A m \in ToSet(paths[i]) : IsMatch(tree, m)
  BY <1>5, <1>6, PathMatches
<1>10. \A i \in DOMAIN files : Sequence(lines[i]) /\ \A m \in ToSet(lines[i]) : IsMatch(tree, m)
  BY <1>5, <1>7, LinesMatch
<1>11. Sequence(FlattenSeq(paths)) /\ \A m \in ToSet(FlattenSeq(paths)) : IsMatch(tree, m)
  BY <1>5, <1>8, <1>9, OfFiles
<1>12. Sequence(FlattenSeq(lines)) /\ \A m \in ToSet(FlattenSeq(lines)) : IsMatch(tree, m)
  BY <1>5, <1>8, <1>10, OfFiles
<1>13. QED
  BY <1>3, <1>11, <1>12, ConcatHolds

\* Of all files.
LEMMA CollectHolds ==
    ASSUME NEW tree, Listing(tree), NEW token
    PROVE  /\ Sequence(Collect(tree, token))
           /\ \A m \in ToSet(Collect(tree, token)) : IsMatch(tree, m)
<1> DEFINE a == OfRank(tree, token, 0)
           b == OfRank(tree, token, 1)
           c == OfRank(tree, token, 2)
<1>1. /\ Sequence(a) /\ \A m \in ToSet(a) : IsMatch(tree, m)
      /\ Sequence(b) /\ \A m \in ToSet(b) : IsMatch(tree, m)
      /\ Sequence(c) /\ \A m \in ToSet(c) : IsMatch(tree, m)
  BY RankMatches
<1>2. Collect(tree, token) = a \o b \o c
  BY DEF Collect
<1> HIDE DEF a, b, c
<1>3. Sequence(a \o b) /\ ToSet(a \o b) = ToSet(a) \cup ToSet(b)
  BY <1>1, ConcatHolds
<1> DEFINE d == a \o b
<1> HIDE DEF d
<1>4. Sequence(d \o c) /\ ToSet(d \o c) = ToSet(d) \cup ToSet(c)
  BY <1>1, <1>3, ConcatHolds DEF d
<1>5. QED
  BY <1>1, <1>2, <1>3, <1>4 DEF d

\* Whole lines from the top while they fit, and the first one in any case.
LEMMA BoundedHolds ==
    ASSUME NEW lines, Sequence(lines), NEW max
    PROVE  /\ Sequence(Bounded(lines, max))
           /\ lines # <<>> => Bounded(lines, max) # <<>> /\ Head(Bounded(lines, max)) = Head(lines)
           /\ \A n \in DOMAIN lines : Sized(SubSeq(lines, 1, n)) <= max =>
                 lines[n] \in ToSet(Bounded(lines, max))
<1>1. CASE lines = <<>>
  <2>1. Bounded(lines, max) = <<>>
    BY <1>1 DEF Bounded
  <2>2. QED
    BY <1>1, <2>1, SmallLists
<1>2. CASE lines # <<>>
  <2> DEFINE fits == {n \in DOMAIN lines : n = 1 \/ Sized(SubSeq(lines, 1, n)) <= max}
             kept == CHOOSE n \in fits : \A m \in fits : m <= n
             head == SubSeq(lines, 1, kept)
             cut  == IF kept < Len(lines) THEN <<Label("cut")>> ELSE <<>>
  <2>1. Len(lines) \in Nat /\ Len(lines) > 0 /\ DOMAIN lines = 1 .. Len(lines) /\ Head(lines) = lines[1]
    BY <1>2, ListFacts
  <2>2. 1 \in fits /\ fits \in SUBSET (0 .. Len(lines))
    BY <2>1
  <2>3. \E n \in fits : \A m \in fits : m <= n
    <3> HIDE DEF fits
    <3>1. QED
      BY <2>1, <2>2, GreatestNatural
  <2>4. kept \in fits /\ \A m \in fits : m <= kept
    <3> HIDE DEF fits
    <3>1. QED
      BY <2>3
  <2>5. Bounded(lines, max) = head \o cut
    BY <1>2 DEF Bounded
  <2>6. kept \in 1 .. Len(lines)
    BY <2>1, <2>4
  <2> HIDE DEF kept
  <2>7. Sequence(head) /\ Len(head) = kept /\ \A i \in 1 .. kept : head[i] = lines[i]
    BY <2>1, <2>6, PrefixList
  <2>8. Sequence(cut)
    BY SmallLists
  <2> HIDE DEF head, cut
  <2>9. DOMAIN head = 1 .. kept /\ head # <<>> /\ Head(head) = lines[1]
    <3>1. DOMAIN head = 1 .. kept
      BY <2>7, ListFacts
    <3>2. head # <<>>
      BY <2>6, <2>7, EmptySeq
    <3>3. Head(head) = head[1] /\ 1 \in 1 .. kept
      BY <2>6, <2>7, <3>2, ListFacts
    <3>4. QED
      BY <2>7, <3>1, <3>2, <3>3
  <2>10. /\ Sequence(head \o cut) /\ ToSet(head) \subseteq ToSet(head \o cut)
         /\ Head(head \o cut) = Head(head) /\ ToSet(head) # {}
    BY <2>7, <2>8, <2>9, ConcatHolds, EmptyHoldsNothing
  <2>11. head \o cut # <<>>
    BY <2>10, EmptyHoldsNothing
  <2>12. ASSUME NEW n \in DOMAIN lines, Sized(SubSeq(lines, 1, n)) <= max
         PROVE  lines[n] \in ToSet(head)
    <3>1. n \in fits
      BY <2>12
    <3>2. n \in 1 .. kept
      <4>1. n <= kept
        BY <2>4, <3>1
      <4>2. QED
        BY <2>1, <2>6, <4>1
    <3>3. QED
      BY <2>7, <2>9, <3>2 DEF ToSet
  <2>13. QED
    BY <2>1, <2>5, <2>9, <2>10, <2>11, <2>12
<1>3. QED
  BY <1>1, <1>2

\* The matching lines of one file.
LEMMA TakenIsList ==
    ASSUME NEW tree, Listing(tree), NEW segment, NEW f
    PROVE  Sequence(Taken(tree, segment, f))
<1> DEFINE s == Collect(tree, segment)
           P == {i \in DOMAIN s : s[i].file = f /\ s[i].kind = 1}
<1>1. Sequence(s) /\ P \in SUBSET (DOMAIN s)
  BY CollectHolds
<1>2. Taken(tree, segment, f) = At(s, P)
  BY DEF Taken, Having
<1> HIDE DEF s, P
<1>3. QED
  BY <1>1, <1>2, AtHolds

\* What a search says of the pieces of its query.
LEMMA RelatedIsList ==
    ASSUME NEW tree, Listing(tree), NEW useful
    PROVE  Sequence(RelatedLines(tree, useful))
<1> DEFINE segment == Head(useful)
           files   == Grouped(tree, segment)
           some(k, n) == IF k > Len(files) THEN <<>> ELSE FirstOf(Taken(tree, segment, files[k]), n)
           sample  == Sample(tree, segment, files)
           all     == FirstOf(sample, RelatedMatches)
           lines   == Bounded(all, RelatedChars)
<1>1. CASE useful = <<>>
  BY <1>1, SmallLists DEF RelatedLines
<1>2. CASE useful # <<>>
  <2> HIDE DEF segment, files
  <2>1. \A k, n \in Nat : Sequence(some(k, n))
    <3>1. ASSUME NEW k \in Nat, NEW n \in Nat PROVE Sequence(some(k, n))
      <4>1. Sequence(Taken(tree, segment, files[k]))
        BY TakenIsList
      <4>2. Sequence(FirstOf(Taken(tree, segment, files[k]), n))
        BY <4>1, FirstOfHolds
      <4>3. QED
        BY <4>2, SmallLists
    <3> HIDE DEF some
    <3>2. QED
      BY <3>1
  <2>2. sample = some(1, 4) \o some(2, 2) \o some(3, 2)
    BY DEF Sample
  <2> HIDE DEF some, sample
  <2>3. Sequence(some(1, 4)) /\ Sequence(some(2, 2)) /\ Sequence(some(3, 2))
    BY <2>1
  <2>4. Sequence(some(1, 4) \o some(2, 2))
    BY <2>3, ConcatHolds
  <2>5. Sequence(sample)
    BY <2>2, <2>3, <2>4, ConcatHolds
  <2>6. Sequence(all)
    <3>1. RelatedMatches \in Nat
      BY SearchAssumption
    <3>2. QED
      BY <2>5, <3>1, FirstOfHolds
  <2> HIDE DEF all
  <2>7. Sequence(lines)
    BY <2>6, BoundedHolds
  <2> HIDE DEF lines
  <2>8. Sequence(<<Label("related")>> \o lines)
    BY <2>7, SmallLists, ConcatHolds
  <2>9. RelatedLines(tree, useful) = <<Label("related")>> \o lines
    BY <1>2 DEF RelatedLines, lines, all, sample, files, segment
  <2>10. QED
    BY <2>8, <2>9
<1>3. QED
  BY <1>1, <1>2

\* The files a list of matches is of.
LEMMA FilesOfMatches ==
    ASSUME NEW tree, Listing(tree), NEW shown, Sequence(shown), \A m \in ToSet(shown) : IsMatch(tree, m)
    PROVE  LET files == Distinct([i \in DOMAIN shown |-> shown[i].file])
           IN  Sequence(files) /\ ToSet(files) \subseteq DOMAIN tree
<1> DEFINE all == [i \in DOMAIN shown |-> shown[i].file]
           n   == Len(shown)
<1>1. n \in Nat /\ DOMAIN shown = 1 .. n
  BY ListFacts
<1>2. all = [i \in 1 .. n |-> all[i]] /\ \A i \in 1 .. n : all[i] \in DOMAIN tree
  <2>1. \A i \in 1 .. n : shown[i] \in ToSet(shown)
    BY <1>1 DEF ToSet
  <2>2. QED
    BY <1>1, <2>1 DEF IsMatch
<1> HIDE DEF all, n
<1>3. Sequence(all) /\ DOMAIN all = 1 .. n
  BY <1>1, <1>2, FunctionList
<1>4. Sequence(Distinct(all)) /\ ToSet(Distinct(all)) = ToSet(all)
  BY <1>3, DistinctHolds
<1>5. QED
  BY <1>2, <1>3, <1>4 DEF all, ToSet

\* Candidates are a list of candidates.
LEMMA CandidatesHold ==
    ASSUME NEW tree, Listing(tree), NEW shown, Sequence(shown), \A m \in ToSet(shown) : IsMatch(tree, m)
    PROVE  /\ Sequence(Candidates(tree, shown))
           /\ \A c \in ToSet(Candidates(tree, shown)) : c.says = "candidate"
<1> DEFINE files == Distinct([i \in DOMAIN shown |-> shown[i].file])
           first == FirstOf(files, 3)
           named == UNION {IF tree[f].readable THEN tree[f].imports ELSE {} : f \in ToSet(first)}
           deeper(f, g) ==
               tree[f].depth > tree[g].depth \/ (tree[f].depth = tree[g].depth /\ f < g)
           ranked == InOrder(named, deeper)
           best   == FirstOf(ranked, CandidateLimit)
           result == [k \in DOMAIN best |->
                         Line("candidate", ranked[k], tree[ranked[k]].size + LabelChars)]
<1>1. Candidates(tree, shown) = IF \E m \in ToSet(shown) : m.rank = 0 THEN <<>> ELSE result
  BY DEF Candidates
<1>2. Sequence(files) /\ ToSet(files) \subseteq DOMAIN tree
  BY FilesOfMatches
<1> HIDE DEF files
<1>3. ToSet(first) \subseteq DOMAIN tree
  BY <1>2, FirstOfHolds
<1> HIDE DEF first
<1>4. named \subseteq DOMAIN tree
  BY <1>3 DEF Listing
<1>5. Cardinality(named) \in Nat
  BY <1>4, DomainFacts, FS_Subset, FS_CardinalityType DEF Listing
<1>6. Sequence(ranked)
  <2> DEFINE n       == Cardinality(named)
             nth(k)  == CHOOSE x \in named : Cardinality({y \in named : deeper(y, x)}) = k - 1
  <2>1. ranked = [k \in 1 .. n |-> nth(k)]
    BY DEF InOrder
  <2> HIDE DEF n, named, deeper, ranked, nth
  <2>2. ranked = [k \in 1 .. n |-> ranked[k]]
    BY <2>1
  <2>3. n \in Nat
    BY <1>5 DEF n
  <2>4. QED
    BY <2>2, <2>3, FunctionList
<1> HIDE DEF ranked
<1>7. Sequence(best)
  <2>1. CandidateLimit \in Nat
    BY SearchAssumption
  <2>2. QED
    BY <1>6, <2>1, FirstOfHolds
<1> HIDE DEF best
<1>8. /\ result = [k \in DOMAIN best |-> result[k]]
      /\ \A k \in DOMAIN best : result[k].says = "candidate"
  BY DEF Line
<1> HIDE DEF result
<1>9. Sequence(result) /\ DOMAIN result = DOMAIN best
  <2>1. Len(best) \in Nat /\ DOMAIN best = 1 .. Len(best)
    BY <1>7, ListFacts
  <2>2. QED
    BY <1>8, <2>1, FunctionList
<1>10. \A c \in ToSet(result) : c.says = "candidate"
  BY <1>8, <1>9 DEF ToSet
<1>11. QED
  BY <1>1, <1>9, <1>10, SmallLists DEF ToSet

\* The longest tokens of a finite set, in a list.
LEMMA LongestFirstIsList ==
    ASSUME NEW tokens, IsFiniteSet(tokens), NEW order
    PROVE  Sequence(LongestFirst(tokens, order))
<1> DEFINE before(a, b) ==
               Length[a] > Length[b] \/ (Length[a] = Length[b] /\ order[a] < order[b])
           n      == Cardinality(tokens)
           nth(k) == CHOOSE x \in tokens : Cardinality({y \in tokens : before(y, x)}) = k - 1
           t      == LongestFirst(tokens, order)
<1>1. t = [k \in 1 .. n |-> nth(k)]
  BY DEF LongestFirst, InOrder
<1>2. n \in Nat
  BY FS_CardinalityType
<1> HIDE DEF n, before, nth, t
<1>3. t = [k \in 1 .. n |-> t[k]]
  BY <1>1
<1>4. Sequence(t)
  BY <1>2, <1>3, FunctionList
<1>5. QED
  BY <1>4 DEF t

\* The tokens long enough for a retry.
LEMMA LongEnoughIsList ==
    ASSUME NEW tokens, Sequence(tokens)
    PROVE  Sequence(LongEnough(tokens))
<1> DEFINE P == {i \in DOMAIN tokens : Length[tokens[i]] >= 4}
<1>1. P \in SUBSET (DOMAIN tokens) /\ LongEnough(tokens) = At(tokens, P)
  BY DEF LongEnough, Having
<1> HIDE DEF P
<1>2. QED
  BY <1>1, AtHolds

\* What the script tries.
LEMMA AttemptsAreList ==
    ASSUME NEW query, Sequence(query.parts), Sequence(query.words), NEW order
    PROVE  Sequence(ContainerAttempts(query, order))
<1> DEFINE tokens == {t \in ToSet(query.words) : Length[t] >= 4}
<1>1. IsFiniteSet(tokens)
  <2>1. query.words = [i \in DOMAIN query.words |-> query.words[i]]
    <3>1. query.words \in Seq(Range(query.words))
      BY DEF Sequence
    <3>2. QED
      BY <3>1
  <2>2. IsFiniteSet(Range(query.words))
    BY <2>1, FiniteRange, DomainFacts
  <2>3. tokens \subseteq Range(query.words)
    BY DEF ToSet, Range
  <2>4. QED
    BY <2>2, <2>3, FS_Subset
<1>2. Sequence(LongestWord(query, order))
  <2>1. Sequence(LongestFirst(tokens, order))
    BY <1>1, LongestFirstIsList
  <2>2. Sequence(FirstOf(LongestFirst(tokens, order), 1))
    BY <2>1, FirstOfHolds
  <2>3. QED
    BY <2>2 DEF LongestWord
<1>3. Sequence(LongEnough(Reverse(query.parts)))
  BY ReverseList, LongEnoughIsList
<1>4. QED
  BY <1>2, <1>3 DEF ContainerAttempts

\* A retry is made with a piece that has matches.
LEMMA AttemptsMatch ==
    ASSUME NEW tree, NEW attempts, Sequence(attempts)
    PROVE  /\ Sequence(Attempt(tree, attempts))
           /\ \A t \in ToSet(Attempt(tree, attempts)) : Collect(tree, t) # <<>>
<1> DEFINE P == {i \in DOMAIN attempts : Collect(tree, attempts[i]) # <<>>}
<1>1. P \in SUBSET (DOMAIN attempts) /\ Attempt(tree, attempts) = At(attempts, P)
  BY DEF Attempt, Having
<1>2. /\ Sequence(Attempt(tree, attempts))
      /\ ToSet(Attempt(tree, attempts)) = {attempts[i] : i \in P}
  <2> HIDE DEF P
  <2>1. QED
    BY <1>1, AtHolds
<1>3. QED
  BY <1>2

\* The hints are a list, and hold the candidates.
LEMMA NavigationHolds ==
    ASSUME NEW tree, Listing(tree), NEW query, NEW order,
           NEW shown, Sequence(shown), \A m \in ToSet(shown) : IsMatch(tree, m)
    PROVE  /\ Sequence(Navigation(tree, query, shown, order))
           /\ ToSet(Candidates(tree, shown)) \subseteq ToSet(Navigation(tree, query, shown, order))
<1> DEFINE related == IF \E m \in ToSet(shown) : m.rank = 0 THEN <<>> ELSE Related(tree, query, order)
           named   == Candidates(tree, shown)
<1>1. Sequence(Related(tree, query, order))
  BY RelatedIsList DEF Related
<1>2. Sequence(related)
  BY <1>1, SmallLists
<1>3. Sequence(named)
  BY CandidatesHold
<1>4. Navigation(tree, query, shown, order) = related \o named
  BY DEF Navigation
<1> HIDE DEF related, named
<1>5. QED
  BY <1>2, <1>3, <1>4, ConcatHolds DEF named

\* The answer to a query that has matches begins with the best and names the candidates.
LEMMA RenderHolds ==
    ASSUME NEW tree, Listing(tree), NEW query, NEW token, NEW total, total \in Nat \ {0},
           NEW max, NEW order
    PROVE  LET body  == Render(tree, query, token, total, max, order)
               found == Collect(tree, token)
           IN  /\ Sequence(body) /\ (found = <<>> => body = <<>>)
               /\ found # <<>> => /\ body # <<>> /\ Head(body) = Head(found)
                                  /\ ToSet(Candidates(tree, FirstOf(found, total))) \subseteq ToSet(body)
<1> DEFINE body  == Render(tree, query, token, total, max, order)
           found == Collect(tree, token)
           shown == FirstOf(found, total)
           hints == Navigation(tree, query, shown, order)
           left  == Remaining(hints, max)
<1>1. Sequence(found) /\ \A m \in ToSet(found) : IsMatch(tree, m)
  BY CollectHolds
<1>2. body = IF shown = <<>> THEN <<>> ELSE Bounded(shown, left) \o hints
  BY DEF Render, Rendered, WithHints
<1> HIDE DEF found, body
<1>3. /\ Sequence(shown) /\ \A m \in ToSet(shown) : IsMatch(tree, m)
      /\ found # <<>> => shown # <<>> /\ Head(shown) = Head(found)
      /\ found = <<>> => shown = <<>>
  <2>1. total \in Nat /\ total > 0
    OBVIOUS
  <2>2. /\ Sequence(shown) /\ ToSet(shown) \subseteq ToSet(found)
        /\ found # <<>> => shown # <<>> /\ Head(shown) = Head(found)
    BY <1>1, <2>1, FirstOfHolds
  <2>3. found = <<>> => shown = <<>>
    BY <1>1, <2>2, EmptyHoldsNothing
  <2>4. QED
    BY <1>1, <2>2, <2>3
<1> HIDE DEF shown
<1>4. Sequence(hints) /\ ToSet(Candidates(tree, shown)) \subseteq ToSet(hints)
  BY <1>3, NavigationHolds
<1> HIDE DEF hints, left
<1>5. CASE found = <<>>
  BY <1>2, <1>3, <1>5, SmallLists DEF found, body
<1>6. CASE found # <<>>
  <2> DEFINE matches == Bounded(shown, left)
  <2>1. Sequence(matches) /\ matches # <<>> /\ Head(matches) = Head(shown)
    BY <1>3, <1>6, BoundedHolds
  <2>2. body = matches \o hints
    BY <1>2, <1>3, <1>6
  <2> HIDE DEF matches
  <2>3. /\ Sequence(body) /\ ToSet(body) = ToSet(matches) \cup ToSet(hints)
        /\ Head(body) = Head(matches)
    BY <1>4, <2>1, <2>2, ConcatHolds
  <2>4. body # <<>>
    BY <2>1, <2>3, EmptyHoldsNothing
  <2>5. ToSet(Candidates(tree, shown)) \subseteq ToSet(body)
    BY <1>4, <2>3
  <2>6. Head(body) = Head(found)
    BY <1>3, <1>6, <2>1, <2>3
  <2>7. QED
    BY <1>6, <2>3, <2>4, <2>5, <2>6 DEF body, found, shown
<1>7. QED
  BY <1>5, <1>6

\* Three lines and their ends.
LEMMA ThreeLines ==
    ASSUME NEW lines, Len(lines) = 3, \A i \in 1 .. 3 : lines[i].size \in Nat
    PROVE  Sized(lines) = lines[1].size + lines[2].size + lines[3].size + 3
<1> DEFINE a == lines[1].size
           b == lines[2].size
           c == lines[3].size
           step(f) == [n \in 0 .. 3 |-> IF n = 0 THEN 0 ELSE f[n - 1] + lines[n].size + 1]
           sum     == CHOOSE f : f = step(f)
           g == [n \in 0 .. 3 |-> IF n = 0 THEN 0 ELSE IF n = 1 THEN a + 1
                                  ELSE IF n = 2 THEN a + b + 2 ELSE a + b + c + 3]
<1>1. a \in Nat /\ b \in Nat /\ c \in Nat
  OBVIOUS
<1>2. Sized(lines) = sum[3]
  BY DEF Sized
<1>3. g = step(g)
  <2>1. \A n \in 0 .. 3 : n = 0 \/ n = 1 \/ n = 2 \/ n = 3
    OBVIOUS
  <2> HIDE DEF a, b, c
  <2>2. g[0] = 0 /\ g[1] = a + 1 /\ g[2] = a + b + 2 /\ g[3] = a + b + c + 3
    OBVIOUS
  <2>3. \A n \in 0 .. 3 : g[n] = step(g)[n]
    <3>1. step(g)[0] = 0
      OBVIOUS
    <3>2. step(g)[1] = g[0] + a + 1 /\ step(g)[2] = g[1] + b + 1 /\ step(g)[3] = g[2] + c + 1
      BY DEF a, b, c
    <3> HIDE DEF g, step
    <3>3. QED
      BY <1>1, <2>1, <2>2, <3>1, <3>2
  <2>4. g = [n \in 0 .. 3 |-> g[n]] /\ step(g) = [n \in 0 .. 3 |-> step(g)[n]]
    OBVIOUS
  <2> HIDE DEF g, step
  <2>5. QED
    BY <2>3, <2>4
<1>4. sum = step(sum)
  <2> HIDE DEF g, step
  <2>1. QED
    BY <1>3
<1> HIDE DEF sum
<1>5. sum[0] = 0 /\ sum[1] = sum[0] + a + 1 /\ sum[2] = sum[1] + b + 1 /\ sum[3] = sum[2] + c + 1
  BY <1>4
<1> HIDE DEF a, b, c
<1>6. sum[3] = a + b + c + 3
  BY <1>1, <1>5
<1>7. QED
  BY <1>2, <1>6 DEF a, b, c

\* The query itself.
LEMMA DirectHolds ==
    ASSUME NEW tree, Listing(tree), NEW query, NEW order
    PROVE  LET lines == Direct(tree, query, order)
               found == Collect(tree, query.whole)
           IN  /\ Sequence(lines) /\ (found = <<>> => lines = <<>>)
               /\ found # <<>> => /\ lines # <<>> /\ Head(found) \in ToSet(lines)
                                  /\ ToSet(Candidates(tree, FirstOf(found, TotalLimit))) \subseteq ToSet(lines)
<1> DEFINE lines == Direct(tree, query, order)
           found == Collect(tree, query.whole)
<1>1. TotalLimit \in Nat \ {0}
  BY SearchAssumption
<1>2. lines = Render(tree, query, query.whole, TotalLimit, AnswerChars, order)
  BY DEF Direct
<1>3. /\ Sequence(lines) /\ (found = <<>> => lines = <<>>)
      /\ found # <<>> => /\ lines # <<>> /\ Head(lines) = Head(found)
                         /\ ToSet(Candidates(tree, FirstOf(found, TotalLimit))) \subseteq ToSet(lines)
  BY <1>1, <1>2, RenderHolds
<1> HIDE DEF lines, found
<1>4. lines # <<>> => Head(lines) \in ToSet(lines)
  BY <1>3, EndsAreIn
<1>5. QED
  BY <1>3, <1>4 DEF lines, found

\* The retry of the script: two lines, and then the best match of the piece it took.
LEMMA RetryHolds ==
    ASSUME NEW tree, Listing(tree), NEW query, NEW order, NEW useful, Sequence(useful),
           \A t \in ToSet(useful) : Collect(tree, t) # <<>>
    PROVE  LET lines == RetryOfContainer(tree, query, useful, order)
           IN  /\ Sequence(lines)
               /\ useful # <<>> => Head(Collect(tree, Head(useful))) \in ToSet(lines)
<1>1. CASE useful = <<>>
  <2> DEFINE a == Label("no exact matches")
             b == Label("suggested")
  <2>1. NothingFound = <<a, b>>
    BY DEF NothingFound
  <2> HIDE DEF a, b
  <2>2. <<a, b>> \in Seq({a, b})
    OBVIOUS
  <2>3. Sequence(NothingFound)
    BY <2>1, <2>2, SequenceOf
  <2>4. QED
    BY <1>1, <2>3 DEF RetryOfContainer
<1>2. CASE useful # <<>>
  <2> DEFINE token == Head(useful)
             found == Collect(tree, token)
             body  == Render(tree, query, token, FallbackLimit, AnswerChars, order)
             all   == Missed \o body
             best  == Head(found)
             top   == SubSeq(all, 1, 3)
  <2>1. found # <<>>
    BY <1>2, EndsAreIn
  <2>2. Sequence(body) /\ body # <<>> /\ Head(body) = best
    <3>1. FallbackLimit \in Nat \ {0}
      BY SearchAssumption
    <3> HIDE DEF token
    <3>2. QED
      BY <2>1, <3>1, RenderHolds
  <2>3. Fits(best.size)
    <3>1. Sequence(found) /\ \A m \in ToSet(found) : IsMatch(tree, m)
      BY CollectHolds
    <3> HIDE DEF found
    <3>2. best \in ToSet(found)
      BY <2>1, <3>1, EndsAreIn
    <3>3. QED
      BY <3>1, <3>2 DEF IsMatch
  <2>4. RetryOfContainer(tree, query, useful, order) = Bounded(all, AnswerChars)
    BY <1>2 DEF RetryOfContainer
  <2> HIDE DEF body, best
  <2>5. /\ Sequence(Missed) /\ Len(Missed) = 2 /\ Missed[1].size = LabelChars
        /\ Missed[2].size = LabelChars
    <3> DEFINE a == Label("no exact matches")
               b == Label("retried with")
    <3>1. a.size = LabelChars /\ b.size = LabelChars
      BY DEF Label, Line
    <3>2. Missed = <<a, b>>
      BY DEF Missed
    <3> HIDE DEF a, b
    <3>3. <<a, b>> \in Seq({a, b})
      OBVIOUS
    <3>4. Sequence(<<a, b>>)
      BY <3>3, SequenceOf
    <3>5. QED
      BY <3>1, <3>2, <3>4
  <2>6. Len(body) \in Nat /\ Len(body) > 0 /\ best = body[1]
    BY <2>2, ListFacts
  <2>7. /\ Sequence(all) /\ Len(all) = 2 + Len(body) /\ all[1] = Missed[1]
        /\ all[2] = Missed[2] /\ all[3] = best
    <3> DEFINE S == Range(Missed) \cup Range(body)
    <3>1. Range(Missed) \subseteq S /\ Range(body) \subseteq S
      OBVIOUS
    <3> HIDE DEF S
    <3>2. Missed \in Seq(S) /\ body \in Seq(S)
      BY <2>2, <2>5, <3>1, SeqMonotonic DEF Sequence
    <3>3. /\ all \in Seq(S) /\ Len(all) = 2 + Len(body)
          /\ \A i \in 1 .. 2 + Len(body) : all[i] = IF i <= 2 THEN Missed[i] ELSE body[i - 2]
      BY <2>5, <3>2, ConcatProperties
    <3> HIDE DEF all
    <3>4. Sequence(all)
      BY <3>3, SequenceOf
    <3>5. all[1] = Missed[1] /\ all[2] = Missed[2] /\ all[3] = body[1]
      BY <2>6, <3>3
    <3>6. QED
      BY <2>6, <3>3, <3>4, <3>5
  <2> HIDE DEF all
  <2>8. Len(top) = 3 /\ \A i \in 1 .. 3 : top[i] = all[i]
    <3>1. 3 \in Nat /\ 3 <= Len(all)
      BY <2>6, <2>7
    <3>2. QED
      BY <2>7, <3>1, PrefixList
  <2> HIDE DEF top
  <2>9. Sized(top) <= AnswerChars
    <3>1. LabelChars \in Nat /\ AnswerChars \in Nat
      BY SearchAssumption
    <3>2. top[1].size = LabelChars /\ top[2].size = LabelChars /\ top[3].size = best.size
      BY <2>5, <2>7, <2>8
    <3>3. best.size \in Nat /\ LabelChars + LabelChars + best.size + 3 <= AnswerChars
      BY <2>3 DEF Fits
    <3>4. Sized(top) = LabelChars + LabelChars + best.size + 3
      <4>1. \A i \in 1 .. 3 : top[i].size \in Nat
        BY <3>1, <3>2, <3>3
      <4>2. Sized(top) = top[1].size + top[2].size + top[3].size + 3
        BY <2>8, <4>1, ThreeLines
      <4>3. QED
        BY <3>2, <4>2
    <3>5. QED
      BY <3>3, <3>4
  <2>10. 3 \in DOMAIN all
    BY <2>6, <2>7, ListFacts
  <2>11. Sequence(Bounded(all, AnswerChars)) /\ best \in ToSet(Bounded(all, AnswerChars))
    <3>1. Sized(SubSeq(all, 1, 3)) <= AnswerChars
      BY <2>9 DEF top
    <3>2. QED
      BY <2>7, <2>10, <3>1, BoundedHolds
  <2>12. QED
    BY <2>4, <2>11 DEF best
<1>3. QED
  BY <1>1, <1>2

\* A search of the container.
LEMMA ContainerSearchHolds ==
    ASSUME NEW tree, Listing(tree), NEW query, Sequence(query.parts), Sequence(query.words), NEW order
    PROVE  LET lines  == ContainerSearch(tree, query, order)
               useful == Attempt(tree, ContainerAttempts(query, order))
           IN  /\ Sequence(lines)
               /\ Collect(tree, query.whole) # <<>> => Head(Collect(tree, query.whole)) \in ToSet(lines)
               /\ Collect(tree, query.whole) = <<>> /\ useful # <<>> =>
                     Head(Collect(tree, Head(useful))) \in ToSet(lines)
<1> DEFINE useful == Attempt(tree, ContainerAttempts(query, order))
           direct == Direct(tree, query, order)
           retry  == RetryOfContainer(tree, query, useful, order)
<1>1. Sequence(useful) /\ \A t \in ToSet(useful) : Collect(tree, t) # <<>>
  BY AttemptsAreList, AttemptsMatch
<1>2. ContainerSearch(tree, query, order) = IF direct # <<>> THEN direct ELSE retry
  BY DEF ContainerSearch, ContainerRetry, OrElse
<1> HIDE DEF useful
<1>3. /\ Sequence(retry)
      /\ useful # <<>> => Head(Collect(tree, Head(useful))) \in ToSet(retry)
  BY <1>1, RetryHolds
<1>4. /\ Sequence(direct) /\ (Collect(tree, query.whole) = <<>> => direct = <<>>)
      /\ Collect(tree, query.whole) # <<>> =>
            direct # <<>> /\ Head(Collect(tree, query.whole)) \in ToSet(direct)
  BY DirectHolds
<1> HIDE DEF direct, retry
<1>5. QED
  BY <1>2, <1>3, <1>4 DEF useful

----------------------------------------------------------------------------
(* The lines of a file                                                     *)

\* Where the k-th line ends.
EndOf(order, k) == IF k = 0 THEN 0 ELSE order[k]

\* The lines of c, and where they end.
LinesOf(c, order) ==
    /\ Sequence(SplitLines(c)) /\ Len(SplitLines(c)) \in Nat
    /\ Len(SplitLines(c)) = Tally(LineEnds(c), 0, Len(c))
    /\ InPlace(order, LineEnds(c), Len(SplitLines(c)))
    /\ \A k \in 1 .. Len(SplitLines(c)) :
          SplitLines(c)[k] = Slice(c, EndOf(order, k - 1), EndOf(order, k))

LEMMA SplitHolds ==
    ASSUME NEW c, Sequence(c)
    PROVE  \E order : LinesOf(c, order)
<1> DEFINE n    == Len(c)
           P    == LineEnds(c)
           spot == [i \in DOMAIN c |-> i]
           ends == At(spot, P)
           m    == Len(ends)
           lines == SplitLines(c)
<1>1. n \in Nat /\ DOMAIN c = 1 .. n /\ P \in SUBSET (1 .. n)
  BY ListFacts DEF LineEnds
<1>2. Sequence(spot) /\ DOMAIN spot = 1 .. n /\ \A i \in 1 .. n : spot[i] = i
  BY <1>1, FunctionList
<1>3. lines = [k \in DOMAIN ends |->
                  SubSeq(c, IF k = 1 THEN 1 ELSE ends[k - 1] + 1, ends[k])]
  BY DEF SplitLines
<1> HIDE DEF spot, P, n, lines
<1>4. /\ Sequence(ends) /\ m \in Nat /\ m = Tally(P, 0, n)
      /\ \E order : InPlace(order, P, m) /\ \A k \in 1 .. m : ends[k] = spot[order[k]]
  BY <1>1, <1>2, AtPlaces
<1> HIDE DEF ends
<1>5. PICK order : InPlace(order, P, m) /\ \A k \in 1 .. m : ends[k] = spot[order[k]]
  BY <1>4
<1>6. DOMAIN ends = 1 .. m
  BY <1>4, ListFacts
<1> HIDE DEF m
<1>7. \A k \in 1 .. m : ends[k] = order[k] /\ order[k] \in Nat
  <2>1. \A k \in 1 .. m : order[k] \in P
    BY <1>5 DEF InPlace
  <2>2. \A k \in 1 .. m : order[k] \in 1 .. n
    BY <1>1, <2>1
  <2>3. \A k \in 1 .. m : ends[k] = spot[order[k]]
    BY <1>5
  <2>4. QED
    BY <1>1, <1>2, <2>2, <2>3
<1>8. Sequence(lines) /\ Len(lines) = m
  <2>1. lines = [k \in 1 .. m |-> lines[k]]
    BY <1>3, <1>6
  <2>2. QED
    BY <1>4, <2>1, FunctionList
<1>9. ASSUME NEW k \in 1 .. m PROVE lines[k] = Slice(c, EndOf(order, k - 1), EndOf(order, k))
  <2>1. lines[k] = SubSeq(c, IF k = 1 THEN 1 ELSE ends[k - 1] + 1, ends[k])
    BY <1>3, <1>6
  <2>2. (IF k = 1 THEN 1 ELSE ends[k - 1] + 1) = EndOf(order, k - 1) + 1
    <3>1. CASE k = 1
      BY <3>1 DEF EndOf
    <3>2. CASE k # 1
      <4>1. k - 1 \in 1 .. m /\ k - 1 # 0
        BY <1>4, <3>2
      <4>2. QED
        BY <1>7, <3>2, <4>1 DEF EndOf
    <3>3. QED
      BY <3>1, <3>2
  <2>3. ends[k] = EndOf(order, k)
    BY <1>4, <1>7 DEF EndOf
  <2>4. QED
    BY <2>1, <2>2, <2>3 DEF Slice
<1>10. LinesOf(c, order)
  BY <1>4, <1>5, <1>8, <1>9 DEF LinesOf, P, n, lines
<1>11. QED
  BY <1>10

\* Lines end one after the other, the last with the file.
LEMMA EndsHold ==
    ASSUME NEW c, Sequence(c), NEW order, LinesOf(c, order)
    PROVE  /\ \A k \in 0 .. Len(SplitLines(c)) :
                 EndOf(order, k) \in 0 .. Len(c) /\ Tally(LineEnds(c), 0, EndOf(order, k)) = k
           /\ \A k \in 1 .. Len(SplitLines(c)) :
                 EndOf(order, k - 1) < EndOf(order, k) /\ EndOf(order, k) \in LineEnds(c)
           /\ EndOf(order, Len(SplitLines(c))) = Len(c)
           /\ \A j, k \in 0 .. Len(SplitLines(c)) : j <= k => EndOf(order, j) <= EndOf(order, k)
<1> DEFINE n == Len(c)
           P == LineEnds(c)
           m == Len(SplitLines(c))
<1>1. n \in Nat /\ DOMAIN c = 1 .. n /\ P \in SUBSET (1 .. n) /\ (n > 0 => n \in P)
  BY ListFacts DEF LineEnds
<1>2. m \in Nat /\ m = Tally(P, 0, n) /\ InPlace(order, P, m)
  BY DEF LinesOf
<1> HIDE DEF n, P, m
<1>3. /\ \A k \in 1 .. m : order[k] \in P /\ order[k] \in 1 .. n /\ Tally(P, 0, order[k]) = k
      /\ \A i \in P : Tally(P, 0, i) \in 1 .. m /\ order[Tally(P, 0, i)] = i
      /\ \A j, k \in 1 .. m : j < k => order[j] < order[k]
  BY <1>1, <1>2 DEF InPlace
<1>4. Tally(P, 0, 0) = 0
  <2>1. 0 \in Nat /\ 0 <= 0
    OBVIOUS
  <2>2. QED
    BY <2>1, TallyFacts
<1>5. ASSUME NEW k \in 0 .. m
      PROVE  EndOf(order, k) \in 0 .. n /\ Tally(P, 0, EndOf(order, k)) = k
  <2>1. CASE k = 0
    BY <1>1, <1>4, <2>1 DEF EndOf
  <2>2. CASE k # 0
    <3>1. k \in 1 .. m
      BY <1>2, <2>2
    <3>2. EndOf(order, k) = order[k]
      BY <2>2 DEF EndOf
    <3>3. QED
      BY <1>1, <1>3, <3>1, <3>2
  <2>3. QED
    BY <2>1, <2>2
<1>6. ASSUME NEW k \in 1 .. m
      PROVE  EndOf(order, k - 1) < EndOf(order, k) /\ EndOf(order, k) \in P
  <2>1. k # 0 /\ EndOf(order, k) = order[k]
    BY <1>2 DEF EndOf
  <2>2. CASE k = 1
    BY <1>1, <1>3, <2>1, <2>2 DEF EndOf
  <2>3. CASE k # 1
    <3>1. k - 1 \in 1 .. m /\ k - 1 # 0 /\ k - 1 < k
      BY <1>2, <2>3
    <3>2. EndOf(order, k - 1) = order[k - 1]
      BY <3>1 DEF EndOf
    <3>3. QED
      BY <1>3, <2>1, <3>1, <3>2
  <2>4. QED
    BY <2>2, <2>3
<1>7. EndOf(order, m) = n
  <2>1. CASE n = 0
    BY <1>2, <1>4, <2>1 DEF EndOf
  <2>2. CASE n # 0
    <3>1. n \in P
      BY <1>1, <2>2
    <3>2. m \in 1 .. m /\ order[m] = n
      BY <1>2, <1>3, <3>1
    <3>3. QED
      BY <1>2, <3>2 DEF EndOf
  <2>3. QED
    BY <2>1, <2>2
<1>8. ASSUME NEW j \in 0 .. m, NEW k \in 0 .. m, j <= k PROVE EndOf(order, j) <= EndOf(order, k)
  <2>1. EndOf(order, j) \in 0 .. n /\ EndOf(order, k) \in 0 .. n
    BY <1>5
  <2>2. CASE j = k \/ j = 0
    BY <1>1, <2>1, <2>2 DEF EndOf
  <2>3. CASE j # k /\ j # 0
    <3>1. j \in 1 .. m /\ k \in 1 .. m /\ j < k /\ j # 0 /\ k # 0
      BY <1>2, <1>8, <2>3
    <3>2. order[j] < order[k] /\ EndOf(order, j) = order[j] /\ EndOf(order, k) = order[k]
      BY <1>3, <3>1 DEF EndOf
    <3>3. QED
      BY <1>1, <2>1, <3>2
  <2>4. QED
    BY <2>2, <2>3
<1>9. QED
  BY <1>5, <1>6, <1>7, <1>8 DEF n, P, m

\* A file that begins as c does ends its lines where c does.
LEMMA SameEnds ==
    ASSUME NEW c, Sequence(c), NEW oc, LinesOf(c, oc), NEW x, Sequence(x), NEW ox, LinesOf(x, ox),
           \A i \in 1 .. Len(x) : i \in LineEnds(c) <=> i \in LineEnds(x)
    PROVE  /\ \A i \in 0 .. Len(x) : Tally(LineEnds(c), 0, i) = Tally(LineEnds(x), 0, i)
           /\ \A k \in 0 .. Len(SplitLines(x)) : EndOf(oc, k) = EndOf(ox, k)
<1> DEFINE E  == LineEnds(c)
           Ex == LineEnds(x)
           L  == Len(x)
           p  == Len(SplitLines(x))
<1>1. L \in Nat /\ Ex \subseteq 1 .. L /\ \A i \in 1 .. L : i \in E <=> i \in Ex
  BY ListFacts DEF LineEnds
<1>2. /\ \A k \in 0 .. p : EndOf(ox, k) \in 0 .. L /\ Tally(Ex, 0, EndOf(ox, k)) = k
      /\ \A k \in 1 .. p : EndOf(ox, k) \in Ex
      /\ p \in Nat
  BY EndsHold DEF LinesOf
<1>3. \A i \in E : oc[Tally(E, 0, i)] = i
  BY DEF LinesOf, InPlace
<1> HIDE DEF E, Ex, L, p
<1>4. ASSUME NEW i \in 0 .. L PROVE Tally(E, 0, i) = Tally(Ex, 0, i)
  <2>1. i \in Nat /\ 0 \in Nat /\ 0 <= i /\ i - 0 = i - 0
    BY <1>1
  <2>2. \A j \in 1 .. i - 0 : 0 + j \in E <=> 0 + j \in Ex
    <3>1. ASSUME NEW j \in 1 .. i - 0 PROVE 0 + j \in E <=> 0 + j \in Ex
      <4>1. 0 + j \in 1 .. L
        BY <1>1
      <4>2. QED
        BY <1>1, <4>1
    <3>2. QED
      BY <3>1
  <2>3. Alike(E, 0, i, Ex, 0, i)
    BY <2>1, <2>2 DEF Alike
  <2>4. QED
    BY <2>3, TallySame
<1>5. ASSUME NEW k \in 0 .. p PROVE EndOf(oc, k) = EndOf(ox, k)
  <2>1. CASE k = 0
    BY <2>1 DEF EndOf
  <2>2. CASE k # 0
    <3>1. k \in 1 .. p
      BY <1>2, <2>2
    <3>2. EndOf(ox, k) \in Ex /\ EndOf(ox, k) \in 0 .. L /\ Tally(Ex, 0, EndOf(ox, k)) = k
      BY <1>2, <3>1
    <3>3. EndOf(ox, k) \in E /\ Tally(E, 0, EndOf(ox, k)) = k
      BY <1>1, <1>4, <3>2
    <3>4. oc[k] = EndOf(ox, k)
      BY <1>3, <3>3
    <3>5. QED
      BY <2>2, <3>4 DEF EndOf
  <2>3. QED
    BY <2>1, <2>2
<1>6. QED
  BY <1>4, <1>5 DEF E, Ex, L, p

\* Lines that are put after whole lines stay lines.
LEMMA SplitConcat ==
    ASSUME NEW x, Sequence(x), NEW y, Sequence(y), x = <<>> \/ Last(x) \in Breaks
    PROVE  SplitLines(x \o y) = SplitLines(x) \o SplitLines(y)
<1> DEFINE c  == x \o y
           L  == Len(x)
           K  == Len(y)
           E  == LineEnds(c)
           Ex == LineEnds(x)
           Ey == LineEnds(y)
           lx == SplitLines(x)
           ly == SplitLines(y)
           lc == SplitLines(c)
           p  == Len(lx)
           q  == Len(ly)
<1>1. L \in Nat /\ K \in Nat /\ DOMAIN x = 1 .. L /\ DOMAIN y = 1 .. K
      /\ (L > 0 => x[L] \in Breaks)
  <2>1. x = <<>> => L = 0
    OBVIOUS
  <2>2. QED
    BY <2>1, ListFacts
<1>2. /\ Sequence(c) /\ Len(c) = L + K
      /\ \A i \in 1 .. L : c[i] = x[i]
      /\ \A i \in 1 .. K : c[L + i] = y[i]
  BY ConcatAt
<1>3. DOMAIN c = 1 .. L + K
  BY <1>2, ListFacts
<1>4. PICK ox : LinesOf(x, ox)
  BY SplitHolds
<1>5. PICK oy : LinesOf(y, oy)
  BY SplitHolds
<1>6. PICK oc : LinesOf(c, oc)
  BY <1>2, SplitHolds
<1>7. /\ Sequence(lx) /\ p \in Nat /\ p = Tally(Ex, 0, L)
      /\ \A k \in 1 .. p : lx[k] = Slice(x, EndOf(ox, k - 1), EndOf(ox, k))
  BY <1>4 DEF LinesOf
<1>8. /\ Sequence(ly) /\ q \in Nat /\ q = Tally(Ey, 0, K)
      /\ \A k \in 1 .. q : ly[k] = Slice(y, EndOf(oy, k - 1), EndOf(oy, k))
  BY <1>5 DEF LinesOf
<1>9. /\ Sequence(lc) /\ Len(lc) \in Nat /\ Len(lc) = Tally(E, 0, L + K)
      /\ \A k \in 1 .. Len(lc) : lc[k] = Slice(c, EndOf(oc, k - 1), EndOf(oc, k))
      /\ InPlace(oc, E, Len(lc))
  BY <1>2, <1>6 DEF LinesOf
<1>10. /\ \A k \in 0 .. p : EndOf(ox, k) \in 0 .. L /\ Tally(Ex, 0, EndOf(ox, k)) = k
       /\ \A k \in 1 .. p : EndOf(ox, k - 1) < EndOf(ox, k) /\ EndOf(ox, k) \in Ex
       /\ EndOf(ox, p) = L
  BY <1>4, EndsHold
<1>11. /\ \A k \in 0 .. q : EndOf(oy, k) \in 0 .. K /\ Tally(Ey, 0, EndOf(oy, k)) = k
       /\ \A k \in 1 .. q : EndOf(oy, k - 1) < EndOf(oy, k) /\ EndOf(oy, k) \in Ey
  BY <1>5, EndsHold
<1>0. /\ \A i \in 1 .. L + K : i \in E <=> (c[i] \in Breaks \/ i = L + K)
      /\ \A i \in 1 .. L : i \in Ex <=> (x[i] \in Breaks \/ i = L)
      /\ \A i \in 1 .. K : i \in Ey <=> (y[i] \in Breaks \/ i = K)
  <2>1. Len(c) = L + K /\ DOMAIN c = 1 .. L + K
    BY <1>2, <1>3
  <2> HIDE DEF c
  <2>2. QED
    BY <1>1, <2>1 DEF LineEnds
<1>14. Ex \subseteq 1 .. L /\ Ey \subseteq 1 .. K /\ E \subseteq 1 .. L + K
  BY <1>1, <1>3 DEF LineEnds
<1> HIDE DEF c, L, K, E, Ex, Ey, lx, ly, lc, p, q
<1>12. ASSUME NEW i \in 1 .. L PROVE i \in E <=> i \in Ex
  <2>1. i \in 1 .. L + K /\ (i = L + K => i = L) /\ (i = L => x[i] \in Breaks)
    BY <1>1
  <2>2. QED
    BY <1>0, <1>2, <2>1
<1>13. ASSUME NEW i \in 1 .. K PROVE L + i \in E <=> i \in Ey
  <2>1. L + i \in 1 .. L + K /\ (L + i = L + K <=> i = K)
    BY <1>1
  <2>2. QED
    BY <1>0, <1>2, <2>1
<1>15. \A i \in 0 .. L : Tally(E, 0, i) = Tally(Ex, 0, i)
  BY <1>2, <1>4, <1>6, <1>12, SameEnds DEF c, L, E, Ex
<1>16. ASSUME NEW i \in 0 .. K PROVE Tally(E, 0, L + i) = p + Tally(Ey, 0, i)
  <2>1. PICK z : z = L + i
    OBVIOUS
  <2>2. 0 \in Nat /\ i \in Nat /\ z \in Nat /\ 0 <= L /\ L <= z /\ 0 <= i
    BY <1>1, <2>1
  <2>3. /\ Tally(E, 0, z) = Tally(E, 0, L) + Tally(E, L, z)
        /\ Tally(E, 0, L) \in Nat /\ Tally(E, L, z) \in Nat
    BY <1>1, <2>2, TallySplit
  <2>4. Tally(E, 0, L) = p
    <3>1. L \in 0 .. L
      BY <1>1
    <3>2. QED
      BY <1>7, <1>15, <3>1
  <2>5. z - L = i - 0 /\ \A j \in 1 .. z - L : L + j \in E <=> 0 + j \in Ey
    <3>1. z - L = i - 0
      BY <1>1, <2>1
    <3>2. ASSUME NEW j \in 1 .. z - L PROVE L + j \in E <=> 0 + j \in Ey
      <4>1. j \in 1 .. K /\ 0 + j = j
        BY <1>1, <3>1
      <4>2. QED
        BY <1>13, <4>1
    <3>3. QED
      BY <3>1, <3>2
  <2>6. Tally(E, L, z) = Tally(Ey, 0, i)
    <3>1. L \in Nat /\ z \in Nat /\ 0 \in Nat /\ i \in Nat /\ L <= z /\ 0 <= i
      BY <1>1, <2>2
    <3>2. Alike(E, L, z, Ey, 0, i)
      BY <2>5, <3>1 DEF Alike
    <3>3. QED
      BY <3>2, TallySame
  <2>7. QED
    BY <2>1, <2>3, <2>4, <2>6
<1>17. Len(lc) = p + q
  <2>1. K \in 0 .. K
    BY <1>1
  <2>2. QED
    BY <1>8, <1>9, <1>16, <2>1
<1>18. \A i \in E : oc[Tally(E, 0, i)] = i
  BY <1>9 DEF InPlace
<1>19. \A k \in 0 .. p : EndOf(oc, k) = EndOf(ox, k)
  BY <1>2, <1>4, <1>6, <1>12, SameEnds DEF c, L, E, Ex, p, lx
<1>20. ASSUME NEW k \in 0 .. q PROVE EndOf(oc, p + k) = L + EndOf(oy, k)
  <2>1. CASE k = 0
    <3>1. p \in 0 .. p /\ p + 0 = p /\ L + 0 = L
      BY <1>1, <1>7
    <3>2. EndOf(oc, p) = L
      BY <1>10, <1>19, <3>1
    <3>3. EndOf(oy, k) = 0
      BY <2>1 DEF EndOf
    <3>4. QED
      BY <2>1, <3>1, <3>2, <3>3
  <2>2. CASE k # 0
    <3>1. k \in 1 .. q
      BY <1>8, <2>2
    <3>2. PICK e : e = EndOf(oy, k)
      OBVIOUS
    <3>3. e \in Ey /\ e \in 0 .. K /\ Tally(Ey, 0, e) = k
      BY <1>11, <3>1, <3>2
    <3>4. L + e \in E /\ Tally(E, 0, L + e) = p + k
      BY <1>13, <1>14, <1>16, <3>3
    <3>5. oc[p + k] = L + e
      BY <1>18, <3>4
    <3>6. p + k # 0
      BY <1>7, <3>1
    <3>7. QED
      BY <3>2, <3>5, <3>6 DEF EndOf
  <2>3. QED
    BY <2>1, <2>2
<1>21. ASSUME NEW k \in 1 .. p PROVE lc[k] = lx[k]
  <2>1. k \in 1 .. Len(lc) /\ k \in 0 .. p /\ k - 1 \in 0 .. p
    BY <1>7, <1>8, <1>17
  <2>2. lc[k] = Slice(c, EndOf(ox, k - 1), EndOf(ox, k))
    BY <1>9, <1>19, <2>1
  <2>3. PICK a : a = EndOf(ox, k - 1)
    OBVIOUS
  <2>4. PICK b : b = EndOf(ox, k)
    OBVIOUS
  <2>5. a \in 0 .. L /\ b \in 0 .. L /\ a < b
    BY <1>10, <2>1, <2>3, <2>4
  <2>6. a \in Nat /\ b \in Nat /\ a <= b /\ b <= Len(x)
    BY <1>1, <2>5 DEF L
  <2>7. Slice(c, a, b) = Slice(x, a, b)
    BY <2>6, SliceOfConcat DEF c
  <2>8. QED
    BY <1>7, <2>2, <2>3, <2>4, <2>7
<1>22. ASSUME NEW k \in 1 .. q PROVE lc[p + k] = ly[k]
  <2>1. p + k \in 1 .. Len(lc) /\ k \in 0 .. q /\ k - 1 \in 0 .. q /\ (p + k) - 1 = p + (k - 1)
    BY <1>7, <1>8, <1>17
  <2>2. PICK a : a = EndOf(oy, k - 1)
    OBVIOUS
  <2>3. PICK b : b = EndOf(oy, k)
    OBVIOUS
  <2>4. a \in 0 .. K /\ b \in 0 .. K /\ a < b
    BY <1>11, <2>1, <2>2, <2>3
  <2>5. lc[p + k] = Slice(c, EndOf(oc, p + (k - 1)), EndOf(oc, p + k))
    BY <1>9, <2>1
  <2>6. lc[p + k] = Slice(c, L + a, L + b)
    BY <1>20, <2>1, <2>2, <2>3, <2>5
  <2>7. a \in Nat /\ b \in Nat /\ a <= b /\ b <= Len(y)
    BY <1>1, <2>4 DEF K
  <2>8. Slice(c, L + a, L + b) = Slice(y, a, b)
    BY <2>7, SliceOfConcat DEF c, L
  <2>9. QED
    BY <1>8, <2>2, <2>3, <2>6, <2>8
<1>23. /\ Sequence(lx \o ly) /\ Len(lx \o ly) = p + q
       /\ \A k \in 1 .. p : (lx \o ly)[k] = lx[k]
       /\ \A k \in 1 .. q : (lx \o ly)[p + k] = ly[k]
  <2>1. Sequence(lx) /\ Sequence(ly)
    BY <1>7, <1>8
  <2>2. /\ Sequence(lx \o ly) /\ Len(lx \o ly) = Len(lx) + Len(ly)
        /\ \A k \in 1 .. Len(lx) : (lx \o ly)[k] = lx[k]
        /\ \A k \in 1 .. Len(ly) : (lx \o ly)[Len(lx) + k] = ly[k]
    BY <2>1, ConcatAt
  <2>3. QED
    BY <2>2 DEF p, q
<1>24. PICK both : both = lx \o ly
  OBVIOUS
<1>25. ASSUME NEW k \in 1 .. Len(lc) PROVE lc[k] = both[k]
  <2>1. k \in 1 .. p \/ (k - p \in 1 .. q /\ p + (k - p) = k)
    BY <1>7, <1>8, <1>17
  <2>2. CASE k \in 1 .. p
    BY <1>21, <1>23, <1>24, <2>2
  <2>3. CASE k - p \in 1 .. q /\ p + (k - p) = k
    <3>1. PICK j \in 1 .. q : p + j = k
      BY <2>3
    <3>2. QED
      BY <1>22, <1>23, <1>24, <3>1
  <2>4. QED
    BY <2>1, <2>2, <2>3
<1>26. lc = both
  BY <1>9, <1>17, <1>23, <1>24, <1>25, SameList
<1>27. QED
  BY <1>24, <1>26 DEF lc, lx, ly, c

\* The last line ends as the file does.
LEMMA LastLine ==
    ASSUME NEW c, Sequence(c), c # <<>>
    PROVE  /\ Len(SplitLines(c)) > 0
           /\ Last(SplitLines(c)[Len(SplitLines(c))]) = Last(c)
<1> DEFINE m    == Len(SplitLines(c))
           line == SplitLines(c)[m]
<1>1. PICK order : LinesOf(c, order)
  BY SplitHolds
<1>2. m \in Nat /\ \A k \in 1 .. m : SplitLines(c)[k] = Slice(c, EndOf(order, k - 1), EndOf(order, k))
  BY <1>1 DEF LinesOf
<1>3. Len(c) \in Nat /\ Len(c) > 0 /\ Last(c) = c[Len(c)]
  BY ListFacts
<1>4. EndOf(order, m) = Len(c)
  BY <1>1, EndsHold
<1>5. m > 0
  <2>1. m = 0 => EndOf(order, m) = 0
    BY DEF EndOf
  <2>2. QED
    BY <1>2, <1>3, <1>4, <2>1
<1>6. PICK e : e = EndOf(order, m - 1)
  OBVIOUS
<1>7. /\ \A k \in 0 .. m : EndOf(order, k) \in 0 .. Len(c)
      /\ \A k \in 1 .. m : EndOf(order, k - 1) < EndOf(order, k)
  BY <1>1, EndsHold
<1> HIDE DEF m, line
<1>8. m \in 1 .. m /\ m - 1 \in 0 .. m
  BY <1>2, <1>5
<1>9. e \in Nat /\ e < Len(c) /\ e <= Len(c)
  BY <1>3, <1>4, <1>6, <1>7, <1>8
<1>10. line = Slice(c, e, Len(c))
  BY <1>2, <1>4, <1>6, <1>8 DEF line, m
<1>11. Len(c) <= Len(c)
  BY <1>3
<1>12. /\ Sequence(line) /\ Len(line) = Len(c) - e
       /\ \A i \in 1 .. Len(c) - e : line[i] = c[e + i]
  BY <1>3, <1>9, <1>10, <1>11, SliceList
<1>13. line[Len(c) - e] = c[Len(c)]
  <2>1. Len(c) - e \in 1 .. Len(c) - e /\ e + (Len(c) - e) = Len(c)
    BY <1>3, <1>9
  <2>2. QED
    BY <1>12, <2>1
<1>14. Len(line) > 0
  BY <1>3, <1>9, <1>12
<1>15. Last(line) = line[Len(line)]
  <2>1. line # <<>>
    BY <1>14
  <2>2. QED
    BY <1>12, <2>1, ListFacts
<1>16. QED
  BY <1>3, <1>5, <1>12, <1>13, <1>15 DEF line, m

\* An empty file has no lines.
LEMMA NoLines == SplitLines(<<>>) = <<>>
<1>1. Sequence(<<>>) /\ Len(<<>>) = 0
  BY SmallLists
<1>2. PICK order : LinesOf(<<>>, order)
  BY <1>1, SplitHolds
<1>3. /\ Sequence(SplitLines(<<>>)) /\ Len(SplitLines(<<>>)) = Tally(LineEnds(<<>>), 0, 0)
  BY <1>1, <1>2 DEF LinesOf
<1>4. Tally(LineEnds(<<>>), 0, 0) = 0
  <2>1. 0 \in Nat /\ 0 <= 0
    OBVIOUS
  <2>2. PICK P : P = LineEnds(<<>>)
    OBVIOUS
  <2>3. Tally(P, 0, 0) = 0
    BY <2>1, TallyFacts
  <2>4. QED
    BY <2>2, <2>3
<1>5. QED
  BY <1>3, <1>4, ListFacts

\* The lines make up the file.
LEMMA FlattenSplit ==
    ASSUME NEW c, Sequence(c)
    PROVE  FlattenSeq(SplitLines(c)) = c
<1> DEFINE lines == SplitLines(c)
           m     == Len(lines)
           S     == Range(c)
<1>1. PICK order : LinesOf(c, order)
  BY SplitHolds
<1>2. /\ Sequence(lines) /\ m \in Nat
      /\ \A k \in 1 .. m : lines[k] = Slice(c, EndOf(order, k - 1), EndOf(order, k))
  BY <1>1 DEF LinesOf
<1>3. /\ \A k \in 0 .. m : EndOf(order, k) \in 0 .. Len(c)
      /\ \A k \in 1 .. m : EndOf(order, k - 1) < EndOf(order, k)
      /\ EndOf(order, m) = Len(c)
  BY <1>1, EndsHold
<1>4. c \in Seq(S) /\ Len(c) \in Nat /\ DOMAIN c = 1 .. Len(c)
  BY ListFacts DEF Sequence
<1>5. CASE m = 0
  <2>1. Len(c) = 0
    BY <1>3, <1>5 DEF EndOf
  <2>2. c = <<>>
    BY <2>1, ListFacts
  <2>3. FlattenSeq(<<>>) = <<>>
    BY DEF FlattenSeq
  <2>4. QED
    BY <2>2, <2>3, NoLines
<1>6. CASE m > 0
  <2> HIDE DEF lines, m, S
  <2>1. ASSUME NEW k \in 1 .. m
        PROVE  /\ EndOf(order, k - 1) \in Nat /\ EndOf(order, k) \in Nat
               /\ EndOf(order, k - 1) <= EndOf(order, k) /\ EndOf(order, k) <= Len(c)
    <3>1. k \in 0 .. m /\ k - 1 \in 0 .. m
      BY <1>2
    <3>2. QED
      BY <1>3, <1>4, <3>1
  <2>2. ASSUME NEW k \in 1 .. m PROVE lines[k] \in Seq(S)
    <3>1. PICK a : a = EndOf(order, k - 1)
      OBVIOUS
    <3>2. PICK b : b = EndOf(order, k)
      OBVIOUS
    <3>3. a \in Nat /\ b \in Nat /\ a <= b /\ b <= Len(c)
      BY <2>1, <3>1, <3>2
    <3>4. \A i \in a + 1 .. b : c[i] \in S
      BY <1>4, <3>3 DEF S, Range
    <3>5. SubSeq(c, a + 1, b) \in Seq(S)
      BY <3>3, <3>4, SubSeqProperties
    <3>6. QED
      BY <1>2, <3>1, <3>2, <3>5 DEF Slice
  <2>3. lines \in Seq(Seq(S)) /\ lines # <<>>
    <3>1. lines \in Seq(Range(lines)) /\ DOMAIN lines = 1 .. m
      BY <1>2, ListFacts DEF m, Sequence
    <3>2. Range(lines) \subseteq Seq(S)
      BY <2>2, <3>1 DEF Range
    <3>3. lines \in Seq(Seq(S))
      BY <3>1, <3>2, SeqMonotonic
    <3>4. lines # <<>>
      BY <1>6 DEF m
    <3>5. QED
      BY <3>3, <3>4
  <2>4. PICK f : /\ DOMAIN f = 1 .. Len(lines) /\ f[1] = lines[1]
                 /\ \A i \in 2 .. Len(lines) : f[i] = f[i - 1] \o lines[i]
                 /\ FlattenSeq(lines) = f[Len(lines)]
    BY <2>3, FlattenSteps
  <2>5. /\ f[1] = lines[1] /\ FlattenSeq(lines) = f[m]
        /\ \A i \in 2 .. m : f[i] = f[i - 1] \o lines[i]
    BY <2>4 DEF m
  <2> DEFINE T == {k \in 1 .. m : f[k] = Slice(c, 0, EndOf(order, k))}
  <2>6. 1 \in T
    <3>1. 1 \in 1 .. m /\ 1 - 1 = 0 /\ EndOf(order, 0) = 0
      BY <1>2, <1>6 DEF EndOf
    <3>2. QED
      BY <1>2, <2>5, <3>1
  <2>7. ASSUME NEW k \in 1 .. m - 1, k \in T PROVE k + 1 \in T
    <3>1. k + 1 \in 2 .. m /\ k + 1 \in 1 .. m /\ (k + 1) - 1 = k /\ k \in 1 .. m
      BY <1>2
    <3>2. f[k + 1] = f[k] \o lines[k + 1]
      BY <2>5, <3>1
    <3>3. PICK a : a = EndOf(order, k)
      OBVIOUS
    <3>4. PICK b : b = EndOf(order, k + 1)
      OBVIOUS
    <3>5. lines[k + 1] = Slice(c, a, b)
      BY <1>2, <3>1, <3>3, <3>4
    <3>6. f[k] = Slice(c, 0, a)
      BY <2>7, <3>3
    <3>7. 0 \in Nat /\ a \in Nat /\ b \in Nat /\ 0 <= a /\ a <= b /\ b <= Len(c)
      BY <2>1, <3>1, <3>3, <3>4
    <3>8. Slice(c, 0, a) \o Slice(c, a, b) = Slice(c, 0, b)
      BY <3>7, SlicesMeet
    <3>9. QED
      BY <3>1, <3>2, <3>4, <3>5, <3>6, <3>8
  <2>8. m \in 1 .. m
    BY <1>2, <1>6
  <2> HIDE DEF T
  <2>9. m \in T
    BY <1>2, <2>6, <2>7, <2>8, CountingUp
  <2>10. FlattenSeq(lines) = Slice(c, 0, Len(c))
    BY <1>3, <2>5, <2>9 DEF T
  <2>11. Slice(c, 0, Len(c)) = c
    <3>1. 0 \in Nat /\ 0 <= Len(c) /\ Len(c) <= Len(c)
      BY <1>4
    <3>2. QED
      BY <1>4, <3>1, SlicesMeet
  <2>12. QED
    BY <2>10, <2>11 DEF lines
<1>7. QED
  BY <1>2, <1>5, <1>6

\* c is x and then y, and so are its lines.
Parts(c, x, y) ==
    /\ Sequence(x) /\ Sequence(y) /\ c = x \o y
    /\ SplitLines(c) = SplitLines(x) \o SplitLines(y)
    /\ x = <<>> \/ y = <<>> \/ Last(x) \in Breaks

\* A file is taken apart between two lines.
LEMMA Parted ==
    ASSUME NEW c, Sequence(c), NEW order, LinesOf(c, order), NEW k \in Nat,
           k <= Len(SplitLines(c))
    PROVE  \E x, y : /\ Parts(c, x, y)
                     /\ Len(SplitLines(x)) = k /\ Len(x) = EndOf(order, k)
                     /\ \A i \in 1 .. Len(x) : i \in LineEnds(c) <=> i \in LineEnds(x)
<1> DEFINE n == Len(c)
           m == Len(SplitLines(c))
           E == LineEnds(c)
<1>2. /\ \A j \in 0 .. m : EndOf(order, j) \in 0 .. n /\ Tally(E, 0, EndOf(order, j)) = j
      /\ \A j \in 1 .. m : EndOf(order, j) \in E
      /\ EndOf(order, m) = n
  BY EndsHold
<1>3. n \in Nat /\ m \in Nat /\ DOMAIN c = 1 .. n /\ k \in 0 .. m
  BY ListFacts DEF LinesOf
<1>4. PICK e : e = EndOf(order, k)
  OBVIOUS
<1>5. e \in Nat /\ e <= n /\ Tally(E, 0, e) = k /\ 0 \in Nat /\ 0 <= e /\ n <= n
  BY <1>2, <1>3, <1>4
<1>6. PICK x : x = Slice(c, 0, e)
  OBVIOUS
<1>7. PICK y : y = Slice(c, e, n)
  OBVIOUS
<1>8. c = x \o y
  <2>1. 0 \in Nat /\ n \in Nat /\ e \in Nat /\ 0 <= e /\ e <= n /\ n <= Len(c)
    BY <1>3, <1>5
  <2>2. Slice(c, 0, e) \o Slice(c, e, n) = Slice(c, 0, n) /\ Slice(c, 0, Len(c)) = c
    BY <2>1, SlicesMeet
  <2>3. QED
    BY <1>6, <1>7, <2>2
<1>9. /\ Sequence(x) /\ Len(x) = e /\ \A i \in 1 .. e : x[i] = c[i]
      /\ Sequence(y) /\ Len(y) = n - e
  <2>1. /\ Sequence(x) /\ Len(x) = e - 0 /\ \A i \in 1 .. e - 0 : x[i] = c[0 + i]
    BY <1>5, <1>6, SliceList
  <2>2. Sequence(y) /\ Len(y) = n - e
    BY <1>3, <1>5, <1>7, SliceList
  <2>3. QED
    BY <1>5, <2>1, <2>2
<1>10. \A i \in 1 .. e : i \in E <=> i \in LineEnds(x)
  <2>1. e > 0 => e \in E
    <3>1. e > 0 => k # 0
      BY <1>4 DEF EndOf
    <3>2. QED
      BY <1>2, <1>3, <1>4, <3>1
  <2>2. \A i \in 1 .. e : i \in DOMAIN c /\ i \in DOMAIN x
    BY <1>3, <1>5, <1>9, ListFacts
  <2>3. \A i \in 1 .. e : i \in E <=> (c[i] \in Breaks \/ i = n)
    BY <2>2 DEF LineEnds
  <2>4. \A i \in 1 .. e : i \in LineEnds(x) <=> (x[i] \in Breaks \/ i = e)
    BY <1>9, <2>2 DEF LineEnds
  <2> HIDE DEF E, n
  <2>5. ASSUME NEW i \in 1 .. e PROVE i \in E <=> i \in LineEnds(x)
    <3>1. CASE i = e
      <4>1. i \in E
        BY <1>5, <2>1, <3>1
      <4>2. QED
        BY <2>4, <3>1, <4>1
    <3>2. CASE i # e
      <4>1. i # n
        BY <1>3, <1>5, <3>2
      <4>2. QED
        BY <1>9, <2>3, <2>4, <3>2, <4>1
    <3>3. QED
      BY <3>1, <3>2
  <2>6. QED
    BY <2>5
<1> HIDE DEF E
<1>11. Len(SplitLines(x)) = k
  <2>1. PICK ox : LinesOf(x, ox)
    BY <1>9, SplitHolds
  <2>2. Len(SplitLines(x)) = Tally(LineEnds(x), 0, e)
    BY <1>9, <2>1 DEF LinesOf
  <2>3. Alike(E, 0, e, LineEnds(x), 0, e)
    <3>1. \A i \in 1 .. e - 0 : i \in 1 .. e /\ 0 + i = i
      BY <1>5
    <3>2. QED
      BY <1>5, <1>10, <3>1 DEF Alike
  <2>4. QED
    BY <1>5, <2>2, <2>3, TallySame
<1>12. CASE e = n
  <2>1. y = <<>>
    <3>1. Len(y) = 0
      BY <1>3, <1>9, <1>12
    <3>2. QED
      BY <1>9, <3>1, ListFacts
  <2>2. c = x
    BY <1>8, <1>9, <2>1, ConcatParts
  <2>3. Sequence(SplitLines(x)) /\ Sequence(<<>>)
    BY <2>2, SmallLists DEF LinesOf
  <2>4. SplitLines(c) = SplitLines(x) \o SplitLines(y)
    BY <2>1, <2>2, <2>3, NoLines, ConcatParts
  <2>5. Parts(c, x, y)
    BY <1>8, <1>9, <2>1, <2>4 DEF Parts
  <2>6. QED
    BY <1>4, <1>9, <1>10, <1>11, <2>5 DEF E
<1>13. CASE e # n
  <2>1. x = <<>> \/ Last(x) \in Breaks
    <3>1. CASE e = 0
      BY <1>9, <3>1, ListFacts
    <3>2. CASE e # 0
      <4>1. e > 0 /\ e \in 1 .. e
        BY <1>5, <3>2
      <4>2. k # 0
        BY <1>4, <3>2 DEF EndOf
      <4>3. e \in E
        BY <1>2, <1>3, <1>4, <4>2
      <4>4. c[e] \in Breaks
        BY <1>13, <4>3 DEF E, LineEnds
      <4>5. x # <<>> => Last(x) = x[e]
        BY <1>9, ListFacts
      <4>6. QED
        BY <1>9, <4>1, <4>4, <4>5
    <3>3. QED
      BY <3>1, <3>2
  <2>2. SplitLines(x \o y) = SplitLines(x) \o SplitLines(y)
    BY <1>9, <2>1, SplitConcat
  <2>3. Parts(c, x, y)
    BY <1>8, <1>9, <2>1, <2>2 DEF Parts
  <2>4. QED
    BY <1>4, <1>9, <1>10, <1>11, <2>3 DEF E
<1>14. QED
  BY <1>12, <1>13

\* The lines of the two parts of a file.
LEMMA PartsHold ==
    ASSUME NEW c, NEW x, NEW y, Parts(c, x, y)
    PROVE  /\ Sequence(SplitLines(x)) /\ Sequence(SplitLines(y))
           /\ Len(SplitLines(x)) \in Nat /\ Len(SplitLines(y)) \in Nat
           /\ Len(SplitLines(c)) = Len(SplitLines(x)) + Len(SplitLines(y))
           /\ Slice(SplitLines(c), 0, Len(SplitLines(x))) = SplitLines(x)
           /\ Slice(SplitLines(c), Len(SplitLines(x)), Len(SplitLines(c))) = SplitLines(y)
           /\ x # <<>> => /\ Len(SplitLines(x)) > 0
                          /\ Last(SplitLines(c)[Len(SplitLines(x))]) = Last(x)
<1> DEFINE lx == SplitLines(x)
           ly == SplitLines(y)
<1>1. Sequence(x) /\ Sequence(y) /\ SplitLines(c) = lx \o ly
  BY DEF Parts
<1>2. Sequence(lx) /\ Sequence(ly)
  BY <1>1, SplitHolds DEF LinesOf
<1>3. x # <<>> => Len(lx) > 0 /\ Last(lx[Len(lx)]) = Last(x)
  BY <1>1, LastLine
<1> HIDE DEF lx, ly
<1>4. Len(lx) \in Nat /\ Len(ly) \in Nat
  BY <1>2, ListFacts
<1>5. Len(lx \o ly) = Len(lx) + Len(ly) /\ \A i \in 1 .. Len(lx) : (lx \o ly)[i] = lx[i]
  BY <1>2, ConcatAt
<1>6. Slice(lx \o ly, 0, Len(lx)) = lx /\ Slice(lx \o ly, Len(lx), Len(lx \o ly)) = ly
  BY <1>2, ConcatParts
<1>7. Len(lx) > 0 => (lx \o ly)[Len(lx)] = lx[Len(lx)]
  BY <1>4, <1>5
<1>8. QED
  BY <1>1, <1>2, <1>3, <1>4, <1>5, <1>6, <1>7 DEF lx, ly

\* A file as it is read.
AsRead(c) == Sequence(c) /\ \A i \in DOMAIN c : c[i] # "cr"

\* The characters of a text that are read back.
Newlined(s) == [i \in DOMAIN s |-> IF s[i] = "cr" THEN "nl" ELSE s[i]]

Survivors(s) == {i \in DOMAIN s : s[i] = "cr" /\ i < Len(s) => s[i + 1] # "nl"}

ReadsAs(s, order) ==
    /\ Sequence(ReadBack(s)) /\ Len(ReadBack(s)) \in Nat
    /\ Len(ReadBack(s)) = Tally(Survivors(s), 0, Len(s))
    /\ InPlace(order, Survivors(s), Len(ReadBack(s)))
    /\ \A k \in 1 .. Len(ReadBack(s)) :
          order[k] \in 1 .. Len(s) /\ ReadBack(s)[k] = Newlined(s)[order[k]]

LEMMA ReadBackHolds ==
    ASSUME NEW s, Sequence(s)
    PROVE  (\E order : ReadsAs(s, order)) /\ AsRead(ReadBack(s))
<1> DEFINE t == Newlined(s)
           P == Survivors(s)
           n == Len(s)
<1>1. n \in Nat /\ DOMAIN s = 1 .. n
  BY ListFacts
<1>2. ReadBack(s) = At(t, P)
  BY DEF ReadBack, Newlined, Survivors
<1>3. /\ Sequence(t) /\ DOMAIN t = 1 .. n /\ \A i \in 1 .. n : t[i] # "cr"
      /\ P \in SUBSET (1 .. n)
  <2>1. \A i \in 1 .. n : t[i] # "cr"
    BY <1>1 DEF Newlined
  <2>2. t = [i \in 1 .. n |-> t[i]]
    BY <1>1 DEF Newlined
  <2>3. P \in SUBSET (1 .. n)
    BY <1>1 DEF Survivors
  <2> HIDE DEF t, P
  <2>4. QED
    BY <1>1, <2>1, <2>2, <2>3, FunctionList
<1> HIDE DEF t, P, n
<1>4. /\ Sequence(At(t, P)) /\ Len(At(t, P)) \in Nat /\ Len(At(t, P)) = Tally(P, 0, n)
      /\ \E order : InPlace(order, P, Len(At(t, P)))
                     /\ \A k \in 1 .. Len(At(t, P)) : At(t, P)[k] = t[order[k]]
  BY <1>1, <1>3, AtPlaces
<1>5. PICK order : InPlace(order, P, Len(At(t, P)))
                   /\ \A k \in 1 .. Len(At(t, P)) : At(t, P)[k] = t[order[k]]
  BY <1>4
<1>6. \A k \in 1 .. Len(At(t, P)) : order[k] \in 1 .. n
  BY <1>3, <1>5 DEF InPlace
<1>7. ReadsAs(s, order)
  BY <1>2, <1>4, <1>5, <1>6 DEF ReadsAs, t, P, n
<1>8. AsRead(At(t, P))
  <2>1. DOMAIN At(t, P) = 1 .. Len(At(t, P))
    BY <1>4, ListFacts
  <2>2. QED
    BY <1>3, <1>4, <1>5, <1>6, <2>1 DEF AsRead
<1>9. QED
  BY <1>2, <1>7, <1>8

\* A file as it is read is read back as it is.
LEMMA ReadTwice ==
    ASSUME NEW c, AsRead(c)
    PROVE  ReadBack(c) = c
<1>1. Sequence(c) /\ Len(c) \in Nat /\ DOMAIN c = 1 .. Len(c)
  BY ListFacts DEF AsRead
<1>2. PICK order : ReadsAs(c, order)
  BY <1>1, ReadBackHolds
<1> DEFINE n == Len(c)
           P == Survivors(c)
           m == Len(ReadBack(c))
<1>3. \A i \in 1 .. n : i \in P /\ Newlined(c)[i] = c[i]
  BY <1>1 DEF AsRead, Survivors, Newlined
<1>4. InPlace(order, P, m) /\ m = Tally(P, 0, n) /\ m \in Nat
  BY <1>2 DEF ReadsAs
<1> HIDE DEF P, n, m
<1>5. n \in Nat
  BY <1>1 DEF n
<1>6. ASSUME NEW i \in 0 .. n PROVE Tally(P, 0, i) = i
  <2> DEFINE T == {i2 \in 1 .. n : \A j \in 0 .. i2 : Tally(P, 0, j) = j}
  <2>1. Tally(P, 0, 0) = 0
    <3>1. 0 \in Nat /\ 0 <= 0
      OBVIOUS
    <3>2. QED
      BY <3>1, TallyFacts
  <2>2. ASSUME NEW j \in Nat, j + 1 <= n, Tally(P, 0, j) = j PROVE Tally(P, 0, j + 1) = j + 1
    <3>1. j + 1 \in P
      BY <1>3, <1>5, <2>2 DEF n
    <3>2. QED
      BY <2>2, <3>1, TallyNext
  <2>3. CASE n = 0
    BY <1>6, <2>1, <2>3
  <2>4. CASE n # 0
    <3>1. 1 \in T
      <4>1. 0 \in Nat /\ 0 + 1 = 1 /\ 0 + 1 <= n
        BY <1>5, <2>4
      <4>2. Tally(P, 0, 1) = 1
        BY <2>1, <2>2, <4>1
      <4>3. \A j \in 0 .. 1 : j = 0 \/ j = 1
        OBVIOUS
      <4>4. 1 \in 1 .. n
        BY <1>5, <2>4
      <4>5. QED
        BY <2>1, <4>2, <4>3, <4>4
    <3>2. \A j \in 1 .. n - 1 : j \in T => j + 1 \in T
      <4>1. SUFFICES ASSUME NEW j \in 1 .. n - 1, j \in T PROVE j + 1 \in T
        OBVIOUS
      <4>2. j \in Nat /\ j + 1 <= n /\ j + 1 \in 1 .. n /\ \A i2 \in 0 .. j + 1 : i2 \in 0 .. j \/ i2 = j + 1
        BY <1>5, <4>1
      <4>3. Tally(P, 0, j) = j
        BY <4>1, <4>2
      <4>4. Tally(P, 0, j + 1) = j + 1
        BY <2>2, <4>2, <4>3
      <4>5. QED
        BY <4>1, <4>2, <4>4
    <3> HIDE DEF T
    <3>3. \A j \in 1 .. n : j \in T
      BY <1>5, <3>1, <3>2, CountingUp
    <3>4. QED
      BY <1>5, <1>6, <2>1, <3>3 DEF T
  <2>5. QED
    BY <2>3, <2>4
<1>7. m = n
  BY <1>4, <1>5, <1>6
<1>8. \A k \in 1 .. n : order[k] = k
  <2>1. \A k \in 1 .. n : order[k] \in P /\ Tally(P, 0, order[k]) = k /\ order[k] \in 1 .. n
    BY <1>2, <1>4, <1>7 DEF InPlace, ReadsAs, n, m
  <2>2. QED
    BY <1>5, <1>6, <2>1
<1>9. QED
  <2>1. Sequence(ReadBack(c)) /\ Len(ReadBack(c)) = Len(c)
    BY <1>2, <1>7 DEF ReadsAs, n, m
  <2>2. \A k \in 1 .. Len(ReadBack(c)) : ReadBack(c)[k] = c[k]
    BY <1>2, <1>3, <1>7, <1>8 DEF ReadsAs, n, m
  <2>3. QED
    BY <1>1, <2>1, <2>2, SameList

\* Two texts are read back one after the other, unless a newline falls between two characters.
LEMMA ReadConcat ==
    ASSUME NEW s, Sequence(s), NEW t, Sequence(t),
           s = <<>> \/ t = <<>> \/ Last(s) # "cr" \/ Head(t) # "nl"
    PROVE  ReadBack(s \o t) = ReadBack(s) \o ReadBack(t)
<1> DEFINE u == s \o t
           n1 == Len(s)
           n2 == Len(t)
           n  == Len(u)
           P1 == Survivors(s)
           P2 == Survivors(t)
           P  == Survivors(u)
           m1 == Len(ReadBack(s))
           m2 == Len(ReadBack(t))
           m  == Len(ReadBack(u))
<1>1. /\ n1 \in Nat /\ n2 \in Nat /\ DOMAIN s = 1 .. n1 /\ DOMAIN t = 1 .. n2
      /\ s # <<>> => n1 > 0 /\ Last(s) = s[n1]
      /\ t # <<>> => n2 > 0 /\ Head(t) = t[1]
      /\ s = <<>> => n1 = 0
      /\ t = <<>> => n2 = 0
  BY ListFacts
<1>2. /\ Sequence(u) /\ n = n1 + n2 /\ DOMAIN u = 1 .. n
      /\ \A i \in 1 .. n1 : u[i] = s[i]
      /\ \A i \in 1 .. n2 : u[n1 + i] = t[i]
  <2>1. /\ Sequence(u) /\ Len(u) = Len(s) + Len(t)
        /\ \A i \in 1 .. Len(s) : u[i] = s[i]
        /\ \A i \in 1 .. Len(t) : u[Len(s) + i] = t[i]
    BY ConcatAt
  <2> HIDE DEF u
  <2>2. QED
    BY <2>1, ListFacts
<1>3. PICK o1 : ReadsAs(s, o1)
  BY ReadBackHolds
<1>4. PICK o2 : ReadsAs(t, o2)
  BY ReadBackHolds
<1>5. PICK o : ReadsAs(u, o)
  BY <1>2, ReadBackHolds
<1> HIDE DEF u
<1>6. ASSUME NEW i \in 1 .. n1
      PROVE  (i \in P <=> i \in P1) /\ Newlined(u)[i] = Newlined(s)[i]
  <2>1. i \in DOMAIN s /\ i \in DOMAIN u /\ u[i] = s[i]
    BY <1>1, <1>2
  <2>2. Newlined(u)[i] = Newlined(s)[i]
    BY <2>1 DEF Newlined
  <2>3. i \in P <=> (u[i] = "cr" /\ i < n => u[i + 1] # "nl")
    BY <2>1 DEF Survivors
  <2>4. i \in P1 <=> (s[i] = "cr" /\ i < n1 => s[i + 1] # "nl")
    BY <2>1 DEF Survivors
  <2>5. CASE i < n1
    <3>1. i + 1 \in 1 .. n1 /\ i < n
      BY <1>1, <1>2, <2>5
    <3>2. u[i + 1] = s[i + 1]
      BY <1>2, <3>1
    <3> HIDE DEF P, P1, n, n1
    <3>3. QED
      BY <2>1, <2>2, <2>3, <2>4, <2>5, <3>1, <3>2
  <2>6. CASE i = n1
    <3>1. i \in P1
      BY <1>1, <2>4, <2>6
    <3>2. n2 > 0 => n1 + 1 \in Nat /\ u[n1 + 1] = t[1]
      BY <1>1, <1>2
    <3>3. i < n => n2 > 0
      BY <1>1, <1>2, <2>6
    <3>4. s # <<>>
      BY <1>1, <2>6
    <3>5. n2 > 0 => t # <<>>
      BY <1>1
    <3>6. i \in P
      BY <1>1, <2>1, <2>3, <2>6, <3>2, <3>3, <3>4, <3>5
    <3>7. QED
      BY <2>2, <3>1, <3>6
  <2>7. i < n1 \/ i = n1
    <3> HIDE DEF n1
    <3>1. QED
      BY <1>1
  <2>8. QED
    BY <2>5, <2>6, <2>7
<1>7. ASSUME NEW i \in 1 .. n2
      PROVE  (n1 + i \in P <=> i \in P2) /\ Newlined(u)[n1 + i] = Newlined(t)[i]
  <2>1. i \in DOMAIN t /\ n1 + i \in DOMAIN u /\ u[n1 + i] = t[i]
    BY <1>1, <1>2
  <2>2. Newlined(u)[n1 + i] = Newlined(t)[i]
    BY <2>1 DEF Newlined
  <2>3. n1 + i \in P <=> (u[n1 + i] = "cr" /\ n1 + i < n => u[(n1 + i) + 1] # "nl")
    BY <2>1 DEF Survivors
  <2>4. i \in P2 <=> (t[i] = "cr" /\ i < n2 => t[i + 1] # "nl")
    BY <2>1 DEF Survivors
  <2>5. n1 + i < n <=> i < n2
    BY <1>1, <1>2
  <2>6. i < n2 => u[(n1 + i) + 1] = t[i + 1]
    <3>1. i < n2 => i + 1 \in 1 .. n2 /\ n1 + (i + 1) = (n1 + i) + 1
      BY <1>1
    <3>2. QED
      BY <1>2, <3>1
  <2> HIDE DEF P, P2, n, n1, n2
  <2>7. QED
    BY <2>1, <2>2, <2>3, <2>4, <2>5, <2>6
<1>8. /\ InPlace(o1, P1, m1) /\ m1 \in Nat /\ m1 = Tally(P1, 0, n1)
      /\ \A k \in 1 .. m1 : o1[k] \in 1 .. n1 /\ ReadBack(s)[k] = Newlined(s)[o1[k]]
  BY <1>3 DEF ReadsAs
<1>9. /\ InPlace(o2, P2, m2) /\ m2 \in Nat /\ m2 = Tally(P2, 0, n2)
      /\ \A k \in 1 .. m2 : o2[k] \in 1 .. n2 /\ ReadBack(t)[k] = Newlined(t)[o2[k]]
  BY <1>4 DEF ReadsAs
<1>10. /\ InPlace(o, P, m) /\ m \in Nat /\ m = Tally(P, 0, n)
       /\ \A k \in 1 .. m : o[k] \in 1 .. n /\ ReadBack(u)[k] = Newlined(u)[o[k]]
  BY <1>5 DEF ReadsAs
<1>11. Sequence(ReadBack(s)) /\ Sequence(ReadBack(t)) /\ Sequence(ReadBack(u))
  BY <1>3, <1>4, <1>5 DEF ReadsAs
<1> HIDE DEF P, P1, P2, n, n1, n2, m, m1, m2
<1>12. ASSUME NEW i \in 0 .. n1 PROVE Tally(P, 0, i) = Tally(P1, 0, i)
  <2>1. i \in Nat /\ 0 \in Nat /\ 0 <= i /\ i - 0 = i
    BY <1>1, <1>12
  <2>2. ASSUME NEW j \in 1 .. i - 0 PROVE 0 + j \in P <=> 0 + j \in P1
    <3>1. 0 + j = j /\ j \in 1 .. n1
      BY <1>1, <1>12, <2>1
    <3>2. QED
      BY <1>6, <3>1
  <2>3. Alike(P, 0, i, P1, 0, i)
    BY <2>1, <2>2 DEF Alike
  <2>4. QED
    BY <2>3, TallySame
<1>13. ASSUME NEW i \in 0 .. n2 PROVE Tally(P, 0, n1 + i) = m1 + Tally(P2, 0, i)
  <2>1. i \in Nat /\ 0 \in Nat /\ 0 <= n1 /\ n1 <= n1 + i /\ n1 + i \in Nat /\ n1 \in Nat
        /\ (n1 + i) - n1 = i - 0 /\ 0 <= i /\ n1 \in 0 .. n1
    BY <1>1, <1>13
  <2>2. Tally(P, 0, n1 + i) = Tally(P, 0, n1) + Tally(P, n1, n1 + i)
    BY <2>1, TallySplit
  <2>3. Tally(P, 0, n1) = m1
    BY <1>8, <1>12, <2>1
  <2>4. ASSUME NEW j \in 1 .. i - 0 PROVE n1 + j \in P <=> 0 + j \in P2
    <3>1. 0 + j = j /\ j \in 1 .. n2
      BY <1>1, <1>13, <2>1
    <3>2. QED
      BY <1>7, <3>1
  <2>5. Alike(P, n1, n1 + i, P2, 0, i)
    <3>1. \A j \in 1 .. (n1 + i) - n1 : n1 + j \in P <=> 0 + j \in P2
      BY <2>1, <2>4
    <3>2. QED
      BY <2>1, <3>1 DEF Alike
  <2>6. Tally(P, n1, n1 + i) = Tally(P2, 0, i)
    BY <2>5, TallySame
  <2>7. QED
    BY <2>2, <2>3, <2>6
<1>14. m = m1 + m2
  <2>1. n2 \in 0 .. n2
    BY <1>1
  <2>2. QED
    BY <1>2, <1>9, <1>10, <1>13, <2>1
<1>15. ASSUME NEW k \in 1 .. m1 PROVE ReadBack(u)[k] = ReadBack(s)[k]
  <2>1. PICK i \in 1 .. n1 : i = o1[k]
    BY <1>8
  <2>2. i \in P1 /\ Tally(P1, 0, i) = k
    BY <1>8, <2>1 DEF InPlace
  <2>3. i \in 0 .. n1
    BY <1>1, <2>1
  <2>4. i \in P /\ Tally(P, 0, i) = k
    BY <1>6, <1>12, <2>1, <2>2, <2>3
  <2>5. o[k] = i
    BY <1>10, <2>4 DEF InPlace
  <2>6. k \in 1 .. m
    BY <1>8, <1>9, <1>14
  <2>7. QED
    BY <1>6, <1>8, <1>10, <2>1, <2>5, <2>6
<1>16. ASSUME NEW k \in 1 .. m2 PROVE ReadBack(u)[m1 + k] = ReadBack(t)[k]
  <2>1. PICK i \in 1 .. n2 : i = o2[k]
    BY <1>9
  <2>2. i \in P2 /\ Tally(P2, 0, i) = k
    BY <1>9, <2>1 DEF InPlace
  <2>3. i \in 0 .. n2
    BY <1>1, <2>1
  <2>4. n1 + i \in P /\ Tally(P, 0, n1 + i) = m1 + k
    BY <1>7, <1>13, <2>1, <2>2, <2>3
  <2>5. o[m1 + k] = n1 + i
    BY <1>10, <2>4 DEF InPlace
  <2>6. m1 + k \in 1 .. m
    BY <1>8, <1>9, <1>14
  <2>7. ReadBack(u)[m1 + k] = Newlined(u)[n1 + i]
    BY <1>10, <2>5, <2>6
  <2>8. QED
    BY <1>7, <1>9, <2>1, <2>7
<1>17. QED
  <2> DEFINE a == ReadBack(s)
             b == ReadBack(t)
             v == ReadBack(u)
  <2>1. /\ Sequence(a \o b) /\ Len(a \o b) = m1 + m2
        /\ \A i \in 1 .. m1 : (a \o b)[i] = a[i]
        /\ \A i \in 1 .. m2 : (a \o b)[m1 + i] = b[i]
    BY <1>11, ConcatAt DEF m1, m2
  <2>2. Sequence(v) /\ Len(v) = m
    BY <1>11 DEF m
  <2>3. (\A i \in 1 .. m1 : v[i] = a[i]) /\ (\A i \in 1 .. m2 : v[m1 + i] = b[i])
    BY <1>15, <1>16
  <2> HIDE DEF a, b, v
  <2> DEFINE w == a \o b
  <2>4. Sequence(w) /\ Len(w) = Len(v)
    BY <1>14, <2>1, <2>2
  <2>5. ASSUME NEW i \in 1 .. Len(v) PROVE v[i] = w[i]
    <3>1. i \in 1 .. m1 \/ (i - m1 \in 1 .. m2 /\ m1 + (i - m1) = i)
      BY <1>8, <1>9, <1>14, <2>2, <2>5
    <3>2. CASE i \in 1 .. m1
      BY <2>1, <2>3, <3>2
    <3>3. CASE i - m1 \in 1 .. m2 /\ m1 + (i - m1) = i
      <4>1. PICK j \in 1 .. m2 : m1 + j = i
        BY <3>3
      <4>2. v[m1 + j] = b[j] /\ (a \o b)[m1 + j] = b[j]
        BY <2>1, <2>3
      <4>3. QED
        BY <4>1, <4>2
    <3>4. QED
      BY <3>1, <3>2, <3>3
  <2> HIDE DEF w
  <2>6. v = w
    BY <2>2, <2>4, <2>5, SameList
  <2>7. QED
    BY <2>6 DEF a, b, v, w, u

\* A text that ends in a newline of either kind is read back with a newline at its end.
LEMMA LastReadBack ==
    ASSUME NEW s, Sequence(s), s # <<>>, Last(s) \in {"nl", "cr"}
    PROVE  ReadBack(s) # <<>> /\ Last(ReadBack(s)) = "nl"
<1> DEFINE n == Len(s)
           P == Survivors(s)
           m == Len(ReadBack(s))
<1>1. n \in Nat /\ n > 0 /\ DOMAIN s = 1 .. n /\ Last(s) = s[n]
  BY ListFacts
<1>2. n \in P /\ Newlined(s)[n] = "nl"
  BY <1>1 DEF Survivors, Newlined
<1>3. PICK order : ReadsAs(s, order)
  BY ReadBackHolds
<1>4. /\ InPlace(order, P, m) /\ m \in Nat /\ m = Tally(P, 0, n) /\ Sequence(ReadBack(s))
      /\ \A k \in 1 .. m : ReadBack(s)[k] = Newlined(s)[order[k]]
  BY <1>3 DEF ReadsAs
<1> HIDE DEF P, n, m
<1>5. m \in 1 .. m /\ order[m] = n
  BY <1>2, <1>4 DEF InPlace
<1>6. ReadBack(s)[m] = "nl" /\ m > 0
  BY <1>2, <1>4, <1>5
<1>7. QED
  <2>1. ReadBack(s) # <<>>
    BY <1>6 DEF m
  <2>2. Last(ReadBack(s)) = ReadBack(s)[m]
    BY <1>4, <2>1, ListFacts DEF m
  <2>3. QED
    BY <1>6, <2>1, <2>2

\* A list begins as its first part does, if that holds anything.
LEMMA HeadOfParts ==
    ASSUME NEW c, NEW x, NEW y, Parts(c, x, y), y # <<>>
    PROVE  /\ Len(SplitLines(x)) < Len(SplitLines(c))
           /\ Head(y) = Head(SplitLines(c)[Len(SplitLines(x)) + 1])
<1> DEFINE lx == SplitLines(x)
           ly == SplitLines(y)
<1>1. Sequence(x) /\ Sequence(y) /\ SplitLines(c) = lx \o ly
  BY DEF Parts
<1>2. PICK order : LinesOf(y, order)
  BY <1>1, SplitHolds
<1>3. Len(y) \in Nat /\ Len(y) > 0 /\ Head(y) = y[1]
  BY <1>1, ListFacts
<1>4. PICK m : m = Len(ly)
  OBVIOUS
<1>5. m \in Nat /\ m # 0 /\ EndOf(order, m) = Len(y)
      /\ (\A k \in 0 .. m : EndOf(order, k) \in 0 .. Len(y))
      /\ (\A k \in 1 .. m : EndOf(order, k - 1) < EndOf(order, k))
  <2>1. m \in Nat /\ EndOf(order, m) = Len(y) /\ \A k \in 0 .. m : EndOf(order, k) \in 0 .. Len(y)
    BY <1>1, <1>2, <1>4, EndsHold DEF LinesOf
  <2>2. EndOf(order, 0) = 0
    BY DEF EndOf
  <2>3. m # 0
    BY <1>3, <2>1, <2>2
  <2>4. \A k \in 1 .. m : EndOf(order, k - 1) < EndOf(order, k)
    BY <1>1, <1>2, <1>4, EndsHold
  <2>5. QED
    BY <2>1, <2>3, <2>4
<1>6. ly[1] = Slice(y, 0, EndOf(order, 1))
  <2>1. 1 \in 1 .. m /\ 1 - 1 = 0
    BY <1>5
  <2>2. ly[1] = Slice(y, EndOf(order, 0), EndOf(order, 1))
    BY <1>2, <1>4, <2>1 DEF LinesOf
  <2>3. QED
    BY <2>2 DEF EndOf
<1>7. EndOf(order, 1) \in Nat /\ EndOf(order, 1) > 0 /\ EndOf(order, 1) <= Len(y)
  <2>1. 1 \in 1 .. m /\ 1 \in 0 .. m /\ 1 - 1 = 0
    BY <1>5
  <2>2. EndOf(order, 0) = 0
    BY DEF EndOf
  <2>3. QED
    BY <1>3, <1>5, <2>1, <2>2
<1>8. Head(ly[1]) = y[1]
  <2> DEFINE e == EndOf(order, 1)
             t == Slice(y, 0, e)
  <2>1. e \in Nat /\ e > 0 /\ e <= Len(y) /\ 0 \in Nat /\ 0 <= e /\ ly[1] = t
    BY <1>6, <1>7
  <2> HIDE DEF e
  <2>2. Sequence(t) /\ Len(t) = e - 0 /\ \A i \in 1 .. e - 0 : t[i] = y[0 + i]
    BY <1>1, <2>1, SliceList
  <2>3. 1 \in 1 .. e - 0 /\ 0 + 1 = 1 /\ Len(t) # 0
    BY <2>1, <2>2
  <2>4. t[1] = y[1] /\ t # <<>>
    BY <2>2, <2>3
  <2> HIDE DEF t
  <2>5. Head(t) = t[1]
    BY <2>2, <2>4, ListFacts
  <2>6. QED
    BY <2>1, <2>4, <2>5
<1>9. Sequence(lx) /\ Sequence(ly)
  BY <1>1, SplitHolds DEF LinesOf
<1> HIDE DEF lx, ly
<1>10. Len(lx) \in Nat /\ Len(lx \o ly) = Len(lx) + Len(ly) /\ (lx \o ly)[Len(lx) + 1] = ly[1]
  <2>1. 1 \in 1 .. Len(ly)
    BY <1>4, <1>5
  <2>2. QED
    BY <1>9, <2>1, ConcatAt, ListFacts
<1>11. QED
  BY <1>1, <1>3, <1>4, <1>5, <1>8, <1>10 DEF lx

\* The lines around a range that is replaced are lines of the file that is read back.
LEMMA RangeReplaced ==
    ASSUME NEW c, AsRead(c), NEW new, Sequence(new), NEW first \in Nat, NEW last \in Nat,
           1 <= first, first <= last, last <= Len(SplitLines(c)),
           NEW span, span.first = first, span.last = last,
           NEW d, d = ReadBack(WithLines(c, span, new))
    PROVE  /\ AsRead(d)
           /\ Last(SplitLines(c)[last]) # "ff" /\ ~Joins(new, SplitLines(c), span) =>
                 /\ Slice(SplitLines(d), 0, first - 1) = Slice(SplitLines(c), 0, first - 1)
                 /\ Len(SplitLines(c)) - last + (first - 1) <= Len(SplitLines(d))
                 /\ Slice(SplitLines(d), Len(SplitLines(d)) - (Len(SplitLines(c)) - last),
                          Len(SplitLines(d)))
                      = Slice(SplitLines(c), last, Len(SplitLines(c)))
<1> DEFINE lc == SplitLines(c)
           m  == Len(lc)
<1>0. Sequence(c)
  BY DEF AsRead
<1>1. PICK oc : LinesOf(c, oc)
  BY <1>0, SplitHolds
<1>2. Sequence(lc) /\ m \in Nat /\ first - 1 \in Nat /\ first - 1 <= m /\ last <= m
  BY <1>1 DEF LinesOf
<1>3. PICK x, r : Parts(c, x, r) /\ Len(SplitLines(x)) = first - 1
  BY <1>0, <1>1, <1>2, Parted
<1>4. PICK w, y : Parts(c, w, y) /\ Len(SplitLines(w)) = last
  BY <1>0, <1>1, <1>2, Parted
<1> DEFINE lx == SplitLines(x)
           ly == SplitLines(y)
           W  == Terminated(new, lc[last])
           T  == ReadBack(W)
           lt == SplitLines(T)
<1>5. /\ Sequence(x) /\ Sequence(y) /\ Sequence(w) /\ Sequence(r)
      /\ x = <<>> \/ r = <<>> \/ Last(x) \in Breaks
      /\ w = <<>> \/ y = <<>> \/ Last(w) \in Breaks
  BY <1>3, <1>4 DEF Parts
<1>6. /\ Sequence(lx) /\ Len(lx) = first - 1 /\ Slice(lc, 0, first - 1) = lx
      /\ m = (first - 1) + Len(SplitLines(r)) /\ Len(SplitLines(r)) \in Nat
  BY <1>3, PartsHold
<1>7. /\ Sequence(ly) /\ Len(ly) \in Nat /\ m = last + Len(ly) /\ Slice(lc, last, m) = ly
      /\ w # <<>> => Last(lc[last]) = Last(w)
  BY <1>4, PartsHold
<1>8. r # <<>> /\ w # <<>>
  <2>1. Len(SplitLines(<<>>)) = 0
    BY NoLines
  <2>2. Len(SplitLines(r)) # 0 /\ Len(SplitLines(w)) # 0
    BY <1>2, <1>4, <1>6
  <2>3. QED
    BY <2>1, <2>2
<1>9. x = <<>> \/ Last(x) \in Breaks
  BY <1>5, <1>8
<1>10. /\ Sequence(T) /\ Sequence(W)
       /\ (new # <<>> /\ Last(lc[last]) = "nl") => Last(T) = "nl"
       /\ new = <<>> => T = <<>>
       /\ W # <<>> /\ Last(W) = "cr" => new # <<>> /\ Last(new) = "cr"
  <2> DEFINE sel == lc[last]
             V   == Terminated(new, sel)
  <2> HIDE DEF sel
  <2>1. Sequence(Append(new, "nl")) /\ Append(new, "nl") # <<>> /\ Last(Append(new, "nl")) = "nl"
    <3>1. Sequence(Append(new, "nl")) /\ Len(Append(new, "nl")) = Len(new) + 1
      BY AppendList
    <3>2. new \in Seq(Range(new)) /\ Len(new) \in Nat
      BY ListFacts DEF Sequence
    <3>3. Append(new, "nl")[Len(new) + 1] = "nl"
      <4>1. PICK S : new \in Seq(S) /\ "nl" \in S
        <5>1. new \in Seq(Range(new) \cup {"nl"})
          BY <3>2, SeqMonotonic
        <5>2. QED
          BY <5>1
      <4>2. QED
        BY <4>1, AppendProperties
    <3>4. Append(new, "nl") # <<>>
      BY <3>1, <3>2
    <3>5. QED
      BY <3>1, <3>3, <3>4, ListFacts
  <2>2. V = IF new # <<>> /\ Last(sel) = "nl" /\ Last(new) \notin {"nl", "cr"}
            THEN Append(new, "nl") ELSE new
    BY DEF Terminated
  <2> HIDE DEF V
  <2>3. /\ Sequence(V)
        /\ (new # <<>> /\ Last(sel) = "nl") => V # <<>> /\ Last(V) \in {"nl", "cr"}
        /\ new = <<>> => V = <<>>
        /\ V # <<>> /\ Last(V) = "cr" => new # <<>> /\ Last(new) = "cr"
    BY <2>1, <2>2
  <2>4. Sequence(ReadBack(V)) /\ ReadBack(<<>>) = <<>>
    <3>1. AsRead(<<>>)
      BY SmallLists DEF AsRead
    <3>2. QED
      BY <2>3, <3>1, ReadBackHolds, ReadTwice DEF AsRead
  <2>5. (new # <<>> /\ Last(sel) = "nl") => Last(ReadBack(V)) = "nl"
    BY <2>3, LastReadBack
  <2>6. QED
    BY <2>3, <2>4, <2>5 DEF sel, V
<1>11. WithLines(c, span, new) = (x \o W) \o y
  <2>1. FlattenSeq(lx) = x /\ FlattenSeq(ly) = y
    BY <1>5, FlattenSplit
  <2>2. SubSeq(lc, 1, first - 1) = lx
    <3>1. 0 + 1 = 1
      OBVIOUS
    <3>2. QED
      BY <1>6, <3>1 DEF Slice
  <2>3. SubSeq(lc, last + 1, m) = ly
    BY <1>7 DEF Slice
  <2>6. WithLines(c, span, new)
            = FlattenSeq(SubSeq(lc, 1, first - 1)) \o W \o FlattenSeq(SubSeq(lc, last + 1, m))
    BY DEF WithLines
  <2> HIDE DEF lc, m, lx, ly, W
  <2>7. QED
    BY <2>1, <2>2, <2>3, <2>6
<1>18. AsRead(d) /\ Sequence(x \o W) /\ Sequence((x \o W) \o y)
  <2> HIDE DEF W
  <2>1. Sequence(x \o W)
    BY <1>5, <1>10, ConcatAt
  <2>2. Sequence((x \o W) \o y)
    BY <1>5, <2>1, ConcatAt
  <2>3. QED
    BY <1>11, <2>1, <2>2, ReadBackHolds
<1>19. AsRead(x) /\ AsRead(y)
  <2>1. PICK n : n = Len(c)
    OBVIOUS
  <2>2. c = x \o r /\ c = w \o y
    BY <1>3, <1>4 DEF Parts
  <2>3. DOMAIN c = 1 .. Len(c) /\ DOMAIN x = 1 .. Len(x) /\ DOMAIN y = 1 .. Len(y)
        /\ Len(x) \in Nat /\ Len(r) \in Nat /\ Len(w) \in Nat /\ Len(y) \in Nat
    BY <1>0, <1>5, ListFacts
  <2>4. Len(c) = Len(x) + Len(r) /\ \A i \in 1 .. Len(x) : c[i] = x[i]
    <3>1. /\ Len(x \o r) = Len(x) + Len(r)
          /\ \A i \in 1 .. Len(x) : (x \o r)[i] = x[i]
      BY <1>5, ConcatAt
    <3>2. QED
      BY <2>2, <3>1
  <2>5. Len(c) = Len(w) + Len(y) /\ \A i \in 1 .. Len(y) : c[Len(w) + i] = y[i]
    <3>1. /\ Len(w \o y) = Len(w) + Len(y)
          /\ \A i \in 1 .. Len(y) : (w \o y)[Len(w) + i] = y[i]
      BY <1>5, ConcatAt
    <3>2. QED
      BY <2>2, <3>1
  <2>6. ASSUME NEW i \in 1 .. Len(x) PROVE x[i] # "cr"
    <3>1. i \in 1 .. Len(c)
      BY <2>3, <2>4, <2>6
    <3>2. QED
      BY <2>3, <2>4, <2>6, <3>1 DEF AsRead
  <2>7. ASSUME NEW i \in 1 .. Len(y) PROVE y[i] # "cr"
    <3>1. Len(w) + i \in 1 .. Len(c)
      BY <2>3, <2>5, <2>7
    <3>2. QED
      BY <2>3, <2>5, <2>7, <3>1 DEF AsRead
  <2>8. QED
    BY <1>5, <2>3, <2>6, <2>7 DEF AsRead
<1>20. ReadBack(x \o W) = x \o T
  <2> HIDE DEF W
  <2>1. x = <<>> \/ Last(x) # "cr"
    BY <1>9 DEF Breaks
  <2>2. ReadBack(x \o W) = ReadBack(x) \o ReadBack(W)
    BY <1>5, <1>10, <2>1, ReadConcat
  <2>3. QED
    BY <1>19, <2>2, ReadTwice
<1>21. ASSUME ~Joins(new, lc, span) PROVE d = (x \o T) \o y
  <2> HIDE DEF W
  <2>1. ASSUME y # <<>>, Head(y) = "nl", x \o W # <<>>, Last(x \o W) = "cr" PROVE FALSE
    <3>1. last < m /\ Head(lc[last + 1]) = "nl"
      BY <1>4, <2>1, HeadOfParts
    <3>2. CASE W = <<>>
      <4>1. x \o W = x
        BY <1>5, <3>2, ConcatParts
      <4>2. QED
        BY <1>9, <2>1, <4>1 DEF Breaks
    <3>3. CASE W # <<>>
      <4>1. Last(W) = "cr"
        BY <1>5, <1>10, <2>1, <3>3, LastOfConcat
      <4>2. QED
        BY <1>10, <1>21, <3>1, <3>3, <4>1 DEF Joins
    <3>4. QED
      BY <3>2, <3>3
  <2>2. ReadBack((x \o W) \o y) = ReadBack(x \o W) \o ReadBack(y)
    <3> DEFINE z == x \o W
    <3>1. z = <<>> \/ y = <<>> \/ Last(z) # "cr" \/ Head(y) # "nl"
      BY <2>1
    <3>2. Sequence(z)
      BY <1>18
    <3> HIDE DEF z
    <3>3. ReadBack(z \o y) = ReadBack(z) \o ReadBack(y)
      BY <1>5, <3>1, <3>2, ReadConcat
    <3>4. QED
      BY <3>3 DEF z
  <2>3. ReadBack(y) = y
    BY <1>19, ReadTwice
  <2>4. QED
    BY <1>11, <1>20, <2>2, <2>3
<1> HIDE DEF W
<1> HIDE DEF T
<1>12. Sequence(lt)
  BY <1>10, SplitHolds DEF LinesOf
<1>13. SplitLines(x \o T) = lx \o lt /\ Sequence(x \o T)
  BY <1>5, <1>9, <1>10, SplitConcat, ConcatAt
<1>15. ASSUME Last(lc[last]) # "ff", d = (x \o T) \o y PROVE SplitLines(d) = (lx \o lt) \o ly
  <2>1. CASE y = <<>>
    <3>1. d = x \o T
      BY <1>13, <1>15, <2>1, ConcatParts
    <3>2. ly = <<>>
      BY <2>1, NoLines
    <3>3. Sequence(lx \o lt)
      BY <1>6, <1>12, ConcatAt
    <3>4. QED
      BY <1>13, <3>1, <3>2, <3>3, ConcatParts
  <2>2. CASE y # <<>>
    <3>1. Last(lc[last]) = "nl"
      BY <1>5, <1>7, <1>8, <1>15, <2>2 DEF Breaks
    <3>2. T = <<>> \/ Last(T) = "nl"
      BY <1>10, <3>1
    <3>3. x \o T = <<>> \/ Last(x \o T) \in Breaks
      <4>1. CASE T = <<>>
        BY <1>5, <1>9, <4>1, ConcatParts
      <4>2. CASE T # <<>>
        <5>1. Last(T) = "nl"
          BY <3>2, <4>2
        <5>2. Last(x \o T) = Last(T)
          BY <1>5, <1>10, <4>2, LastOfConcat
        <5>3. QED
          BY <5>1, <5>2 DEF Breaks
      <4>3. QED
        BY <4>1, <4>2
    <3>4. QED
      BY <1>5, <1>13, <1>15, <3>3, SplitConcat
  <2>3. QED
    BY <2>1, <2>2
<1>16. ASSUME Last(lc[last]) # "ff", ~Joins(new, lc, span)
       PROVE  /\ Slice(SplitLines(d), 0, first - 1) = lx
              /\ m - last + (first - 1) <= Len(SplitLines(d))
              /\ Slice(SplitLines(d), Len(SplitLines(d)) - (m - last), Len(SplitLines(d))) = ly
  <2>1. PICK ld : ld = SplitLines(d)
    OBVIOUS
  <2> DEFINE front == lx \o lt
  <2> HIDE DEF lx, lt, ly, lc, m
  <2>2. ld = front \o ly
    BY <1>15, <1>16, <1>21, <2>1 DEF lc
  <2>3. Sequence(front) /\ Len(front) = Len(lx) + Len(lt) /\ Len(lt) \in Nat
    BY <1>6, <1>12, ConcatAt, ListFacts
  <2>9. Sequence(lx) /\ Sequence(lt) /\ Sequence(ly) /\ Sequence(front)
    BY <1>6, <1>7, <1>12, <2>3
  <2>4. Slice(front, 0, Len(lx)) = lx
    BY <2>9, ConcatParts
  <2>5. Len(ld) = Len(front) + Len(ly) /\ Slice(ld, Len(front), Len(ld)) = ly
    <3> HIDE DEF front
    <3>1. Len(front \o ly) = Len(front) + Len(ly)
      BY <2>9, ConcatAt
    <3>2. Slice(front \o ly, Len(front), Len(front \o ly)) = ly
      BY <2>9, ConcatParts
    <3>3. QED
      BY <2>2, <3>1, <3>2
  <2>6. Slice(ld, 0, Len(lx)) = Slice(front, 0, Len(lx))
    <3>1. 0 \in Nat /\ Len(lx) \in Nat /\ 0 <= Len(lx) /\ Len(lx) <= Len(front)
      BY <1>2, <1>6, <2>3
    <3> HIDE DEF front
    <3>2. QED
      BY <1>7, <2>2, <2>3, <3>1, SliceOfConcat
  <2>7. Len(ld) - (m - last) = Len(front) /\ m - last + (first - 1) <= Len(ld)
    <3>1. Len(lx) \in Nat
      BY <1>2, <1>6
    <3>2. /\ Len(ly) \in Nat /\ m = last + Len(ly) /\ m \in Nat /\ Len(lx) = first - 1
          /\ Len(front) = Len(lx) + Len(lt) /\ Len(lt) \in Nat /\ Len(ld) = Len(front) + Len(ly)
      BY <1>2, <1>6, <1>7, <2>3, <2>5
    <3> HIDE DEF front
    <3>3. QED
      BY <3>1, <3>2
  <2>8. QED
    BY <1>6, <2>1, <2>4, <2>5, <2>6, <2>7
<1>17. QED
  BY <1>6, <1>7, <1>16, <1>18

----------------------------------------------------------------------------
(* A mismatch in white space                                               *)

\* t stands in c after x characters.
Occurs(c, t, x) ==
    x \in Nat /\ x + Len(t) <= Len(c) /\ \A j \in 1 .. Len(t) : c[x + j] = t[j]

LEMMA PositionsOccur ==
    ASSUME NEW c, Sequence(c), NEW t, Sequence(t)
    PROVE  /\ \A x : Occurs(c, t, x) => x + 1 \in Positions(c, t)
           /\ \A i \in Positions(c, t) : i \in Nat /\ i - 1 \in Nat /\ Occurs(c, t, i - 1)
<1>1. Len(c) \in Nat /\ Len(t) \in Nat
  BY ListFacts
<1>2. ASSUME NEW x, Occurs(c, t, x) PROVE x + 1 \in Positions(c, t)
  <2>1. x \in Nat /\ x + Len(t) <= Len(c) /\ \A j \in 1 .. Len(t) : c[x + j] = t[j]
    BY <1>2 DEF Occurs
  <2>2. PICK y : y = x + Len(t)
    OBVIOUS
  <2>3. y \in Nat /\ x <= y /\ y <= Len(c) /\ y - x = Len(t)
    BY <1>1, <2>1, <2>2
  <2>4. /\ Sequence(Slice(c, x, y)) /\ Len(Slice(c, x, y)) = y - x
        /\ \A j \in 1 .. y - x : Slice(c, x, y)[j] = c[x + j]
    BY <2>1, <2>3, SliceList
  <2>5. Slice(c, x, y) = t
    BY <2>1, <2>3, <2>4, SameList
  <2>6. x + 1 \in 1 .. (Len(c) + 1) - Len(t) /\ (x + 1) + Len(t) - 1 = y
    BY <1>1, <2>1, <2>2
  <2>7. SubSeq(c, x + 1, (x + 1) + Len(t) - 1) = t
    BY <2>5, <2>6 DEF Slice
  <2>8. QED
    BY <2>6, <2>7 DEF Positions
<1>3. ASSUME NEW i \in Positions(c, t) PROVE i \in Nat /\ i - 1 \in Nat /\ Occurs(c, t, i - 1)
  <2>1. i \in 1 .. (Len(c) + 1) - Len(t) /\ SubSeq(c, i, i + Len(t) - 1) = t
    BY DEF Positions
  <2>2. PICK x : x = i - 1
    OBVIOUS
  <2>3. PICK y : y = i + Len(t) - 1
    OBVIOUS
  <2>4. x \in Nat /\ y \in Nat /\ x <= y /\ y <= Len(c) /\ y - x = Len(t) /\ x + 1 = i
        /\ x + Len(t) <= Len(c) /\ i \in Nat
    BY <1>1, <2>1, <2>2, <2>3
  <2>5. Slice(c, x, y) = t
    BY <2>1, <2>3, <2>4 DEF Slice
  <2>6. \A j \in 1 .. y - x : Slice(c, x, y)[j] = c[x + j]
    BY <2>4, SliceList
  <2>7. Occurs(c, t, x)
    BY <2>4, <2>5, <2>6 DEF Occurs
  <2>8. QED
    BY <2>2, <2>4, <2>7
<1>4. QED
  BY <1>2, <1>3

\* What is compared of a character.
Plain(char) == IF char \in White THEN " " ELSE char

\* The characters that are left of c, and where they are.
Collapsed(c, order) ==
    /\ Sequence(Chars(Collapse(c))) /\ Len(Chars(Collapse(c))) \in Nat
    /\ InPlace(order, Kept(c), Len(Chars(Collapse(c))))
    /\ \A k \in 1 .. Len(Chars(Collapse(c))) :
          Collapse(c)[k].at = order[k] /\ Chars(Collapse(c))[k] = Plain(c[order[k]])

LEMMA CollapseHolds ==
    ASSUME NEW c, Sequence(c)
    PROVE  \E order : Collapsed(c, order)
<1> DEFINE n     == Len(c)
           P     == Kept(c)
           kept(i) == [char |-> IF c[i] \in White THEN " " ELSE c[i], at |-> i]
           s     == [i \in DOMAIN c |-> kept(i)]
           left  == At(s, P)
           m     == Len(left)
           chars == Chars(left)
<1>1. n \in Nat /\ DOMAIN c = 1 .. n /\ P \in SUBSET (1 .. n)
  BY ListFacts DEF Kept
<1>2. \A i : kept(i).at = i /\ kept(i).char = Plain(c[i])
  BY DEF Plain
<1> HIDE DEF n, P, kept
<1>3. Sequence(s) /\ DOMAIN s = 1 .. n /\ \A i \in 1 .. n : s[i] = kept(i)
  BY <1>1, FunctionList
<1> HIDE DEF s
<1>4. /\ Sequence(left) /\ m \in Nat
      /\ \E order : InPlace(order, P, m) /\ \A k \in 1 .. m : left[k] = s[order[k]]
  BY <1>1, <1>3, AtPlaces
<1>5. Collapse(c) = left
  BY DEF Collapse, s, kept, P
<1> HIDE DEF left
<1>6. PICK order : InPlace(order, P, m) /\ \A k \in 1 .. m : left[k] = s[order[k]]
  BY <1>4
<1>7. DOMAIN left = 1 .. m
  BY <1>4, ListFacts
<1> HIDE DEF m
<1>8. chars = [k \in 1 .. m |-> left[k].char]
  BY <1>7 DEF Chars
<1> HIDE DEF chars
<1>9. Sequence(chars) /\ Len(chars) = m /\ \A k \in 1 .. m : chars[k] = left[k].char
  BY <1>4, <1>8, FunctionList
<1>10. ASSUME NEW k \in 1 .. m PROVE left[k].at = order[k] /\ chars[k] = Plain(c[order[k]])
  <2>1. order[k] \in P
    BY <1>6 DEF InPlace
  <2>2. order[k] \in 1 .. n
    BY <1>1, <2>1
  <2>3. left[k] = kept(order[k])
    BY <1>3, <1>6, <2>2
  <2>4. QED
    BY <1>2, <1>9, <2>3
<1>11. Collapsed(c, order)
  BY <1>4, <1>5, <1>6, <1>9, <1>10 DEF Collapsed, P, chars
<1>12. QED
  BY <1>11

\* What is left of a text neither begins nor ends with white space.
LEMMA CollapseEnds ==
    ASSUME NEW c, Sequence(c), NEW t, t = Chars(Collapse(c)), t # <<>>
    PROVE  /\ Sequence(t) /\ Len(t) \in Nat /\ Len(t) > 0
           /\ t[1] \notin White /\ t[Len(t)] \notin White
<1> DEFINE m == Len(t)
           K == Kept(c)
<1>1. PICK order : Collapsed(c, order)
  BY CollapseHolds
<1>2. /\ Sequence(t) /\ m \in Nat /\ InPlace(order, K, m)
      /\ \A k \in 1 .. m : t[k] = Plain(c[order[k]])
  BY <1>1 DEF Collapsed
<1>3. m > 0
  BY <1>2, ListFacts
<1>4. Len(c) \in Nat /\ DOMAIN c = 1 .. Len(c)
  BY ListFacts
<1>5. /\ K \subseteq 1 .. Len(c)
      /\ \A i \in 1 .. Len(c) : c[i] \notin White => i \in K
      /\ \A i \in K : c[i] \in White => /\ i + 1 \in 1 .. Len(c) /\ c[i + 1] \notin White
                                        /\ \E j \in 1 .. i - 1 : c[j] \notin White
  BY <1>4 DEF Kept
<1> HIDE DEF m, K
<1>6. /\ \A k \in 1 .. m : order[k] \in K
      /\ \A i \in K : \E k \in 1 .. m : order[k] = i
      /\ \A j, k \in 1 .. m : j < k => order[j] < order[k]
  BY <1>2 DEF InPlace
<1>7. \A k \in 1 .. m : order[k] \in 1 .. Len(c)
  BY <1>5, <1>6
<1>8. 1 \in 1 .. m /\ m \in 1 .. m
  BY <1>2, <1>3
<1>9. c[order[1]] \notin White
  <2>1. SUFFICES ASSUME c[order[1]] \in White PROVE FALSE
    OBVIOUS
  <2>2. PICK i : i = order[1]
    OBVIOUS
  <2>3. i \in K /\ i \in 1 .. Len(c)
    BY <1>6, <1>7, <1>8, <2>2
  <2>4. PICK j \in 1 .. i - 1 : c[j] \notin White
    BY <1>5, <2>1, <2>2, <2>3
  <2>5. j \in 1 .. Len(c) /\ j < i
    BY <1>4, <2>3
  <2>6. j \in K
    BY <1>5, <2>4, <2>5
  <2>7. PICK k \in 1 .. m : order[k] = j
    BY <1>6, <2>6
  <2>8. k # 1
    BY <2>2, <2>5, <2>7, <2>3
  <2>9. 1 < k
    BY <1>2, <2>8
  <2>10. order[1] < order[k]
    BY <1>6, <1>8, <2>9
  <2>11. QED
    BY <2>2, <2>3, <2>5, <2>7, <2>10
<1>10. c[order[m]] \notin White
  <2>1. SUFFICES ASSUME c[order[m]] \in White PROVE FALSE
    OBVIOUS
  <2>2. PICK i : i = order[m]
    OBVIOUS
  <2>3. i \in K /\ i \in 1 .. Len(c)
    BY <1>6, <1>7, <1>8, <2>2
  <2>4. i + 1 \in 1 .. Len(c) /\ c[i + 1] \notin White
    BY <1>5, <2>1, <2>2, <2>3
  <2>5. i + 1 \in K
    BY <1>5, <2>4
  <2>6. PICK k \in 1 .. m : order[k] = i + 1
    BY <1>6, <2>5
  <2>7. k # m
    BY <2>2, <2>3, <2>6
  <2>8. k < m
    BY <1>2, <2>7
  <2>9. order[k] < order[m]
    BY <1>6, <1>8, <2>8
  <2>10. QED
    BY <2>2, <2>3, <2>6, <2>9
<1>11. t[1] = c[order[1]] /\ t[m] = c[order[m]]
  BY <1>2, <1>8, <1>9, <1>10 DEF Plain
<1>12. QED
  BY <1>2, <1>3, <1>9, <1>10, <1>11 DEF m

\* n characters after a, the first and the last no white space, stand after x as well.
Repeats(c, a, x, n) ==
    /\ a \in Nat /\ x \in Nat /\ n \in Nat /\ n > 0
    /\ a + n <= Len(c) /\ x + n <= Len(c) /\ \A j \in 1 .. n : c[x + j] = c[a + j]
    /\ c[a + 1] \notin White /\ c[a + n] \notin White

\* Where the same text stands, the same is left of it.
LEMMA SameKept ==
    ASSUME NEW c, Sequence(c), NEW a, NEW x, NEW n, Repeats(c, a, x, n)
    PROVE  /\ \A j \in 1 .. n : a + j \in Kept(c) <=> x + j \in Kept(c)
           /\ a + 1 \in Kept(c) /\ x + 1 \in Kept(c)
           /\ \A j \in 0 .. n : Tally(Kept(c), a, a + j) = Tally(Kept(c), x, x + j)
<1> DEFINE K == Kept(c)
<1> USE DEF Repeats
<1>1. Len(c) \in Nat /\ DOMAIN c = 1 .. Len(c)
  BY ListFacts
<1>2. \A i : i \in K <=> /\ i \in 1 .. Len(c)
                         /\ c[i] \in White => /\ i < Len(c) /\ c[i + 1] \notin White
                                              /\ \E j \in 1 .. i - 1 : c[j] \notin White
  BY <1>1 DEF Kept
<1> HIDE DEF K
<1>3. ASSUME NEW y \in {a, x}, NEW j \in 1 .. n
      PROVE  y + j \in K <=> (c[a + j] \in White => c[a + (j + 1)] \notin White)
  <2>1. y \in Nat /\ y + n <= Len(c) /\ \A i \in 1 .. n : c[y + i] = c[a + i]
    OBVIOUS
  <2>2. y + j \in 1 .. Len(c) /\ c[y + j] = c[a + j]
    BY <1>1, <2>1
  <2>3. CASE c[a + j] \notin White
    BY <1>2, <2>2, <2>3
  <2>4. CASE c[a + j] \in White
    <3>1. j # 1 /\ j # n
      BY <2>4
    <3>2. j + 1 \in 1 .. n /\ y + j < Len(c) /\ (y + j) + 1 = y + (j + 1)
          /\ y + 1 \in 1 .. (y + j) - 1 /\ 1 \in 1 .. n
      BY <1>1, <2>1, <3>1
    <3>3. c[(y + j) + 1] = c[a + (j + 1)]
      BY <2>1, <3>2
    <3>4. c[y + 1] \notin White
      BY <2>1, <3>2
    <3>5. \E i \in 1 .. (y + j) - 1 : c[i] \notin White
      BY <3>2, <3>4
    <3>6. PICK i : i = y + j
      OBVIOUS
    <3>7. /\ i \in 1 .. Len(c) /\ i < Len(c) /\ c[i] \in White /\ c[i + 1] = c[a + (j + 1)]
          /\ \E h \in 1 .. i - 1 : c[h] \notin White
      BY <2>2, <2>4, <3>2, <3>3, <3>5, <3>6
    <3>8. i \in K <=> c[a + (j + 1)] \notin White
      BY <1>2, <3>7
    <3>9. QED
      BY <2>4, <3>6, <3>8
  <2>5. QED
    BY <2>3, <2>4
<1>4. \A j \in 1 .. n : a + j \in K <=> x + j \in K
  BY <1>3
<1>5. a + 1 \in K /\ x + 1 \in K
  <2>1. 1 \in 1 .. n
    OBVIOUS
  <2>2. QED
    BY <1>3, <2>1
<1>6. ASSUME NEW j \in 0 .. n PROVE Tally(K, a, a + j) = Tally(K, x, x + j)
  <2>1. PICK b : b = a + j
    OBVIOUS
  <2>2. PICK y : y = x + j
    OBVIOUS
  <2>3. b \in Nat /\ y \in Nat /\ a <= b /\ b - a = y - x /\ b - a = j
    BY <2>1, <2>2
  <2>4. \A i \in 1 .. b - a : i \in 1 .. n
    BY <2>3
  <2>5. Alike(K, a, b, K, x, y)
    BY <1>4, <2>3, <2>4 DEF Alike
  <2>6. QED
    BY <2>1, <2>2, <2>5, TallySame
<1>7. QED
  BY <1>4, <1>5, <1>6 DEF K

\* t matches what is left of c once, from start to end.
MatchesOnce(c, t, k, start, end) ==
    /\ Sequence(t) /\ Len(t) > 0 /\ t[1] \notin White /\ t[Len(t)] \notin White
    /\ Positions(Chars(Collapse(c)), t) = {k}
    /\ start = Collapse(c)[k].at /\ end = Collapse(c)[k + Len(t) - 1].at

\* The text of the one match stands in the file once.
LEMMA OneMatch ==
    ASSUME NEW c, Sequence(c), NEW t, NEW k, NEW start, NEW end, MatchesOnce(c, t, k, start, end)
    PROVE  /\ start \in 1 .. Len(c) /\ end \in 1 .. Len(c) /\ start <= end
           /\ Sequence(SubSeq(c, start, end)) /\ Len(SubSeq(c, start, end)) = (end - start) + 1
           /\ Positions(c, SubSeq(c, start, end)) = {start}
<1> DEFINE chars == Chars(Collapse(c))
           m     == Len(chars)
           K     == Kept(c)
           w     == Len(t)
<1>0. /\ Sequence(t) /\ Len(t) > 0 /\ t[1] \notin White /\ t[Len(t)] \notin White
      /\ Positions(Chars(Collapse(c)), t) = {k}
      /\ start = Collapse(c)[k].at /\ end = Collapse(c)[k + Len(t) - 1].at
  BY DEF MatchesOnce
<1>1. PICK order : Collapsed(c, order)
  BY CollapseHolds
<1>2. /\ Sequence(chars) /\ m \in Nat /\ InPlace(order, K, m)
      /\ \A i \in 1 .. m : Collapse(c)[i].at = order[i] /\ chars[i] = Plain(c[order[i]])
  BY <1>1 DEF Collapsed
<1>3. Len(c) \in Nat /\ w \in Nat /\ w > 0 /\ DOMAIN c = 1 .. Len(c)
  BY <1>0, ListFacts
<1>4. K \subseteq 1 .. Len(c)
  BY <1>3 DEF Kept
<1> HIDE DEF chars, K, m, w
<1>5. /\ \A i \in 1 .. m : order[i] \in K /\ Tally(K, 0, order[i]) = i
      /\ \A i \in K : Tally(K, 0, i) \in 1 .. m /\ order[Tally(K, 0, i)] = i
      /\ \A i, j \in 1 .. m : i < j => order[i] < order[j]
  BY <1>2 DEF InPlace
<1>6. k \in Nat /\ k - 1 \in Nat /\ Occurs(chars, t, k - 1)
  <2>1. k \in Positions(chars, t) /\ Sequence(chars) /\ Sequence(t)
    BY <1>0, <1>2 DEF chars
  <2>2. QED
    BY <2>1, PositionsOccur
<1>7. PICK u : u = k - 1
  OBVIOUS
<1>8. /\ u \in Nat /\ u + w <= m /\ u + 1 = k /\ (k + w) - 1 = u + w
      /\ \A j \in 1 .. w : chars[u + j] = t[j]
  <2>1. Occurs(chars, t, u)
    BY <1>6, <1>7
  <2>2. u \in Nat /\ u + w <= m /\ \A j \in 1 .. w : chars[u + j] = t[j]
    BY <2>1 DEF Occurs, w, m
  <2>3. u + 1 = k /\ (k + w) - 1 = u + w
    BY <1>3, <1>6, <1>7
  <2>4. QED
    BY <2>2, <2>3
<1>9. u + 1 \in 1 .. m /\ u + w \in 1 .. m /\ 1 \in 1 .. w /\ w \in 1 .. w
  BY <1>2, <1>3, <1>8
<1>10. start = order[u + 1] /\ end = order[u + w]
  <2>1. start = Collapse(c)[u + 1].at
    BY <1>0, <1>8
  <2>2. k + Len(t) - 1 = u + w
    BY <1>8 DEF w
  <2>3. end = Collapse(c)[u + w].at
    BY <1>0, <2>2
  <2>4. QED
    BY <1>2, <1>9, <2>1, <2>3
<1>11. start \in 1 .. Len(c) /\ end \in 1 .. Len(c)
  BY <1>4, <1>5, <1>9, <1>10
<1>12. start <= end
  <2>1. CASE w = 1
    BY <1>10, <1>11, <2>1
  <2>2. CASE w # 1
    <3>1. u + 1 < u + w
      BY <1>3, <1>8, <2>2
    <3>2. start < end
      BY <1>5, <1>9, <1>10, <3>1
    <3>3. QED
      BY <1>11, <3>2
  <2>3. QED
    BY <2>1, <2>2
<1>13. c[start] \notin White /\ c[end] \notin White
  <2>1. Plain(c[start]) = t[1] /\ Plain(c[end]) = t[w]
    BY <1>2, <1>8, <1>9, <1>10
  <2>2. t[1] \notin White /\ t[w] \notin White
    BY <1>0 DEF w
  <2>3. " " \in White
    BY DEF White
  <2>4. QED
    BY <2>1, <2>2, <2>3 DEF Plain
<1>14. PICK a : a = start - 1
  OBVIOUS
<1>15. PICK n : n = end - a
  OBVIOUS
<1>16. a \in Nat /\ n \in Nat /\ n > 0 /\ a + 1 = start /\ a + n = end /\ a <= end /\ end <= Len(c)
       /\ end \in Nat
  <2>1. start \in Nat /\ end \in Nat /\ 1 <= start /\ start <= end /\ end <= Len(c)
    BY <1>3, <1>11, <1>12
  <2>2. a \in Nat /\ a + 1 = start /\ a <= end
    BY <1>14, <2>1
  <2>3. n \in Nat /\ n > 0 /\ a + n = end
    BY <1>15, <2>1, <2>2
  <2>4. QED
    BY <2>1, <2>2, <2>3
<1>17. PICK exact : exact = SubSeq(c, start, end)
  OBVIOUS
<1>18. Sequence(exact) /\ Len(exact) = n /\ \A j \in 1 .. n : exact[j] = c[a + j]
  <2>1. exact = Slice(c, a, end)
    BY <1>16, <1>17 DEF Slice
  <2>2. /\ Sequence(Slice(c, a, end)) /\ Len(Slice(c, a, end)) = end - a
        /\ \A j \in 1 .. end - a : Slice(c, a, end)[j] = c[a + j]
    <3>1. a \in Nat /\ end \in Nat /\ a <= end /\ end <= Len(c)
      BY <1>16
    <3>2. QED
      BY <3>1, SliceList
  <2>3. QED
    BY <1>15, <2>1, <2>2
<1>19. start \in Positions(c, exact)
  <2>1. Occurs(c, exact, a)
    BY <1>16, <1>18 DEF Occurs
  <2>2. QED
    BY <1>16, <1>18, <2>1, PositionsOccur
<1>20. ASSUME NEW x, Occurs(c, exact, x) PROVE x = a
  <2>1. x \in Nat /\ x + n <= Len(c) /\ \A j \in 1 .. n : c[x + j] = c[a + j]
    BY <1>18, <1>20 DEF Occurs
  <2>2. c[a + 1] \notin White /\ c[a + n] \notin White /\ a + n <= Len(c)
    BY <1>13, <1>16
  <2>3. /\ \A j \in 1 .. n : a + j \in K <=> x + j \in K
        /\ a + 1 \in K /\ x + 1 \in K
        /\ \A j \in 0 .. n : Tally(K, a, a + j) = Tally(K, x, x + j)
    <3>1. Repeats(c, a, x, n)
      BY <1>16, <2>1, <2>2 DEF Repeats
    <3>2. QED
      BY <3>1, SameKept DEF K
  <2>4. PICK v : v = Tally(K, 0, x)
    OBVIOUS
  <2>5. \A y \in Nat, j \in Nat : Tally(K, 0, y + j) = Tally(K, 0, y) + Tally(K, y, y + j)
                                 /\ Tally(K, 0, y) \in Nat /\ Tally(K, y, y + j) \in Nat
    <3>1. ASSUME NEW y \in Nat, NEW j \in Nat
          PROVE  Tally(K, 0, y + j) = Tally(K, 0, y) + Tally(K, y, y + j)
                 /\ Tally(K, 0, y) \in Nat /\ Tally(K, y, y + j) \in Nat
      <4>1. PICK z : z = y + j
        OBVIOUS
      <4>2. 0 \in Nat /\ z \in Nat /\ 0 <= y /\ y <= z
        BY <4>1
      <4>3. Tally(K, 0, z) = Tally(K, 0, y) + Tally(K, y, z)
            /\ Tally(K, 0, y) \in Nat /\ Tally(K, y, z) \in Nat
        BY <4>2, TallySplit
      <4>4. QED
        BY <4>1, <4>3
    <3>2. QED
      BY <3>1
  <2>6. Tally(K, 0, a) = u
    <3>1. Tally(K, 0, a + 1) = u + 1
      BY <1>5, <1>9, <1>10, <1>16
    <3>2. Tally(K, 0, a) \in Nat /\ Tally(K, 0, a + 1) = Tally(K, 0, a) + 1
      BY <1>16, <2>3, TallyNext
    <3>3. QED
      BY <1>8, <3>1, <3>2
  <2>7. v \in Nat
    BY <2>1, <2>4, <2>5
  <2>8. ASSUME NEW i \in 1 .. w
        PROVE  /\ v + i \in 1 .. m /\ chars[v + i] = t[i]
               /\ order[v + i] = x + (order[u + i] - a)
    <3>1. u + i \in 1 .. m
      BY <1>2, <1>3, <1>8
    <3>2. PICK p : p = order[u + i]
      OBVIOUS
    <3>3. p \in K /\ p \in 1 .. Len(c) /\ Tally(K, 0, p) = u + i
      BY <1>4, <1>5, <3>1, <3>2
    <3>4. start <= p /\ p <= end
      <4>1. u + 1 < u + i \/ i = 1
        BY <1>8
      <4>2. u + i < u + w \/ i = w
        BY <1>3, <1>8
      <4>3. start < p \/ start = p
        BY <1>5, <1>9, <1>10, <3>1, <3>2, <4>1
      <4>4. p < end \/ p = end
        BY <1>5, <1>9, <1>10, <3>1, <3>2, <4>2
      <4>5. QED
        BY <1>11, <3>3, <4>3, <4>4
    <3>5. PICK j : j = p - a
      OBVIOUS
    <3>6. j \in 1 .. n /\ j \in 0 .. n /\ j \in Nat /\ a + j = p
      BY <1>16, <3>3, <3>4, <3>5
    <3>7. x + j \in K /\ c[x + j] = c[p]
      BY <2>1, <2>3, <3>3, <3>6
    <3>8. Tally(K, a, a + j) = i
      <4>1. Tally(K, 0, a + j) = Tally(K, 0, a) + Tally(K, a, a + j) /\ Tally(K, a, a + j) \in Nat
        BY <1>16, <2>5, <3>6
      <4>2. u + i = u + Tally(K, a, a + j)
        BY <2>6, <3>3, <3>6, <4>1
      <4>3. QED
        BY <1>8, <4>1, <4>2
    <3>9. Tally(K, 0, x + j) = v + i
      <4>1. Tally(K, 0, x + j) = Tally(K, 0, x) + Tally(K, x, x + j)
        BY <2>1, <2>5, <3>6
      <4>2. Tally(K, x, x + j) = i
        BY <2>3, <3>6, <3>8
      <4>3. QED
        BY <2>4, <4>1, <4>2
    <3>10. v + i \in 1 .. m /\ order[v + i] = x + j
      BY <1>5, <3>7, <3>9
    <3>11. chars[v + i] = chars[u + i]
      BY <1>2, <3>1, <3>2, <3>7, <3>10
    <3>12. QED
      BY <1>8, <3>2, <3>5, <3>10, <3>11
  <2>9. Occurs(chars, t, v)
    <3>1. v + w \in 1 .. m
      BY <1>9, <2>8
    <3>2. QED
      BY <1>2, <2>7, <2>8, <3>1 DEF Occurs, m, w
  <2>10. v + 1 \in Positions(chars, t)
    BY <1>0, <1>2, <2>9, PositionsOccur
  <2>11. v + 1 = u + 1
    BY <1>0, <1>8, <2>10 DEF chars
  <2>12. order[u + 1] = x + (order[u + 1] - a)
    BY <1>9, <2>8, <2>11
  <2>13. QED
    BY <1>10, <1>11, <1>16, <2>1, <2>12
<1>21. Positions(c, exact) = {start}
  <2>1. ASSUME NEW i \in Positions(c, exact) PROVE i = start
    <3>1. i \in Nat /\ Occurs(c, exact, i - 1)
      BY <1>18, <2>1, PositionsOccur
    <3>2. i - 1 = a
      BY <1>20, <3>1
    <3>3. QED
      BY <1>16, <3>1, <3>2
  <2>2. QED
    BY <1>19, <2>1
<1>22. n = (end - start) + 1
  BY <1>11, <1>14, <1>15
<1>23. QED
  BY <1>11, <1>12, <1>17, <1>18, <1>21, <1>22

\* The text of a range of lines.
LEMMA RangeText ==
    ASSUME NEW c, Sequence(c), NEW order, LinesOf(c, order), NEW low \in Nat, NEW high \in Nat,
           low <= high, high <= Len(SplitLines(c))
    PROVE  FlattenSeq(SubSeq(SplitLines(c), low + 1, high))
              = Slice(c, EndOf(order, low), EndOf(order, high))
<1> DEFINE lc == SplitLines(c)
<1>1. PICK w, z : /\ Parts(c, w, z)
                  /\ Len(SplitLines(w)) = high /\ Len(w) = EndOf(order, high)
                  /\ \A i \in 1 .. Len(w) : i \in LineEnds(c) <=> i \in LineEnds(w)
  BY Parted
<1> DEFINE lw == SplitLines(w)
<1>2. Sequence(w) /\ Sequence(z) /\ c = w \o z
  BY <1>1 DEF Parts
<1>3. PICK ow : LinesOf(w, ow)
  BY <1>2, SplitHolds
<1>4. low <= Len(SplitLines(w))
  BY <1>1
<1>5. PICK x, y : Parts(w, x, y) /\ Len(SplitLines(x)) = low /\ Len(x) = EndOf(ow, low)
  BY <1>2, <1>3, <1>4, Parted
<1>6. Sequence(x) /\ Sequence(y) /\ w = x \o y
  BY <1>5 DEF Parts
<1>7. EndOf(ow, low) = EndOf(order, low)
  <2>1. \A k \in 0 .. Len(SplitLines(w)) : EndOf(order, k) = EndOf(ow, k)
    BY <1>1, <1>2, <1>3, SameEnds
  <2>2. low \in 0 .. Len(SplitLines(w))
    BY <1>1
  <2>3. QED
    BY <2>1, <2>2
<1>8. Slice(lw, low, high) = SplitLines(y)
  <2>1. Slice(lw, Len(SplitLines(x)), Len(lw)) = SplitLines(y)
    BY <1>5, PartsHold
  <2>2. QED
    BY <1>1, <1>5, <2>1
<1>9. Slice(lc, low, high) = SplitLines(y)
  <2>1. lc = lw \o SplitLines(z) /\ Sequence(lw) /\ Sequence(SplitLines(z))
    BY <1>1, PartsHold DEF Parts
  <2>2. high <= Len(lw)
    BY <1>1
  <2>3. Slice(lw \o SplitLines(z), low, high) = Slice(lw, low, high)
    <3> HIDE DEF lw
    <3>1. QED
      BY <2>1, <2>2, SliceOfConcat
  <2>4. QED
    BY <1>8, <2>1, <2>3
<1>10. FlattenSeq(SubSeq(lc, low + 1, high)) = y
  BY <1>6, <1>9, FlattenSplit DEF Slice
<1>11. y = Slice(c, Len(x), Len(w))
  <2>1. Slice(w, Len(x), Len(w)) = y
    BY <1>6, ConcatParts
  <2>2. Len(x) \in Nat /\ Len(w) \in Nat /\ Len(x) <= Len(w) /\ Len(w) <= Len(w)
    <3>1. Len(x) \in Nat /\ Len(y) \in Nat
      BY <1>6, ListFacts
    <3>2. Len(x \o y) = Len(x) + Len(y)
      BY <1>6, ConcatAt
    <3>3. Len(w) = Len(x) + Len(y)
      BY <1>6, <3>2
    <3>4. QED
      BY <3>1, <3>3
  <2>3. Slice(w \o z, Len(x), Len(w)) = Slice(w, Len(x), Len(w))
    BY <1>2, <2>2, SliceOfConcat
  <2>4. QED
    BY <1>2, <2>1, <2>3
<1>12. QED
  BY <1>1, <1>5, <1>7, <1>10, <1>11

\* The line that a character is on.
LEMMA LineHolds ==
    ASSUME NEW c, Sequence(c), \A i \in DOMAIN c : c[i] # "ff", NEW order, LinesOf(c, order),
           NEW x, x \in 1 .. Len(c)
    PROVE  /\ LineAt(c, x) \in 1 .. Len(SplitLines(c))
           /\ EndOf(order, LineAt(c, x) - 1) < x /\ x <= EndOf(order, LineAt(c, x))
           /\ \A y \in 1 .. Len(c) : x <= y => LineAt(c, x) <= LineAt(c, y)
<1> DEFINE n == Len(c)
           E == LineEnds(c)
           m == Len(SplitLines(c))
<1>1. n \in Nat /\ DOMAIN c = 1 .. n /\ m \in Nat /\ m = Tally(E, 0, n)
  BY ListFacts DEF LinesOf
<1>2. n \in E /\ \A i \in 1 .. n : i < n => (i \in E <=> c[i] = "nl")
  <2>1. \A i \in 1 .. n : i \in E <=> (c[i] \in Breaks \/ i = n)
    BY <1>1 DEF LineEnds
  <2>2. \A i \in 1 .. n : c[i] \in Breaks <=> c[i] = "nl"
    BY <1>1 DEF Breaks
  <2>3. n \in 1 .. n
    BY <1>1
  <2> HIDE DEF E, n
  <2>4. QED
    BY <1>1, <2>1, <2>2, <2>3
<1>3. /\ \A k \in 0 .. m : EndOf(order, k) \in 0 .. n /\ Tally(E, 0, EndOf(order, k)) = k
      /\ \A k \in 1 .. m : EndOf(order, k) \in E
  BY EndsHold
<1> HIDE DEF n, E, m
<1>4. ASSUME NEW y \in 1 .. n PROVE LineAt(c, y) = 1 + Tally(E, 0, y - 1)
  <2>1. \A j : j \in 0 + 1 .. y - 1 <=> j \in 1 .. y - 1
    BY <1>1
  <2>2. \A j \in 1 .. y - 1 : j \in E <=> c[j] = "nl"
    BY <1>1, <1>2
  <2>3. {j \in 1 .. y - 1 : c[j] = "nl"} = {j \in 0 + 1 .. y - 1 : j \in E}
    BY <2>1, <2>2
  <2>4. QED
    BY <2>3 DEF LineAt, Tally
<1>5. \A y, z \in 0 .. n : y <= z => /\ Tally(E, 0, y) \in Nat /\ Tally(E, 0, z) \in Nat
                                     /\ Tally(E, 0, y) <= Tally(E, 0, z)
  <2>1. ASSUME NEW y \in 0 .. n, NEW z \in 0 .. n, y <= z
        PROVE  /\ Tally(E, 0, y) \in Nat /\ Tally(E, 0, z) \in Nat
               /\ Tally(E, 0, y) <= Tally(E, 0, z)
    <3>1. 0 \in Nat /\ y \in Nat /\ z \in Nat /\ 0 <= y /\ y <= z
      BY <1>1, <2>1
    <3>2. /\ Tally(E, 0, z) = Tally(E, 0, y) + Tally(E, y, z)
          /\ Tally(E, 0, y) \in Nat /\ Tally(E, y, z) \in Nat
      BY <3>1, TallySplit
    <3>3. QED
      BY <3>2
  <2>2. QED
    BY <2>1
<1>6. \A i \in E : i \in 1 .. n => Tally(E, 0, i) = Tally(E, 0, i - 1) + 1
  <2>1. ASSUME NEW i \in E, i \in 1 .. n PROVE Tally(E, 0, i) = Tally(E, 0, i - 1) + 1
    <3>1. i - 1 \in Nat /\ (i - 1) + 1 = i
      BY <1>1, <2>1
    <3>2. (i - 1) + 1 \in E
      BY <2>1, <3>1
    <3>3. QED
      BY <3>1, <3>2, TallyNext
  <2>2. QED
    BY <2>1
<1>7. PICK r : r = Tally(E, 0, x - 1)
  OBVIOUS
<1>8. x \in 1 .. n /\ x - 1 \in 0 .. n /\ x - 1 <= n - 1 /\ n - 1 \in 0 .. n /\ n \in 1 .. n
  BY <1>1 DEF n
<1>9. r \in Nat /\ r + 1 <= m /\ LineAt(c, x) = r + 1
  <2>1. r \in Nat /\ r <= Tally(E, 0, n - 1) /\ Tally(E, 0, n - 1) \in Nat
    BY <1>5, <1>7, <1>8
  <2>2. m = Tally(E, 0, n - 1) + 1
    BY <1>1, <1>2, <1>6, <1>8
  <2>3. LineAt(c, x) = 1 + r
    BY <1>4, <1>7, <1>8
  <2>4. QED
    BY <2>1, <2>2, <2>3
<1>10. r \in 0 .. m /\ r + 1 \in 0 .. m /\ r + 1 \in 1 .. m /\ (r # 0 => r \in 1 .. m)
  BY <1>1, <1>9
<1>11. EndOf(order, r) < x
  <2>1. PICK p : p = EndOf(order, r)
    OBVIOUS
  <2>2. p \in 0 .. n /\ Tally(E, 0, p) = r
    BY <1>3, <1>10, <2>1
  <2>3. SUFFICES ASSUME ~(p < x) PROVE FALSE
    BY <2>1
  <2>4. p \in 1 .. n /\ x - 1 <= p - 1 /\ p - 1 \in 0 .. n /\ p # 0
    BY <1>8, <2>2, <2>3
  <2>5. r # 0
    BY <2>1, <2>4 DEF EndOf
  <2>6. p \in E
    BY <1>3, <1>10, <2>1, <2>5
  <2>7. Tally(E, 0, p) = Tally(E, 0, p - 1) + 1
    BY <1>6, <2>4, <2>6
  <2>8. r <= Tally(E, 0, p - 1) /\ Tally(E, 0, p - 1) \in Nat
    BY <1>5, <1>7, <1>8, <2>4
  <2>9. QED
    BY <1>9, <2>2, <2>7, <2>8
<1>12. x <= EndOf(order, r + 1)
  <2>1. PICK q : q = EndOf(order, r + 1)
    OBVIOUS
  <2>2. q \in 0 .. n /\ Tally(E, 0, q) = r + 1
    BY <1>3, <1>10, <2>1
  <2>3. SUFFICES ASSUME ~(x <= q) PROVE FALSE
    BY <2>1
  <2>4. q <= x - 1
    BY <1>8, <2>2, <2>3
  <2>5. Tally(E, 0, q) <= r
    BY <1>5, <1>7, <1>8, <2>2, <2>4
  <2>6. QED
    BY <1>9, <2>2, <2>5
<1>13. ASSUME NEW y \in 1 .. n, x <= y PROVE LineAt(c, x) <= LineAt(c, y)
  <2>1. y - 1 \in 0 .. n /\ x - 1 <= y - 1
    BY <1>1, <1>8, <1>13
  <2>2. r <= Tally(E, 0, y - 1) /\ Tally(E, 0, y - 1) \in Nat
    BY <1>5, <1>7, <1>8, <2>1
  <2>3. LineAt(c, y) = 1 + Tally(E, 0, y - 1)
    BY <1>4
  <2>4. QED
    BY <1>9, <2>2, <2>3
<1>14. LineAt(c, x) - 1 = r
  BY <1>9
<1>15. QED
  BY <1>9, <1>10, <1>11, <1>12, <1>13, <1>14 DEF n, m

\* What stands in a slice stands in the list.
LEMMA SliceOccurs ==
    ASSUME NEW c, Sequence(c), NEW t, Sequence(t), NEW low \in Nat, NEW high \in Nat,
           low <= high, high <= Len(c)
    PROVE  /\ Sequence(Slice(c, low, high))
           /\ \A x : Occurs(Slice(c, low, high), t, x) =>
                        Occurs(c, t, low + x) /\ low + x + Len(t) <= high
           /\ \A x : Occurs(c, t, low + x) /\ x \in Nat /\ low + x + Len(t) <= high =>
                        Occurs(Slice(c, low, high), t, x)
<1> DEFINE s == Slice(c, low, high)
<1>1. /\ Sequence(s) /\ Len(s) = high - low
      /\ \A i \in 1 .. high - low : s[i] = c[low + i]
  BY SliceList
<1>2. Len(t) \in Nat /\ Len(c) \in Nat
  BY ListFacts
<1> HIDE DEF s
<1>3. ASSUME NEW x \in Nat, low + x + Len(t) <= high
      PROVE  \A j \in 1 .. Len(t) : s[x + j] = c[(low + x) + j]
  <2>1. ASSUME NEW j \in 1 .. Len(t) PROVE s[x + j] = c[(low + x) + j]
    <3>1. x + j \in 1 .. high - low /\ low + (x + j) = (low + x) + j
      BY <1>2, <1>3
    <3>2. QED
      BY <1>1, <3>1
  <2>2. QED
    BY <2>1
<1>4. ASSUME NEW x, Occurs(s, t, x) PROVE Occurs(c, t, low + x) /\ low + x + Len(t) <= high
  <2>1. x \in Nat /\ x + Len(t) <= high - low /\ \A j \in 1 .. Len(t) : s[x + j] = t[j]
    BY <1>1, <1>4 DEF Occurs
  <2>2. low + x + Len(t) <= high /\ low + x \in Nat /\ (low + x) + Len(t) <= Len(c)
    BY <1>2, <2>1
  <2>3. QED
    BY <1>3, <2>1, <2>2 DEF Occurs
<1>5. ASSUME NEW x, Occurs(c, t, low + x), x \in Nat, low + x + Len(t) <= high
      PROVE  Occurs(s, t, x)
  <2>1. \A j \in 1 .. Len(t) : c[(low + x) + j] = t[j]
    BY <1>5 DEF Occurs
  <2>2. x + Len(t) <= high - low
    BY <1>2, <1>5
  <2>3. QED
    BY <1>1, <1>3, <1>5, <2>1, <2>2 DEF Occurs
<1>6. QED
  BY <1>1, <1>4, <1>5 DEF s

\* One occurrence is counted as one, and none as none.
LEMMA CountHolds ==
    ASSUME NEW c, NEW t
    PROVE  /\ Positions(c, t) = {} => Count(c, t) = 0
           /\ \A i \in Nat : Positions(c, t) = {i} => Count(c, t) = 1
<1> DEFINE P == Positions(c, t)
           NoOverlap(G) == \A i \in P : i \in G <=> \A j \in G : j < i => j + Len(t) <= i
           G0 == CHOOSE G \in SUBSET P : NoOverlap(G)
<1>1. Counted(c, t) = G0
  BY DEF Counted
<1>2. ASSUME NEW G \in SUBSET P, NoOverlap(G) PROVE G0 \in SUBSET P /\ NoOverlap(G0)
  <2> HIDE DEF NoOverlap
  <2>1. QED
    BY <1>2
<1> HIDE DEF G0, P
<1>3. ASSUME P = {} PROVE Count(c, t) = 0
  <2>1. {} \in SUBSET P /\ NoOverlap({})
    BY <1>3
  <2>2. G0 = {}
    BY <1>2, <1>3, <2>1
  <2>3. QED
    BY <1>1, <2>2, FS_EmptySet DEF Count
<1>4. ASSUME NEW i \in Nat, P = {i} PROVE Count(c, t) = 1
  <2>1. {i} \in SUBSET P /\ NoOverlap({i})
    BY <1>4
  <2>2. G0 \in SUBSET {i} /\ NoOverlap(G0)
    BY <1>2, <1>4, <2>1
  <2>3. i \in G0
    BY <1>4, <2>2
  <2>4. G0 = {i}
    BY <2>2, <2>3
  <2>5. QED
    BY <1>1, <2>4, FS_Singleton DEF Count
<1>5. QED
  BY <1>3, <1>4 DEF P

\* Where a quote tells the policy to look.
Placed(c, exact, lines) ==
    LET all   == SplitLines(c)
        named == FlattenSeq(SubSeq(all, lines.first, lines.last))
    IN  /\ Positions(named, exact) # {}
        /\ \A inner \in {Span(lines.first + 1, lines.last), Span(lines.first, lines.last - 1)} :
              Positions(FlattenSeq(SubSeq(all, inner.first, inner.last)), exact) = {}

LEMMA QuoteIsPlaced ==
    ASSUME NEW c, Sequence(c), \A i \in DOMAIN c : c[i] # "ff",
           NEW start \in 1 .. Len(c), NEW end \in 1 .. Len(c), start <= end,
           NEW exact, Sequence(exact), Len(exact) = (end - start) + 1,
           Positions(c, exact) = {start}
    PROVE  Placed(c, exact, Span(LineAt(c, start), LineAt(c, end)))
<1> DEFINE lc == SplitLines(c)
           m  == Len(lc)
<1>1. PICK order : LinesOf(c, order)
  BY SplitHolds
<1>2. PICK f : f = LineAt(c, start)
  OBVIOUS
<1>3. PICK l : l = LineAt(c, end)
  OBVIOUS
<1>4. /\ f \in 1 .. m /\ EndOf(order, f - 1) < start /\ start <= EndOf(order, f) /\ f <= l
      /\ l \in 1 .. m /\ EndOf(order, l - 1) < end /\ end <= EndOf(order, l)
  <2>1. /\ f \in 1 .. m /\ EndOf(order, f - 1) < start /\ start <= EndOf(order, f)
        /\ \A y \in 1 .. Len(c) : start <= y => LineAt(c, start) <= LineAt(c, y)
    BY <1>1, <1>2, LineHolds
  <2>2. /\ l \in 1 .. m /\ EndOf(order, l - 1) < end /\ end <= EndOf(order, l)
    BY <1>1, <1>3, LineHolds
  <2>3. QED
    BY <1>2, <1>3, <2>1, <2>2
<1>5. m \in Nat /\ Len(c) \in Nat
  BY <1>1, ListFacts DEF LinesOf
<1>6. /\ \A k \in 0 .. m : EndOf(order, k) \in 0 .. Len(c)
      /\ \A j, k \in 0 .. m : j <= k => EndOf(order, j) <= EndOf(order, k)
  BY <1>1, EndsHold
<1>7. ASSUME NEW low \in 0 .. m, NEW high \in 0 .. m, low <= high
      PROVE  /\ FlattenSeq(SubSeq(lc, low + 1, high)) = Slice(c, EndOf(order, low), EndOf(order, high))
             /\ EndOf(order, low) \in Nat /\ EndOf(order, high) \in Nat
             /\ EndOf(order, low) <= EndOf(order, high) /\ EndOf(order, high) <= Len(c)
  <2>1. low \in Nat /\ high \in Nat /\ low <= high /\ high <= m
    BY <1>5, <1>7
  <2>2. FlattenSeq(SubSeq(lc, low + 1, high)) = Slice(c, EndOf(order, low), EndOf(order, high))
    BY <1>1, <2>1, RangeText
  <2>3. QED
    BY <1>5, <1>6, <1>7, <2>2
<1> HIDE DEF lc, m
<1>8. f - 1 \in 0 .. m /\ f \in 0 .. m /\ l - 1 \in 0 .. m /\ l \in 0 .. m
      /\ f - 1 <= l /\ f - 1 <= l - 1 /\ (f - 1) + 1 = f
  BY <1>4, <1>5
<1>9. PICK a : a = EndOf(order, f - 1)
  OBVIOUS
<1>10. PICK b : b = EndOf(order, l)
  OBVIOUS
<1>11. PICK p : p = EndOf(order, f)
  OBVIOUS
<1>12. PICK q : q = EndOf(order, l - 1)
  OBVIOUS
<1>13. /\ FlattenSeq(SubSeq(lc, f, l)) = Slice(c, a, b)
       /\ a \in Nat /\ b \in Nat /\ a <= b /\ b <= Len(c)
  <2>1. FlattenSeq(SubSeq(lc, (f - 1) + 1, l)) = Slice(c, a, b)
    BY <1>7, <1>8, <1>9, <1>10
  <2>2. a \in Nat /\ b \in Nat /\ a <= b /\ b <= Len(c)
    BY <1>7, <1>8, <1>9, <1>10
  <2>3. QED
    BY <1>8, <2>1, <2>2
<1>14. /\ FlattenSeq(SubSeq(lc, f + 1, l)) = Slice(c, p, b)
       /\ p \in Nat /\ p <= b
  BY <1>4, <1>7, <1>8, <1>10, <1>11
<1>15. /\ FlattenSeq(SubSeq(lc, f, l - 1)) = Slice(c, a, q)
       /\ q \in Nat /\ a <= q /\ q <= Len(c)
  <2>1. FlattenSeq(SubSeq(lc, (f - 1) + 1, l - 1)) = Slice(c, a, q)
    BY <1>7, <1>8, <1>9, <1>12
  <2>2. q \in Nat /\ a <= q /\ q <= Len(c)
    BY <1>7, <1>8, <1>9, <1>12
  <2>3. QED
    BY <1>8, <2>1, <2>2
<1>16. a < start /\ start <= p /\ q < end /\ end <= b /\ start \in Nat /\ end \in Nat
  BY <1>4, <1>5, <1>9, <1>10, <1>11, <1>12
<1>17. Occurs(c, exact, start - 1) /\ \A x : Occurs(c, exact, x) => x + 1 = start
  BY PositionsOccur
<1>18. Positions(Slice(c, a, b), exact) # {}
  <2>1. PICK x : x = (start - 1) - a
    OBVIOUS
  <2>2. x \in Nat /\ a + x = start - 1 /\ a + x + Len(exact) <= b
    BY <1>13, <1>16, <2>1
  <2>3. Occurs(c, exact, a + x)
    BY <1>17, <2>2
  <2>4. Occurs(Slice(c, a, b), exact, x) /\ Sequence(Slice(c, a, b))
    BY <1>13, <2>2, <2>3, SliceOccurs
  <2>5. QED
    BY <2>4, PositionsOccur
<1>19. Positions(Slice(c, p, b), exact) = {}
  <2>1. SUFFICES ASSUME NEW i \in Positions(Slice(c, p, b), exact) PROVE FALSE
    OBVIOUS
  <2>2. /\ Sequence(Slice(c, p, b))
        /\ \A x : Occurs(Slice(c, p, b), exact, x) => Occurs(c, exact, p + x)
    BY <1>13, <1>14, SliceOccurs
  <2>3. i - 1 \in Nat /\ Occurs(Slice(c, p, b), exact, i - 1)
    BY <2>1, <2>2, PositionsOccur
  <2>4. (p + (i - 1)) + 1 = start
    BY <1>17, <2>2, <2>3
  <2>5. QED
    BY <1>14, <1>16, <2>3, <2>4
<1>20. Positions(Slice(c, a, q), exact) = {}
  <2>1. SUFFICES ASSUME NEW i \in Positions(Slice(c, a, q), exact) PROVE FALSE
    OBVIOUS
  <2>2. /\ Sequence(Slice(c, a, q))
        /\ \A x : Occurs(Slice(c, a, q), exact, x) =>
              Occurs(c, exact, a + x) /\ a + x + Len(exact) <= q
    BY <1>13, <1>15, SliceOccurs
  <2>3. PICK x \in Nat : Occurs(Slice(c, a, q), exact, x)
    BY <2>1, <2>2, PositionsOccur
  <2>4. (a + x) + 1 = start /\ a + x + Len(exact) <= q
    BY <1>17, <2>2, <2>3
  <2>5. QED
    BY <1>13, <1>15, <1>16, <2>3, <2>4
<1>21. \A x, y : Span(x, y).first = x /\ Span(x, y).last = y
  BY DEF Span
<1>22. QED
  BY <1>2, <1>3, <1>13, <1>14, <1>15, <1>18, <1>19, <1>20, <1>21 DEF Placed, lc

LEMMA QuoteSays ==
    ASSUME NEW c, NEW start, NEW end
    PROVE  /\ Quote(c, start, end).exact = SubSeq(c, start, end)
           /\ Quote(c, start, end).shown = Shown(SubSeq(c, start, end))
           /\ Quote(c, start, end).lines = Span(LineAt(c, start), LineAt(c, end))
<1> DEFINE exact == SubSeq(c, start, end)
           shown == Shown(exact)
           lines == Span(LineAt(c, start), LineAt(c, end))
<1>1. Quote(c, start, end) = [says |-> "whitespace", exact |-> exact, shown |-> shown,
                              lines |-> lines]
  BY DEF Quote
<1> HIDE DEF exact, shown, lines
<1>2. /\ Quote(c, start, end).exact = exact /\ Quote(c, start, end).shown = shown
      /\ Quote(c, start, end).lines = lines
  BY <1>1
<1>3. QED
  BY <1>2 DEF exact, shown, lines

\* The advice of a mismatch in white space.
LEMMA AdviceHolds ==
    ASSUME NEW c, Sequence(c), NEW old, Sequence(old), Count(c, old) # 1,
           NEW advice, advice = Mismatch(c, old), advice.says = "whitespace"
    PROVE  /\ Len(advice.exact) <= MaxQuote => advice.shown # old /\ Count(c, advice.shown) = 1
           /\ (\A i \in DOMAIN c : c[i] # "ff") => Placed(c, advice.exact, advice.lines)
<1> DEFINE left   == Collapse(c)
           wanted == Chars(Collapse(old))
           at     == Positions(Chars(left), wanted)
           k      == CHOOSE k \in at : TRUE
           start  == left[k].at
           end    == left[k + Len(wanted) - 1].at
           many   == [says |-> "ambiguous", at |-> {LineAt(c, i) : i \in Positions(c, old)}]
<1>1. advice = IF Count(c, old) > 1 THEN many
               ELSE IF wanted # <<>> /\ Cardinality(at) = 1 THEN Quote(c, start, end)
               ELSE [says |-> "absent"]
  BY DEF Mismatch
<1>2. many.says # "whitespace" /\ [says |-> "absent"].says # "whitespace"
  OBVIOUS
<1> HIDE DEF left, wanted, at, k, start, end, many
<1>3. wanted # <<>> /\ Cardinality(at) = 1 /\ advice = Quote(c, start, end)
  BY <1>1, <1>2
<1>4. advice.exact = SubSeq(c, start, end) /\ advice.shown = Shown(advice.exact)
      /\ advice.lines = Span(LineAt(c, start), LineAt(c, end))
  BY <1>3, QuoteSays
<1>5. /\ Sequence(wanted) /\ Len(wanted) \in Nat /\ Len(wanted) > 0
      /\ wanted[1] \notin White /\ wanted[Len(wanted)] \notin White
  BY <1>3, CollapseEnds DEF wanted
<1>6. at = {k}
  <2>1. PICK order : Collapsed(c, order)
    BY CollapseHolds
  <2>2. Sequence(Chars(left)) /\ Len(Chars(left)) \in Nat
    BY <2>1 DEF Collapsed, left
  <2>3. (Len(Chars(left)) + 1) - Len(wanted) \in Int
    BY <1>5, <2>2
  <2>4. at \subseteq 1 .. (Len(Chars(left)) + 1) - Len(wanted)
    BY DEF at, Positions
  <2>5. IsFiniteSet(at)
    <3>1. PICK n \in Int : n = (Len(Chars(left)) + 1) - Len(wanted)
      BY <2>3
    <3>2. 1 \in Int /\ n \in Int /\ at \in SUBSET (1 .. n)
      BY <2>4, <3>1
    <3>3. IsFiniteSet(1 .. n)
      BY <3>2, FS_Interval
    <3>4. QED
      BY <3>2, <3>3, FS_Subset
  <2>6. PICK x : at = {x}
    BY <1>3, <2>5, FS_Singleton
  <2>7. k = x
    BY <2>6 DEF k
  <2>8. QED
    BY <2>6, <2>7
<1>7. /\ start \in 1 .. Len(c) /\ end \in 1 .. Len(c) /\ start <= end
      /\ Sequence(advice.exact) /\ Len(advice.exact) = (end - start) + 1
      /\ Positions(c, advice.exact) = {start}
  <2>1. Positions(Chars(Collapse(c)), wanted) = {k}
    BY <1>6 DEF at, left
  <2>2. start = Collapse(c)[k].at /\ end = Collapse(c)[k + Len(wanted) - 1].at
    BY DEF start, end, left
  <2>3. /\ start \in 1 .. Len(c) /\ end \in 1 .. Len(c) /\ start <= end
        /\ Sequence(SubSeq(c, start, end)) /\ Len(SubSeq(c, start, end)) = (end - start) + 1
        /\ Positions(c, SubSeq(c, start, end)) = {start}
    <3>1. MatchesOnce(c, wanted, k, start, end)
      BY <1>5, <2>1, <2>2 DEF MatchesOnce
    <3>2. QED
      BY <3>1, OneMatch
  <2>4. QED
    BY <1>4, <2>3
<1>8. Count(c, advice.exact) = 1
  <2>1. start \in Nat
    BY <1>7
  <2>2. QED
    BY <1>7, <2>1, CountHolds
<1>9. (\A i \in DOMAIN c : c[i] # "ff") => Placed(c, advice.exact, advice.lines)
  BY <1>4, <1>7, QuoteIsPlaced
<1>10. Len(advice.exact) <= MaxQuote => advice.shown = advice.exact
  BY <1>4 DEF Shown
<1>11. QED
  BY <1>8, <1>9, <1>10

----------------------------------------------------------------------------
(* What the state remembers of a call                                      *)

\* An observation answers the call it comes with, about the repository it is made on.
Answers ==
    /\ repo = <<>> \/ repo \in Repositories
    /\ call.kind = "run_tests" => call.output \in Outputs
    /\ call.kind = "search" =>
          /\ repo \in Repositories /\ call.query \in Queries
          /\ said.lines = IF call.by = "fixture" THEN FixtureSearch(repo, call.query, call.order)
                          ELSE ContainerSearch(repo, call.query, call.order)
    /\ said.says = "directive" => call.kind = "guided"

\* No call of Observations is told what a refusal says.
LEMMA ReadFileStep ==
    ASSUME ReadFile
    PROVE  /\ call'.kind = "read" /\ said'.says \notin {"directive", "whitespace"}
           /\ UNCHANGED <<content, repo>>
<1> DEFINE Reads(observation) ==
               call'.kind = "read" /\ said' = observation /\ UNCHANGED <<content, repo>>
<1>1. \A observation : Tell([kind |-> "read"], observation) => Reads(observation)
  BY DEF Tell
<1>2. \A text, range : Window(text, range).says \in {"no lines", "lines"}
  <2>1. ASSUME NEW text, NEW range PROVE Window(text, range).says \in {"no lines", "lines"}
    <3> DEFINE lines == SplitLines(text)
               total == Len(lines)
               last  == Least(total, range.last)
               used(n) == FoldLeft(LAMBDA sum, line : sum + LineSize(line), 0,
                                   SubSeq(lines, range.first, n))
               fits  == {n \in range.first .. last : n = range.first \/ used(n) <= MaxChars}
               shown == CHOOSE n \in fits : \A m \in fits : m <= n
    <3>1. Window(text, range) =
              IF last < range.first THEN [says |-> "no lines"]
              ELSE [says |-> "lines", first |-> range.first, last |-> shown, more |-> shown < total,
                    next |-> Span(shown + 1, Least(total, shown + DefaultLines))]
      BY DEF Window
    <3> DEFINE more == shown < total
               next == Span(shown + 1, Least(total, shown + DefaultLines))
               told == [says |-> "lines", first |-> range.first, last |-> shown, more |-> more,
                        next |-> next]
    <3>2. Window(text, range) = IF last < range.first THEN [says |-> "no lines"] ELSE told
      BY <3>1
    <3> HIDE DEF shown, last, total, more, next
    <3>3. told.says = "lines" /\ [says |-> "no lines"].says = "no lines"
      OBVIOUS
    <3> HIDE DEF told
    <3>4. QED
      BY <3>2, <3>3
  <2>2. QED
    BY <2>1
<1>3. Reads([says |-> "empty"]) \/ \E text, range : Reads(Window(text, range))
  BY <1>1 DEF ReadFile
<1>4. CASE Reads([says |-> "empty"])
  BY <1>4
<1>5. CASE \E text, range : Reads(Window(text, range))
  <2>1. PICK text, range : Reads(Window(text, range))
    BY <1>5
  <2>2. Window(text, range).says \in {"no lines", "lines"}
    BY <1>2
  <2>3. QED
    BY <2>1, <2>2
<1>6. QED
  BY <1>3, <1>4, <1>5

LEMMA WriteStep ==
    ASSUME NEW c, NEW updated, NEW span, Write(c, updated, span)
    PROVE  /\ call' = c \/ call' = [c EXCEPT !.before = content]
           /\ said'.says \in {"updated", "unparseable"} /\ UNCHANGED repo
BY DEF Write, Tell, Unparseable

LEMMA ReplaceTextStep ==
    ASSUME ReplaceText
    PROVE  call'.kind = "replace_text" /\ said'.says # "directive" /\ UNCHANGED repo
<1>1. PICK old \in Olds, new \in News :
        LET c == [kind |-> "replace_text", old |-> old, new |-> new, before |-> content] IN
          /\ old # new
          /\ IF Count(content, old) = 1
             THEN Write(c, WithText(content, old, new), ReplacedSpan(content, old))
             ELSE Tell(c, Mismatch(content, old))
  BY DEF ReplaceText
<1> DEFINE c == [kind |-> "replace_text", old |-> old, new |-> new, before |-> content]
<1>2. c.kind = "replace_text" /\ [c EXCEPT !.before = content].kind = "replace_text"
  OBVIOUS
<1> HIDE DEF c
<1>3. Mismatch(content, old).says \in {"ambiguous", "whitespace", "absent"}
  BY DEF Mismatch, Quote
<1>4. CASE Write(c, WithText(content, old, new), ReplacedSpan(content, old))
  BY <1>2, <1>4, WriteStep
<1>5. CASE Tell(c, Mismatch(content, old))
  BY <1>2, <1>3, <1>5 DEF Tell
<1>6. QED
  BY <1>1, <1>4, <1>5 DEF c

LEMMA ReplaceLinesStep ==
    ASSUME ReplaceLines
    PROVE  call'.kind = "replace_lines" /\ said'.says # "directive" /\ UNCHANGED repo
<1>1. PICK span \in Ranges, new \in News :
        LET c == [kind |-> "replace_lines", span |-> span, new |-> new, before |-> content] IN
          IF span.last > Len(SplitLines(content))
          THEN Tell(c, [says |-> "too far"])
          ELSE IF WithLines(content, span, new) = content
          THEN Tell(c, [says |-> "identical"])
          ELSE Write(c, WithLines(content, span, new), span)
  BY DEF ReplaceLines
<1> DEFINE c == [kind |-> "replace_lines", span |-> span, new |-> new, before |-> content]
<1>2. c.kind = "replace_lines" /\ [c EXCEPT !.before = content].kind = "replace_lines"
  OBVIOUS
<1> HIDE DEF c
<1>3. CASE Write(c, WithLines(content, span, new), span)
  BY <1>2, <1>3, WriteStep
<1>4. CASE Tell(c, [says |-> "too far"])
  BY <1>2, <1>4 DEF Tell
<1>5. CASE Tell(c, [says |-> "identical"])
  BY <1>2, <1>5 DEF Tell
<1>6. QED
  BY <1>1, <1>3, <1>4, <1>5 DEF c

\* What a search and a failed run answer.
LEMMA SearchStep ==
    ASSUME SearchText, Answers
    PROVE  Answers'
<1>1. PICK query \in Queries, order \in Orders :
        \/ Tell([kind |-> "search", by |-> "fixture", query |-> query, order |-> order],
                [says |-> "found", lines |-> FixtureSearch(repo, query, order)])
        \/ Tell([kind |-> "search", by |-> "container", query |-> query, order |-> order],
                [says |-> "found", lines |-> ContainerSearch(repo, query, order)])
  BY DEF SearchText
<1>2. repo \in Repositories
  BY DEF SearchText, Answers
<1>3. UNCHANGED repo /\ call'.kind = "search" /\ call'.query = query /\ call'.order = order
      /\ said'.says = "found"
  BY <1>1 DEF Tell
<1>4. said'.lines = IF call'.by = "fixture" THEN FixtureSearch(repo, query, order)
                    ELSE ContainerSearch(repo, query, order)
  BY <1>1 DEF Tell
<1>5. QED
  BY <1>2, <1>3, <1>4 DEF Answers

LEMMA RunTestsStep ==
    ASSUME RunTests, Answers
    PROVE  Answers'
<1>1. PICK output \in Outputs :
        Tell([kind |-> "run_tests", output |-> output],
             [says |-> "failed", summary |-> FailureSummary(output.stdout, output.stderr)])
  BY DEF RunTests
<1>2. UNCHANGED repo /\ call'.kind = "run_tests" /\ call'.output = output /\ said'.says = "failed"
  BY <1>1 DEF Tell
<1>3. QED
  BY <1>2 DEF Answers

LEMMA NextAnswers ==
    ASSUME Next, Answers
    PROVE  Answers'
<1>1. CASE ReadFile
  BY <1>1, ReadFileStep DEF Answers
<1>2. CASE ReplaceText
  BY <1>2, ReplaceTextStep DEF Answers
<1>3. CASE ReplaceLines
  BY <1>3, ReplaceLinesStep DEF Answers
<1>4. CASE SearchText
  BY <1>4, SearchStep
<1>5. CASE RunTests
  BY <1>5, RunTestsStep
<1>6. CASE Decide
  BY <1>6 DEF Decide, NoCall, Nothing, Answers
<1>7. QED
  BY <1>1, <1>2, <1>3, <1>4, <1>5, <1>6 DEF Next

\* Every observation is the answer to its call.
THEOREM ObservationsAnswer == GuidedSpec => []Answers
<1>1. GuidedInit => Answers
  BY DEF GuidedInit, Init, Answers, NoCall, Nothing
<1>2. Answers /\ [GuidedNext]_guidedVars => Answers'
  <2> SUFFICES ASSUME Answers, [GuidedNext]_guidedVars PROVE Answers'
    OBVIOUS
  <2>1. CASE Next
    BY <2>1, NextAnswers
  <2>2. CASE Explores
    BY <2>2 DEF Explores, Answers
  <2>3. CASE UNCHANGED guidedVars
    BY <2>3 DEF guidedVars, vars, Answers
  <2>4. QED
    BY <2>1, <2>2, <2>3 DEF GuidedNext
<1>3. QED
  BY <1>1, <1>2, PTL DEF GuidedSpec

\* FailedRunIsNamed: whatever the two streams hold.
THEOREM FailedRunsAreNamed == GuidedSpec => []FailedRunIsNamed
<1>1. Answers => FailedRunIsNamed
  BY OutputsAssumption, SummaryNames DEF Answers, FailedRunIsNamed
<1>2. QED
  BY <1>1, ObservationsAnswer, PTL

\* A search of either kind is a list that begins, if the query has matches, with them.
LEMMA MatchedAnswers ==
    ASSUME Answers, Found
    PROVE  /\ Listing(repo) /\ Sequence(call.query.parts) /\ Sequence(call.query.words)
           /\ Matched => said.lines = Direct(repo, call.query, call.order)
<1>1. repo \in Repositories /\ call.query \in Queries
  BY DEF Answers, Found
<1>2. ASSUME Matched PROVE said.lines = Direct(repo, call.query, call.order)
  <2>1. Direct(repo, call.query, call.order) # <<>>
    BY <1>1, <1>2, RepositoriesAssumption, DirectHolds DEF Matched
  <2>2. said.lines = Direct(repo, call.query, call.order)
    BY <2>1 DEF Answers, Found, FixtureSearch, ContainerSearch, OrElse
  <2>3. QED
    BY <2>2
<1>3. QED
  BY <1>1, <1>2, RepositoriesAssumption, QueriesAssumption

\* ImplementationIsNamed: whatever is searched, however much is found, and whatever else is
\* said of it, the candidates are there.
THEOREM ImplementationsAreNamed == GuidedSpec => []ImplementationIsNamed
<1>1. Answers => ImplementationIsNamed
  <2> DEFINE found == Collect(repo, call.query.whole)
             shown == FirstOf(found, TotalLimit)
             named == Candidates(repo, shown)
  <2> SUFFICES ASSUME Answers, Found, shown # <<>>, named # <<>>
               PROVE  Answer("candidate") # {}
    BY DEF ImplementationIsNamed
  <2>1. Listing(repo) /\ (Matched => said.lines = Direct(repo, call.query, call.order))
    BY MatchedAnswers
  <2>2. Sequence(found) /\ \A m \in ToSet(found) : IsMatch(repo, m)
    BY <2>1, CollectHolds
  <2>3. TotalLimit \in Nat /\ TotalLimit > 0
    BY SearchAssumption
  <2>4. /\ Sequence(shown) /\ ToSet(shown) \subseteq ToSet(found)
    BY <2>2, <2>3, FirstOfHolds
  <2>5. found # <<>>
    BY <2>2, <2>4, EmptyHoldsNothing
  <2>6. ToSet(named) \subseteq ToSet(said.lines)
    BY <2>1, <2>5, DirectHolds DEF Matched
  <2>7. Sequence(named) /\ \A c \in ToSet(named) : c.says = "candidate"
    BY <2>1, <2>2, <2>4, CandidatesHold
  <2> HIDE DEF named
  <2>8. PICK c \in ToSet(named) : c.says = "candidate"
    BY <2>7, EmptyHoldsNothing
  <2>9. c \in {l \in ToSet(said.lines) : l.says = "candidate"}
    BY <2>6, <2>8
  <2>10. QED
    BY <2>9 DEF Answer
<1>2. QED
  BY <1>1, ObservationsAnswer, PTL

\* BestMatchIsShown: for every budget an answer has, if a match fits into it (Fits).
THEOREM BestMatchesAreShown == GuidedSpec => []BestMatchIsShown
<1>1. Answers => BestMatchIsShown
  <2> DEFINE useful == Attempt(repo, ContainerAttempts(call.query, call.order))
  <2> SUFFICES ASSUME Answers, Found, Matched \/ call.by = "container", Searched # {}
               PROVE  \E t \in Searched : Contains(said.lines, Head(Collect(repo, t)))
    BY DEF BestMatchIsShown
  <2>1. /\ Listing(repo) /\ Sequence(call.query.parts) /\ Sequence(call.query.words)
        /\ Matched => said.lines = Direct(repo, call.query, call.order)
    BY MatchedAnswers
  <2>2. CASE Matched
    <3>1. Searched = {call.query.whole}
      BY <2>2 DEF Searched
    <3>2. Sequence(said.lines) /\ Head(Collect(repo, call.query.whole)) \in ToSet(said.lines)
      BY <2>1, <2>2, DirectHolds DEF Matched
    <3>3. Contains(said.lines, Head(Collect(repo, call.query.whole)))
      BY <3>2, ContainsIsIn
    <3>4. QED
      BY <3>1, <3>3
  <2>3. CASE ~Matched
    <3>1. said.lines = ContainerSearch(repo, call.query, call.order)
      BY <2>3 DEF Answers, Found
    <3>2. Searched = {Head(a) : a \in {useful} \ {<<>>}}
      BY <2>3 DEF Searched
    <3>3. useful # <<>> /\ Head(useful) \in Searched
      BY <3>2
    <3>4. Sequence(said.lines) /\ Head(Collect(repo, Head(useful))) \in ToSet(said.lines)
      BY <2>1, <2>3, <3>1, <3>3, ContainerSearchHolds DEF Matched
    <3>5. Contains(said.lines, Head(Collect(repo, Head(useful))))
      BY <3>4, ContainsIsIn
    <3>6. QED
      BY <3>3, <3>5
  <2>4. QED
    BY <2>2, <2>3
<1>2. QED
  BY <1>1, ObservationsAnswer, PTL

----------------------------------------------------------------------------
(* What a stalled policy is sent on to                                     *)

\* The files of a list of lines.
LEMMA FilesHold ==
    ASSUME NEW s, Sequence(s), NEW t, t = [k \in DOMAIN s |-> s[k].file]
    PROVE  Sequence(t) /\ ToSet(t) = {line.file : line \in ToSet(s)}
<1>1. Len(s) \in Nat /\ DOMAIN s = 1 .. Len(s)
  BY ListFacts
<1>2. t = [k \in 1 .. Len(s) |-> t[k]] /\ \A k \in 1 .. Len(s) : t[k] = s[k].file
  BY <1>1
<1>3. Sequence(t) /\ DOMAIN t = 1 .. Len(s)
  BY <1>1, <1>2, FunctionList
<1>4. QED
  BY <1>1, <1>2, <1>3 DEF ToSet

\* A match whose file the patterns take.
Legible(tree, m) ==
    /\ m.says = "match" /\ m.line \in Nat
    /\ (IF m.line = 0 THEN "path" ELSE "match") \in tree[m.file].shows

\* The names of an answer have the file of every such match of it.
NamesAll(tree, lines, names) == \A m \in ToSet(lines) : Legible(tree, m) => m.file \in ToSet(names)

LEMMA EvidenceHolds ==
    ASSUME NEW lines, Sequence(lines)
    PROVE  Sequence(Evidence(lines)) /\ NamesAll(repo, lines, Evidence(lines))
<1> DEFINE P == {i \in DOMAIN lines : /\ \/ lines[i].says = "candidate"
                                         \/ lines[i].says = "match" /\ lines[i].line = 0
                                      /\ IsShown(lines[i], "path")}
           Q == {i \in DOMAIN lines : /\ lines[i].says = "match" /\ lines[i].line > 0
                                      /\ IsShown(lines[i], "match")}
           paths   == At(lines, P)
           matches == At(lines, Q)
           a == [k \in DOMAIN paths |-> paths[k].file]
           b == [k \in DOMAIN matches |-> matches[k].file]
<1>1. Evidence(lines) = a \o b
  BY DEF Evidence, Having
<1>2. P \in SUBSET (DOMAIN lines) /\ Q \in SUBSET (DOMAIN lines)
  OBVIOUS
<1>3. \A i \in DOMAIN lines : Legible(repo, lines[i]) => i \in P \/ i \in Q
  BY DEF Legible, IsShown
<1> HIDE DEF P, Q
<1>4. /\ Sequence(paths) /\ ToSet(paths) = {lines[i] : i \in P}
      /\ Sequence(matches) /\ ToSet(matches) = {lines[i] : i \in Q}
  BY <1>2, AtHolds
<1> HIDE DEF paths, matches
<1>5. /\ Sequence(a) /\ ToSet(a) = {line.file : line \in ToSet(paths)}
      /\ Sequence(b) /\ ToSet(b) = {line.file : line \in ToSet(matches)}
  BY <1>4, FilesHold
<1> HIDE DEF a, b
<1>6. Sequence(Evidence(lines)) /\ ToSet(Evidence(lines)) = ToSet(a) \cup ToSet(b)
  BY <1>1, <1>5, ConcatHolds
<1>7. ASSUME NEW m \in ToSet(lines), Legible(repo, m)
      PROVE  m.file \in ToSet(Evidence(lines))
  <2>1. PICK i \in DOMAIN lines : m = lines[i]
    BY DEF ToSet
  <2>2. m \in ToSet(paths) \/ m \in ToSet(matches)
    BY <1>3, <1>4, <1>7, <2>1
  <2>3. QED
    BY <1>5, <1>6, <2>2
<1>8. QED
  BY <1>6, <1>7 DEF NamesAll

\* A record of a search has the files of its answer.
RecordOf(r, tree) ==
    /\ Sequence(r.names)
    /\ r.action.kind = "search_text" /\ ~IsError(r) =>
          /\ r.action.query \in Queries
          /\ \E order \in Orders : NamesAll(tree, ContainerSearch(tree, r.action.query, order), r.names)

Remembered == Sequence(records) /\ \A k \in DOMAIN records : RecordOf(records[k], repo)

\* The files that were read.
LEMMA ReadFilesAreList ==
    ASSUME Sequence(records)
    PROVE  Sequence(ReadFiles)
<1> DEFINE P     == {i \in DOMAIN records : records[i].action.kind = "read_file"}
           reads == At(records, P)
           files == [k \in DOMAIN reads |-> reads[k].action.file]
<1>1. ReadFiles = Distinct(files)
  BY DEF ReadFiles, Mapped, Recorded, Having
<1>2. P \in SUBSET (DOMAIN records)
  OBVIOUS
<1> HIDE DEF P
<1>3. Sequence(reads)
  BY <1>2, AtHolds
<1> HIDE DEF reads
<1>4. Len(reads) \in Nat /\ DOMAIN reads = 1 .. Len(reads)
  BY <1>3, ListFacts
<1>5. files = [k \in 1 .. Len(reads) |-> files[k]]
  BY <1>4
<1> HIDE DEF files
<1>6. Sequence(files)
  BY <1>4, <1>5, FunctionList
<1>7. QED
  BY <1>1, <1>6, DistinctHolds

\* The files that results named, that can be edited and were not read.
LEMMA UnreadHolds ==
    ASSUME Remembered
    PROVE  /\ Sequence(UnreadEvidence)
           /\ \A k \in DOMAIN records : \A f \in ToSet(records[k].names) :
                 f \in ToSet(ReadFiles) \/ IsReadOnly(f) \/ f \in ToSet(UnreadEvidence)
<1> DEFINE names == [k \in DOMAIN records |-> records[k].names]
           all   == Distinct(FlattenSeq(names))
           P     == {i \in DOMAIN all : ~Contains(ReadFiles, all[i]) /\ ~IsReadOnly(all[i])}
<1>1. UnreadEvidence = At(all, P)
  BY DEF UnreadEvidence, Mapped, Having
<1>2. P \in SUBSET (DOMAIN all)
  OBVIOUS
<1>3. \A i \in DOMAIN all : Contains(ReadFiles, all[i]) \/ IsReadOnly(all[i]) \/ i \in P
  OBVIOUS
<1> HIDE DEF P
<1>4. Sequence(records) /\ Len(records) \in Nat /\ DOMAIN records = 1 .. Len(records)
  BY ListFacts DEF Remembered
<1>5. names = [k \in 1 .. Len(records) |-> names[k]] /\ \A k \in 1 .. Len(records) : Sequence(names[k])
  BY <1>4 DEF Remembered, RecordOf
<1>6. \A k \in DOMAIN records : names[k] = records[k].names
  OBVIOUS
<1> HIDE DEF names
<1>7. /\ Sequence(FlattenSeq(names))
      /\ ToSet(FlattenSeq(names)) = UNION {ToSet(names[k]) : k \in 1 .. Len(records)}
  BY <1>4, <1>5, FlattenHolds
<1>8. /\ Sequence(all) /\ ToSet(all) = ToSet(FlattenSeq(names))
  BY <1>7, DistinctHolds
<1> HIDE DEF all
<1>9. Sequence(UnreadEvidence) /\ ToSet(UnreadEvidence) = {all[i] : i \in P}
  BY <1>1, <1>2, <1>8, AtHolds
<1>10. ASSUME NEW k \in DOMAIN records, NEW f \in ToSet(records[k].names)
       PROVE  f \in ToSet(ReadFiles) \/ IsReadOnly(f) \/ f \in ToSet(UnreadEvidence)
  <2>1. f \in ToSet(all)
    BY <1>4, <1>6, <1>7, <1>8
  <2>2. PICK i \in DOMAIN all : f = all[i]
    BY <2>1 DEF ToSet
  <2>3. Contains(ReadFiles, f) <=> f \in ToSet(ReadFiles)
    BY <1>4, ReadFilesAreList, ContainsIsIn
  <2>4. QED
    BY <1>3, <1>9, <2>2, <2>3
<1>11. QED
  BY <1>9, <1>10

\* What the directive is to name.
ToName(best) == repo[best.file].rank = 0 /\ Legible(repo, best)

Names(d, file) ==
    \/ Contains(d.read \o d.unread, file)
    \/ Len(d.read) = NamedReads
    \/ Len(d.unread) = NamedUnread

\* The directive of what is remembered, of one search.
LEMMA DirectiveNames ==
    ASSUME Remembered, Listing(repo), NEW k \in DOMAIN records,
           records[k].action.kind = "search_text", ~IsError(records[k]),
           Collect(repo, records[k].action.query.whole) # <<>>,
           ToName(Head(Collect(repo, records[k].action.query.whole)))
    PROVE  Names(RecoveryDirective, Head(Collect(repo, records[k].action.query.whole)).file)
<1> DEFINE query == records[k].action.query
           found == Collect(repo, query.whole)
           best  == Head(found)
           P        == {i \in DOMAIN ReadFiles : ~IsReadOnly(ReadFiles[i])}
           editable == At(ReadFiles, P)
           read     == FirstOf(editable, NamedReads)
           unread   == FirstOf(UnreadEvidence, NamedUnread)
<1>1. best.file \in ToSet(records[k].names)
  <2>1. RecordOf(records[k], repo)
    BY DEF Remembered
  <2>2. query \in Queries
    BY <2>1 DEF RecordOf
  <2>3. PICK order \in Orders :
            NamesAll(repo, ContainerSearch(repo, query, order), records[k].names)
    BY <2>1 DEF RecordOf
  <2>4. Sequence(query.parts) /\ Sequence(query.words)
    BY <2>2, QueriesAssumption
  <2>5. best \in ToSet(found)
    <3>1. Sequence(found)
      BY CollectHolds
    <3> HIDE DEF found
    <3>2. QED
      BY <3>1, EndsAreIn DEF found
  <2> DEFINE lines == ContainerSearch(repo, query, order)
  <2>6. best \in ToSet(lines)
    BY <2>4, ContainerSearchHolds
  <2>7. Legible(repo, best)
    BY DEF ToName
  <2> HIDE DEF lines, best
  <2>8. QED
    BY <2>3, <2>6, <2>7 DEF NamesAll, lines
<1>2. ~IsReadOnly(best.file)
  BY DEF IsReadOnly, ToName
<1> HIDE DEF query, found, best
<1>3. best.file \in ToSet(ReadFiles) \/ best.file \in ToSet(UnreadEvidence)
  BY <1>1, <1>2, UnreadHolds
<1>4. P \in SUBSET (DOMAIN ReadFiles) /\ \A i \in DOMAIN ReadFiles : IsReadOnly(ReadFiles[i]) \/ i \in P
  OBVIOUS
<1>5. RecoveryDirective.read = read /\ RecoveryDirective.unread = unread
  <2>1. Having(ReadFiles, LAMBDA f : ~IsReadOnly(f)) = editable
    BY DEF Having
  <2> HIDE DEF P, editable
  <2>2. QED
    BY <2>1 DEF RecoveryDirective
<1> HIDE DEF P
<1>6. Sequence(ReadFiles) /\ Sequence(UnreadEvidence)
  BY ReadFilesAreList, UnreadHolds DEF Remembered
<1>7. Sequence(editable) /\ ToSet(editable) = {ReadFiles[i] : i \in P}
  BY <1>4, <1>6, AtHolds
<1> HIDE DEF editable
<1>8. NamedReads \in Nat /\ NamedUnread \in Nat
  BY GuidanceAssumption
<1>9. /\ Sequence(read) /\ (read = editable \/ Len(read) = NamedReads)
      /\ Sequence(unread) /\ (unread = UnreadEvidence \/ Len(unread) = NamedUnread)
  BY <1>6, <1>7, <1>8, FirstOfHolds
<1> HIDE DEF read, unread
<1>10. SUFFICES ASSUME Len(read) # NamedReads, Len(unread) # NamedUnread
                PROVE  Contains(read \o unread, best.file)
  BY <1>5 DEF Names, best, found, query
<1>11. best.file \in ToSet(ReadFiles) => best.file \in ToSet(read)
  <2>1. SUFFICES ASSUME best.file \in ToSet(ReadFiles) PROVE best.file \in ToSet(editable)
    BY <1>9, <1>10
  <2>2. PICK i \in DOMAIN ReadFiles : best.file = ReadFiles[i]
    BY <2>1 DEF ToSet
  <2>3. i \in P
    BY <1>2, <1>4, <2>2
  <2>4. QED
    BY <1>7, <2>2, <2>3
<1>12. best.file \in ToSet(read) \cup ToSet(unread)
  BY <1>3, <1>9, <1>10, <1>11
<1>13. QED
  BY <1>9, <1>12, ConcatHolds, ContainsIsIn

\* A directive tells what is remembered, and nothing is forgotten.
Guided ==
    /\ Answers
    /\ Remembered
    /\ StalledPolicyIsSentOn

LEMMA Listed ==
    ASSUME Answers
    PROVE  Listing(repo)
<1>1. Listing(<<>>)
  BY SmallLists DEF Listing
<1>2. QED
  BY <1>1, RepositoriesAssumption DEF Answers

\* One more record.
LEMMA RecordStep ==
    ASSUME Remembered, UNCHANGED repo, NEW action, NEW says, NEW names,
           Record(action, says, names),
           RecordOf([action |-> action, says |-> says, names |-> names], repo)
    PROVE  /\ Remembered'
           /\ DOMAIN records' = 1 .. Len(records) + 1 /\ DOMAIN records = 1 .. Len(records)
           /\ Len(records) \in Nat
           /\ \A k \in DOMAIN records : records'[k] = records[k]
           /\ records'[Len(records) + 1] = [action |-> action, says |-> says, names |-> names]
<1> DEFINE r == [action |-> action, says |-> says, names |-> names]
           n == Len(records)
           S == Range(records) \cup {r}
<1>1. records \in Seq(Range(records)) /\ n \in Nat /\ DOMAIN records = 1 .. n
  BY ListFacts DEF Remembered, Sequence
<1>2. records' = Append(records, r) /\ RecordOf(r, repo)
  BY DEF Record
<1> HIDE DEF r
<1>3. Range(records) \subseteq S /\ r \in S
  OBVIOUS
<1> HIDE DEF S
<1>4. records \in Seq(S)
  BY <1>1, <1>3, SeqMonotonic
<1>5. /\ records' \in Seq(S) /\ Len(records') = n + 1 /\ records'[n + 1] = r
      /\ \A k \in 1 .. n : records'[k] = records[k]
  BY <1>1, <1>2, <1>3, <1>4
<1>6. Sequence(records') /\ DOMAIN records' = 1 .. n + 1
  BY <1>5, SequenceOf
<1>7. \A k \in 1 .. n + 1 : k \in 1 .. n \/ k = n + 1
  BY <1>1
<1>8. \A k \in DOMAIN records' : RecordOf(records'[k], repo)
  BY <1>1, <1>2, <1>5, <1>6, <1>7 DEF Remembered
<1>9. Remembered'
  BY <1>6, <1>8 DEF Remembered
<1>10. QED
  BY <1>1, <1>5, <1>6, <1>9 DEF r

\* A record that finds nothing, of an error or of another action.
LEMMA NothingRecorded ==
    ASSUME NEW action, NEW says, action.kind # "search_text" \/ says = "error", NEW tree
    PROVE  RecordOf([action |-> action, says |-> says, names |-> <<>>], tree)
<1> DEFINE r == [action |-> action, says |-> says, names |-> <<>>]
<1>1. r.action = action /\ r.says = says /\ r.names = <<>>
  OBVIOUS
<1> HIDE DEF r
<1>2. RecordOf(r, tree)
  BY <1>1, SmallLists DEF RecordOf, IsError
<1>3. QED
  BY <1>2 DEF r

\* What is not a directive leaves nothing to show.
LEMMA OtherwiseSaid ==
    ASSUME said'.says # "directive"
    PROVE  StalledPolicyIsSentOn'
BY DEF StalledPolicyIsSentOn

LEMMA RefuseStep ==
    ASSUME Guided, UNCHANGED repo, NEW action, Refuse(action)
    PROVE  Remembered' /\ StalledPolicyIsSentOn'
<1> DEFINE n == Len(records)
           r == [action |-> action, says |-> "error", names |-> <<>>]
<1>1. Remembered /\ Listing(repo)
  BY Listed DEF Guided
<1>2. Record(action, "error", <<>>) /\ RecordOf(r, repo)
  BY NothingRecorded DEF Refuse
<1>3. /\ Remembered' /\ DOMAIN records' = 1 .. n + 1 /\ DOMAIN records = 1 .. n /\ n \in Nat
      /\ \A k \in DOMAIN records : records'[k] = records[k]
      /\ records'[n + 1] = r
  BY <1>1, <1>2, RecordStep
<1>4. IsError(r)
  BY DEF IsError
<1>5. said' = IF refusals > 0 THEN RecoveryDirective ELSE [says |-> "refused"]
  BY DEF Refuse
<1> HIDE DEF n, r
<1>6. CASE said' = [says |-> "refused"]
  <2>1. said'.says # "directive"
    BY <1>6
  <2>2. QED
    BY <1>3, <2>1, OtherwiseSaid
<1>7. CASE said' = RecoveryDirective
  <2> DEFINE query(k) == records'[k].action.query
             found(k) == Collect(repo, query(k).whole)
  <2>1. ASSUME NEW k \in DOMAIN records',
               records'[k].action.kind = "search_text", ~IsError(records'[k]),
               found(k) # <<>>, ToName(Head(found(k)))
        PROVE  Names(said', Head(found(k)).file)
    <3>1. k \in DOMAIN records
      BY <1>3, <1>4, <2>1
    <3>2. records'[k] = records[k]
      BY <1>3, <3>1
    <3>3. QED
      BY <1>1, <1>7, <2>1, <3>1, <3>2, DirectiveNames
  <2>2. repo' = repo
    OBVIOUS
  <2>3. ASSUME NEW best \in BestMatches', ToName(best)
        PROVE  Names(said', best.file)
    <3>1. PICK k \in DOMAIN records' :
              /\ records'[k].action.kind = "search_text" /\ ~IsError(records'[k])
              /\ found(k) # <<>> /\ best = Head(found(k))
      BY <2>2, <2>3 DEF BestMatches, IsError
    <3>2. QED
      BY <2>1, <2>3, <3>1
  <2>4. ASSUME NEW best \in BestMatches', repo[best.file].rank = 0,
               IsShown(best, IF best.line = 0 THEN "path" ELSE "match")
        PROVE  Names(said', best.file)
    <3>1. best.says = "match" /\ best.line \in Nat
      <4>1. PICK k \in DOMAIN records' : found(k) # <<>> /\ best = Head(found(k))
        BY <2>2, <2>4 DEF BestMatches
      <4>2. Sequence(found(k)) /\ \A m \in ToSet(found(k)) : IsMatch(repo, m)
        BY <1>1, CollectHolds
      <4>3. PICK all : all = found(k)
        OBVIOUS
      <4>4. best \in ToSet(all) /\ \A m \in ToSet(all) : IsMatch(repo, m)
        BY <4>1, <4>2, <4>3, EndsAreIn
      <4>5. QED
        BY <4>4 DEF IsMatch
    <3>2. Legible(repo, best)
      BY <2>4, <3>1 DEF Legible, IsShown
    <3>3. QED
      BY <2>3, <2>4, <3>2 DEF ToName
  <2>5. StalledPolicyIsSentOn'
    BY <2>2, <2>4 DEF StalledPolicyIsSentOn, SentOnTo, Names, IsShown
  <2>6. QED
    BY <1>3, <2>5
<1>8. QED
  BY <1>5, <1>6, <1>7

LEMMA AnsweredStep ==
    ASSUME Guided, UNCHANGED repo, NEW action, NEW says, NEW names, NEW observation,
           Answered(action, says, names, observation), observation.says # "directive",
           RecordOf([action |-> action, says |-> says, names |-> names], repo)
    PROVE  Remembered' /\ StalledPolicyIsSentOn'
<1>1. Remembered /\ Record(action, says, names) /\ said' = observation
  BY DEF Guided, Answered
<1>2. Remembered'
  BY <1>1, RecordStep
<1>3. StalledPolicyIsSentOn'
  BY <1>1, OtherwiseSaid
<1>4. QED
  BY <1>2, <1>3

\* An answer to anything but a search.
LEMMA OtherAnswer ==
    ASSUME Guided, UNCHANGED repo, NEW action, action.kind # "search_text", NEW says,
           NEW told, told # "directive", Answered(action, says, <<>>, [says |-> told])
    PROVE  Remembered' /\ StalledPolicyIsSentOn'
<1>1. RecordOf([action |-> action, says |-> says, names |-> <<>>], repo)
  BY NothingRecorded
<1> DEFINE observation == [says |-> told]
           none        == <<>>
<1>2. observation.says # "directive"
  OBVIOUS
<1> HIDE DEF observation, none
<1>3. Answered(action, says, none, observation)
  BY DEF observation, none
<1>4. RecordOf([action |-> action, says |-> says, names |-> none], repo)
  BY <1>1 DEF none
<1>5. QED
  BY <1>2, <1>3, <1>4, AnsweredStep

LEMMA ActStep ==
    ASSUME Guided, UNCHANGED repo, NEW action \in GuidedActions, Act(action)
    PROVE  Remembered' /\ StalledPolicyIsSentOn'
<1>1. CASE Refuse(action)
  BY <1>1, RefuseStep
<1>2. ASSUME action.kind = "search_text", NEW order \in Orders,
             NEW suggested \in Suggested(ContainerSearch(repo, action.query, order)),
             LET lines == ContainerSearch(repo, action.query, order)
             IN  Answered(action, "answer", suggested \o Evidence(lines),
                          [says |-> "found", lines |-> lines])
      PROVE  Remembered' /\ StalledPolicyIsSentOn'
  <2> DEFINE lines == ContainerSearch(repo, action.query, order)
             told  == [says |-> "found", lines |-> lines]
             names == suggested \o Evidence(lines)
             r     == [action |-> action, says |-> "answer", names |-> names]
  <2>1. action.query \in Queries
    BY <1>2, GuidanceAssumption DEF GuidedActions
  <2>2. Listing(repo) /\ Sequence(action.query.parts) /\ Sequence(action.query.words)
    BY <2>1, Listed, QueriesAssumption DEF Guided
  <2>3. Sequence(lines)
    BY <2>2, ContainerSearchHolds
  <2>4. lines = ContainerSearch(repo, action.query, order)
    OBVIOUS
  <2>5. told.says # "directive" /\ Answered(action, "answer", names, told)
    BY <1>2
  <2>6. Sequence(suggested)
    BY SmallLists DEF Suggested
  <2> HIDE DEF lines, told
  <2>7. Sequence(names) /\ NamesAll(repo, lines, names)
    <3>1. Sequence(Evidence(lines)) /\ NamesAll(repo, lines, Evidence(lines))
      BY <2>3, EvidenceHolds
    <3>2. Sequence(names) /\ ToSet(names) = ToSet(suggested) \cup ToSet(Evidence(lines))
      BY <2>6, <3>1, ConcatHolds
    <3> HIDE DEF names
    <3>3. QED
      BY <3>1, <3>2 DEF NamesAll
  <2> HIDE DEF names
  <2>8. r.action = action /\ r.names = names
    OBVIOUS
  <2> HIDE DEF r
  <2>9. RecordOf(r, repo)
    BY <2>1, <2>4, <2>7, <2>8 DEF RecordOf
  <2>10. QED
    BY <2>5, <2>9, AnsweredStep DEF r
<1>3. CASE action.kind = "read_file" /\ Answered(action, "answer", <<>>, [says |-> "content"])
  BY <1>3, OtherAnswer
<1>4. CASE action.kind = "replace_text" /\ Answered(action, "updated", <<>>, [says |-> "updated"])
  BY <1>4, OtherAnswer
<1>5. CASE action.kind = "list_files" /\ Answered(action, "answer", <<>>, [says |-> "files"])
  BY <1>5, OtherAnswer
<1>6. CASE ToolError(action)
  <2>1. Remembered /\ Record(action, "error", <<>>) /\ said'.says # "directive"
    BY <1>6 DEF ToolError, Guided
  <2>2. Remembered'
    BY <2>1, NothingRecorded, RecordStep
  <2>3. QED
    BY <2>1, <2>2, OtherwiseSaid
<1>7. QED
  BY <1>1, <1>2, <1>3, <1>4, <1>5, <1>6 DEF Act

\* Before the first record.
LEMMA NothingSearched ==
    ASSUME records = <<>>
    PROVE  Remembered /\ StalledPolicyIsSentOn
<1>1. Remembered
  BY SmallLists DEF Remembered
<1>2. BestMatches = {}
  BY SmallLists DEF BestMatches
<1>3. QED
  BY <1>1, <1>2 DEF StalledPolicyIsSentOn

\* StalledPolicyIsSentOn: however long the episode is and whatever repository it explores.
THEOREM StalledPoliciesAreSentOn == GuidedSpec => []StalledPolicyIsSentOn
<1>1. GuidedInit => Guided
  <2> SUFFICES ASSUME GuidedInit PROVE Guided
    OBVIOUS
  <2>1. Answers /\ records = <<>>
    BY DEF GuidedInit, Init, Answers, NoCall, Nothing
  <2>2. Remembered /\ StalledPolicyIsSentOn
    BY <2>1, NothingSearched
  <2>3. QED
    BY <2>1, <2>2 DEF Guided
<1>2. Guided /\ [GuidedNext]_guidedVars => Guided'
  <2> SUFFICES ASSUME Guided, [GuidedNext]_guidedVars PROVE Guided'
    OBVIOUS
  <2>1. CASE records = <<>> /\ Next /\ UNCHANGED guard
    <3>1. Answers' /\ records' = <<>>
      BY <2>1, NextAnswers DEF Guided, guard
    <3>2. Remembered' /\ StalledPolicyIsSentOn'
      <4>1. Remembered'
        BY <3>1, SmallLists DEF Remembered
      <4>2. BestMatches' = {}
        BY <3>1, SmallLists DEF BestMatches
      <4>3. QED
        BY <4>1, <4>2 DEF StalledPolicyIsSentOn
    <3>3. QED
      BY <3>1, <3>2 DEF Guided
  <2>2. CASE Explores
    <3>1. PICK action \in GuidedActions : Act(action)
      BY <2>2 DEF Explores
    <3>2. UNCHANGED repo /\ repo \in Explored /\ call'.kind = "guided"
      BY <2>2 DEF Explores
    <3>3. Answers'
      BY <3>2 DEF Guided, Answers
    <3>4. Remembered' /\ StalledPolicyIsSentOn'
      BY <3>1, <3>2, ActStep
    <3>5. QED
      BY <3>2, <3>3, <3>4 DEF Guided
  <2>3. CASE UNCHANGED guidedVars
    BY <2>3 DEF guidedVars, vars, Guided, Answers, Remembered, RecordOf, IsError,
                StalledPolicyIsSentOn, BestMatches, SentOnTo, IsShown
  <2>4. QED
    BY <2>1, <2>2, <2>3 DEF GuidedNext
<1>3. Guided => StalledPolicyIsSentOn
  BY DEF Guided
<1>4. QED
  BY <1>1, <1>2, <1>3, PTL DEF GuidedSpec


----------------------------------------------------------------------------
(* What an edit does to the file, and what is said of one that is refused  *)

\* The file stays a text, ranges change alone, and a quote is right.
Edited == AsRead(content) /\ OnlyTheRangeChanges /\ MismatchAdviceIsRight

\* The first match is a match.
LEMMA FirstPositionHolds ==
    ASSUME NEW c, Sequence(c), NEW old, Sequence(old), Count(c, old) # 0
    PROVE  \E x \in Nat : FirstPosition(c, old) = x + 1 /\ x + Len(old) <= Len(c)
<1> DEFINE P == Positions(c, old)
           i == FirstPosition(c, old)
<1>1. Len(c) \in Nat /\ Len(old) \in Nat
  BY ListFacts
<1>2. P \in SUBSET Nat /\ \A j \in P : 1 <= j /\ j <= (Len(c) + 1) - Len(old)
  BY <1>1 DEF Positions
<1>3. P # {}
  BY CountHolds
<1>4. \E n \in P : \A m \in P : n <= m
  BY <1>2, <1>3, LeastNatural
<1>5. i \in P
  BY <1>4 DEF FirstPosition
<1> HIDE DEF i, P
<1>6. i \in Nat /\ 1 <= i /\ i <= (Len(c) + 1) - Len(old)
  BY <1>2, <1>5
<1>7. i - 1 \in Nat /\ i = (i - 1) + 1 /\ (i - 1) + Len(old) <= Len(c)
  BY <1>1, <1>6
<1>8. QED
  BY <1>7 DEF i

\* What replace_text writes is a text.
LEMMA WithTextHolds ==
    ASSUME NEW c, Sequence(c), NEW old, Sequence(old), NEW new, Sequence(new), Count(c, old) # 0
    PROVE  Sequence(WithText(c, old, new))
<1> DEFINE i    == FirstPosition(c, old)
           head == SubSeq(c, 1, i - 1)
           tail == SubSeq(c, i + Len(old), Len(c))
<1>1. PICK x \in Nat : i = x + 1 /\ x + Len(old) <= Len(c)
  BY FirstPositionHolds
<1>2. Len(c) \in Nat /\ Len(old) \in Nat
  BY ListFacts
<1>3. PICK y \in Nat : y = x + Len(old)
  BY <1>2
<1>4. head = Slice(c, 0, x)
  <2>1. i - 1 = x /\ 0 + 1 = 1
    BY <1>1
  <2> HIDE DEF i
  <2>2. QED
    BY <2>1 DEF Slice
<1>5. tail = Slice(c, y, Len(c))
  <2>1. i + Len(old) = y + 1
    BY <1>1, <1>2, <1>3
  <2> HIDE DEF i
  <2>2. QED
    BY <2>1 DEF Slice
<1>6. 0 \in Nat /\ 0 <= x /\ x <= Len(c) /\ y <= Len(c) /\ Len(c) <= Len(c)
  BY <1>1, <1>2, <1>3
<1>7. Sequence(Slice(c, 0, x)) /\ Sequence(Slice(c, y, Len(c)))
  BY <1>2, <1>6, SliceList
<1>8. WithText(c, old, new) = head \o new \o tail
  BY DEF WithText
<1> HIDE DEF head, tail
<1>9. Sequence(head \o new)
  BY <1>4, <1>7, ConcatAt
<1>10. Sequence(head \o new \o tail)
  BY <1>5, <1>7, <1>9, ConcatAt
<1>11. QED
  BY <1>8, <1>10

\* Neither property is about another call.
LEMMA OtherCall ==
    ASSUME call'.kind # "replace_lines", said'.says # "whitespace"
    PROVE  OnlyTheRangeChanges' /\ MismatchAdviceIsRight'
BY DEF OnlyTheRangeChanges, MismatchAdviceIsRight

\* Either an edit is written, or the file is left and the reason is no mismatch.
LEMMA WriteDoes ==
    ASSUME NEW c, NEW updated, NEW span, Write(c, updated, span)
    PROVE  /\ said'.says # "whitespace"
           /\ \/ content' = content /\ said'.says # "updated"
              \/ content' = ReadBack(updated) /\ call' = [c EXCEPT !.before = content]
BY DEF Write, Tell, Unparseable

LEMMA TextReplaced ==
    ASSUME Edited, ReplaceText
    PROVE  Edited'
<1>1. PICK old \in Olds, new \in News :
        LET c == [kind |-> "replace_text", old |-> old, new |-> new, before |-> content] IN
          /\ old # new
          /\ IF Count(content, old) = 1
             THEN Write(c, WithText(content, old, new), ReplacedSpan(content, old))
             ELSE Tell(c, Mismatch(content, old))
  BY DEF ReplaceText
<1> DEFINE c == [kind |-> "replace_text", old |-> old, new |-> new, before |-> content]
<1>2. c.kind = "replace_text" /\ c.old = old
  OBVIOUS
<1> HIDE DEF c
<1>3. AsRead(content) /\ Sequence(content) /\ Sequence(old) /\ Sequence(new)
  BY EditsAssumption DEF Edited, AsRead
<1>4. call'.kind # "replace_lines"
  BY ReplaceTextStep
<1>5. CASE Count(content, old) = 1 /\ Write(c, WithText(content, old, new), ReplacedSpan(content, old))
  <2>1. Sequence(WithText(content, old, new))
    BY <1>3, <1>5, WithTextHolds
  <2>2. /\ said'.says # "whitespace"
        /\ content' = content \/ content' = ReadBack(WithText(content, old, new))
    BY <1>5, WriteDoes
  <2>3. AsRead(content')
    BY <1>3, <2>1, <2>2, ReadBackHolds
  <2>4. QED
    BY <1>4, <2>2, <2>3, OtherCall DEF Edited, AsRead
<1>6. CASE Count(content, old) # 1 /\ Tell(c, Mismatch(content, old))
  <2>1. call' = c /\ said' = Mismatch(content, old) /\ content' = content
    BY <1>6 DEF Tell
  <2>2. CASE said'.says # "whitespace"
    BY <1>3, <1>4, <2>1, <2>2, OtherCall DEF Edited
  <2>3. CASE said'.says = "whitespace"
    <3>1. /\ Len(said'.exact) <= MaxQuote =>
                said'.shown # old /\ Count(content, said'.shown) = 1
          /\ (\A i \in DOMAIN content : content[i] # "ff") =>
                Placed(content, said'.exact, said'.lines)
      BY <1>3, <1>6, <2>1, <2>3, AdviceHolds
    <3>2. call'.old = old
      BY <1>2, <2>1
    <3>3. MismatchAdviceIsRight'
      BY <2>1, <3>1, <3>2 DEF MismatchAdviceIsRight, Placed, Pure
    <3>4. OnlyTheRangeChanges'
      BY <1>4 DEF OnlyTheRangeChanges
    <3>5. QED
      BY <1>3, <2>1, <3>3, <3>4 DEF Edited
  <2>4. QED
    BY <2>2, <2>3
<1>7. QED
  BY <1>1, <1>5, <1>6 DEF c


\* The lines around the range, in the words of OnlyTheRangeChanges.
LEMMA RangeSaid ==
    ASSUME NEW lc, Sequence(lc), NEW ld, Sequence(ld), NEW first \in Nat, NEW last \in Nat,
           1 <= first, first <= last, last <= Len(lc),
           Slice(ld, 0, first - 1) = Slice(lc, 0, first - 1),
           Len(lc) - last + (first - 1) <= Len(ld),
           Slice(ld, Len(ld) - (Len(lc) - last), Len(ld)) = Slice(lc, last, Len(lc))
    PROVE  LET tail == Len(lc) - last
           IN  /\ SubSeq(ld, 1, first - 1) = SubSeq(lc, 1, first - 1)
               /\ Len(ld) >= first - 1 + tail
               /\ SubSeq(ld, Len(ld) - tail + 1, Len(ld)) = SubSeq(lc, last + 1, Len(lc))
<1> DEFINE m == Len(lc)
           n == Len(ld)
<1>1. m \in Nat /\ n \in Nat
  BY ListFacts
<1>2. SubSeq(ld, 1, first - 1) = SubSeq(lc, 1, first - 1)
  <2>1. 0 + 1 = 1
    OBVIOUS
  <2>2. SubSeq(ld, 0 + 1, first - 1) = SubSeq(lc, 0 + 1, first - 1)
    BY Zenon DEF Slice
  <2>3. QED
    BY <2>1, <2>2
<1>3. SubSeq(ld, n - (m - last) + 1, n) = SubSeq(lc, last + 1, m)
  BY Zenon DEF Slice
<1> HIDE DEF m, n
<1>4. m - last + (first - 1) <= n
  BY DEF m, n
<1>5. n >= first - 1 + (m - last)
  BY <1>1, <1>4
<1>6. QED
  BY <1>2, <1>3, <1>5 DEF m, n

LEMMA LinesReplaced ==
    ASSUME Edited, ReplaceLines
    PROVE  Edited'
<1>1. PICK span \in Ranges, new \in News :
        LET c == [kind |-> "replace_lines", span |-> span, new |-> new, before |-> content] IN
          IF span.last > Len(SplitLines(content))
          THEN Tell(c, [says |-> "too far"])
          ELSE IF WithLines(content, span, new) = content
          THEN Tell(c, [says |-> "identical"])
          ELSE Write(c, WithLines(content, span, new), span)
  BY DEF ReplaceLines
<1> DEFINE c == [kind |-> "replace_lines", span |-> span, new |-> new, before |-> content]
           changed == [c EXCEPT !.before = content]
           updated == WithLines(content, span, new)
           read    == ReadBack(updated)
<1>2. /\ changed.kind = "replace_lines" /\ changed.span = span /\ changed.before = content
      /\ changed.new = new
  OBVIOUS
<1> HIDE DEF c
<1>3. /\ AsRead(content) /\ Sequence(content) /\ Sequence(new)
      /\ span.first \in Nat /\ span.last \in Nat /\ 1 <= span.first /\ span.first <= span.last
  BY EditsAssumption DEF Edited, AsRead
<1>4. ASSUME said'.says \notin {"whitespace", "updated"}, content' = content
      PROVE  Edited'
  BY <1>3, <1>4 DEF Edited, AsRead, OnlyTheRangeChanges, MismatchAdviceIsRight
<1>5. CASE Tell(c, [says |-> "too far"])
  BY <1>4, <1>5 DEF Tell
<1>6. CASE Tell(c, [says |-> "identical"])
  BY <1>4, <1>6 DEF Tell
<1>7. CASE ~(span.last > Len(SplitLines(content))) /\ Write(c, updated, span)
  <2>1. /\ said'.says # "whitespace"
        /\ \/ content' = content /\ said'.says # "updated"
           \/ content' = read /\ call' = changed
    BY <1>7, WriteDoes
  <2>2. CASE content' = content /\ said'.says # "updated"
    BY <1>4, <2>1, <2>2
  <2>3. CASE content' = read /\ call' = changed
    <3> DEFINE lc == SplitLines(content)
               ld == SplitLines(read)
               first == span.first
               last  == span.last
    <3>1. PICK oc : LinesOf(content, oc)
      BY <1>3, SplitHolds
    <3>2. Sequence(lc) /\ Len(lc) \in Nat /\ last <= Len(lc)
      BY <1>3, <1>7, <3>1 DEF LinesOf
    <3>3. /\ AsRead(read)
          /\ Last(lc[last]) # "ff" /\ ~Joins(new, lc, span) =>
                /\ Slice(ld, 0, first - 1) = Slice(lc, 0, first - 1)
                /\ Len(lc) - last + (first - 1) <= Len(ld)
                /\ Slice(ld, Len(ld) - (Len(lc) - last), Len(ld)) = Slice(lc, last, Len(lc))
      <4>1. /\ first \in Nat /\ last \in Nat /\ 1 <= first /\ first <= last
            /\ span.first = first /\ span.last = last
        BY <1>3
      <4>2. last <= Len(SplitLines(content))
        BY <3>2
      <4> HIDE DEF first, last, changed
      <4>3. QED
        BY <1>3, <4>1, <4>2, RangeReplaced
    <3>4. PICK od : LinesOf(read, od)
      BY <3>3, SplitHolds DEF AsRead
    <3>5. Sequence(ld)
      BY <3>4 DEF LinesOf
    <3> HIDE DEF lc, ld, first, last
    <3>6. ASSUME Last(lc[last]) # "ff", ~Joins(new, lc, span)
          PROVE  LET tail == Len(lc) - last
                 IN  /\ SubSeq(ld, 1, first - 1) = SubSeq(lc, 1, first - 1)
                     /\ Len(ld) >= first - 1 + tail
                     /\ SubSeq(ld, Len(ld) - tail + 1, Len(ld)) = SubSeq(lc, last + 1, Len(lc))
      <4>1. first \in Nat /\ last \in Nat /\ 1 <= first /\ first <= last
        BY <1>3 DEF first, last
      <4>2. QED
        BY <3>2, <3>3, <3>5, <3>6, <4>1, RangeSaid
    <3>10. Last(lc[last]) # "ff" /\ ~Joins(new, lc, span) => AroundAsBefore(lc, ld, span)
      BY <3>6 DEF AroundAsBefore, first, last
    <3>7. OnlyTheRangeChanges'
      <4>1. /\ content' = read /\ call'.span = span /\ call'.before = content /\ call'.new = new
        BY <1>2, <2>3
      <4> HIDE DEF read
      <4>2. QED
        BY <3>10, <4>1 DEF OnlyTheRangeChanges, lc, ld, last
    <3>8. MismatchAdviceIsRight'
      BY <2>1 DEF MismatchAdviceIsRight
    <3>9. QED
      BY <2>3, <3>3, <3>7, <3>8 DEF Edited
  <2>4. QED
    BY <2>1, <2>2, <2>3
<1>8. QED
  BY <1>1, <1>5, <1>6, <1>7 DEF c

\* A guided step edits nothing.
LEMMA ActSays ==
    ASSUME NEW action, Act(action)
    PROVE  said'.says # "whitespace"
<1>1. CASE Refuse(action)
  BY <1>1 DEF Refuse, RecoveryDirective
<1>2. CASE ToolError(action)
  BY <1>2 DEF ToolError
<1>3. ASSUME NEW says, NEW names, NEW observation, observation.says # "whitespace",
             Answered(action, says, names, observation)
      PROVE  said'.says # "whitespace"
  BY <1>3 DEF Answered
<1>4. ASSUME NEW order \in Orders,
             NEW suggested \in Suggested(ContainerSearch(repo, action.query, order)),
             LET lines == ContainerSearch(repo, action.query, order)
             IN  Answered(action, "answer", suggested \o Evidence(lines),
                          [says |-> "found", lines |-> lines])
      PROVE  said'.says # "whitespace"
  <2> DEFINE lines == ContainerSearch(repo, action.query, order)
             told  == [says |-> "found", lines |-> lines]
             names == suggested \o Evidence(lines)
  <2>1. told.says # "whitespace" /\ Answered(action, "answer", names, told)
    BY <1>4
  <2> HIDE DEF told, names
  <2>2. QED
    BY <1>3, <2>1
<1>5. CASE Answered(action, "answer", <<>>, [says |-> "content"])
  BY <1>5 DEF Answered
<1>6. CASE Answered(action, "updated", <<>>, [says |-> "updated"])
  BY <1>6 DEF Answered
<1>7. CASE Answered(action, "answer", <<>>, [says |-> "files"])
  BY <1>7 DEF Answered
<1>8. QED
  BY <1>1, <1>2, <1>4, <1>5, <1>6, <1>7 DEF Act

LEMMA EditedKept == GuidedSpec => []Edited
<1>1. GuidedInit => Edited
  <2> SUFFICES ASSUME GuidedInit PROVE Edited
    OBVIOUS
  <2>1. AsRead(content)
    BY SmallLists, EditsAssumption DEF GuidedInit, Init, AsRead
  <2>2. call.kind = "none" /\ said.says = "nothing"
    BY DEF GuidedInit, Init, NoCall, Nothing
  <2>3. QED
    BY <2>1, <2>2 DEF Edited, OnlyTheRangeChanges, MismatchAdviceIsRight
<1>2. Edited /\ [GuidedNext]_guidedVars => Edited'
  <2> SUFFICES ASSUME Edited, [GuidedNext]_guidedVars PROVE Edited'
    OBVIOUS
  <2>0. ASSUME content' = content, call'.kind # "replace_lines", said'.says # "whitespace"
        PROVE  Edited'
    BY <2>0, OtherCall DEF Edited, AsRead
  <2>1. CASE ReadFile
    <3>1. /\ content' = content /\ call'.kind = "read"
          /\ said'.says \notin {"directive", "whitespace"}
      BY <2>1, ReadFileStep
    <3>2. QED
      BY <2>0, <3>1
  <2>2. CASE ReplaceText
    BY <2>2, TextReplaced
  <2>3. CASE ReplaceLines
    BY <2>3, LinesReplaced
  <2>4. CASE SearchText
    <3>1. content' = content /\ call'.kind = "search" /\ said'.says = "found"
      BY <2>4 DEF SearchText, Tell
    <3>2. QED
      BY <2>0, <3>1
  <2>5. CASE RunTests
    <3>1. content' = content /\ call'.kind = "run_tests" /\ said'.says = "failed"
      BY <2>5 DEF RunTests, Tell
    <3>2. QED
      BY <2>0, <3>1
  <2>6. CASE Decide
    <3>1. content' = content /\ call'.kind = "none" /\ said'.says = "nothing"
      BY <2>6 DEF Decide, NoCall, Nothing
    <3>2. QED
      BY <2>0, <3>1
  <2>7. CASE Explores
    <3>1. PICK action \in GuidedActions : Act(action)
      BY <2>7 DEF Explores
    <3>2. content' = content /\ call'.kind = "guided"
      BY <2>7 DEF Explores
    <3>3. said'.says # "whitespace"
      BY <3>1, ActSays
    <3>4. QED
      BY <2>0, <3>2, <3>3
  <2>8. CASE UNCHANGED guidedVars
    BY <2>8 DEF guidedVars, vars, Edited, AsRead, OnlyTheRangeChanges, MismatchAdviceIsRight, Pure
  <2>9. QED
    BY <2>1, <2>2, <2>3, <2>4, <2>5, <2>6, <2>7, <2>8 DEF GuidedNext, Next
<1>3. QED
  BY <1>1, <1>2, PTL DEF GuidedSpec

\* OnlyTheRangeChanges: replace_lines leaves the lines around its range as they are and adds
\* or loses none of them in the file as it is read afterwards, whatever the file, the range
\* and the replacement, unless the last line of the range ends at a form feed or a
\* replacement that ends in a carriage return joins an empty line.
THEOREM RangesAloneChange == GuidedSpec => []OnlyTheRangeChanges
<1>1. Edited => OnlyTheRangeChanges
  BY DEF Edited
<1>2. QED
  BY <1>1, EditedKept, PTL

\* MismatchAdviceIsRight: of a replace_text that misses by white space alone, the value that
\* is printed differs from the one given and matches exactly once, in whatever file, unless it
\* is too long to be printed whole; and in a file without form feeds the lines that are named
\* hold the text and no line too many.
THEOREM AdviceIsRight == GuidedSpec => []MismatchAdviceIsRight
<1>1. Edited => MismatchAdviceIsRight
  BY DEF Edited
<1>2. QED
  BY <1>1, EditedKept, PTL
=============================================================================
