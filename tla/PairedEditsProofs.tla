------------------------- MODULE PairedEditsProofs -------------------------
(***************************************************************************)
(* Proofs about SFTPipeline and PairedEdits, for any rows, traces and      *)
(* trajectories, any number of trainers, and any builds, starts and        *)
(* crashes.  First what the builders make: every builder makes proper      *)
(* datasets of proper ones.  Then the invariants of the programs that      *)
(* share the files, one for each question.                                 *)
(***************************************************************************)
EXTENDS PairedEdits, ArrangementProofs

\* Two keys of ByHunk are never equal, so that it only reorders.
LEMMA ByHunkFacts ==
    ASSUME NEW S, NEW s \in Seq(S), \A i \in DOMAIN s : s[i].hunk \in Nat
    PROVE  /\ ByHunk(s) \in Seq(S)
           /\ Len(ByHunk(s)) = Len(s)
           /\ Chosen(ByHunk(s), s, DOMAIN s)
<1> DEFINE n   == Len(s)
           key == [i \in DOMAIN s |-> s[i].hunk * (n + 1) + i]
<1>1. n \in Nat /\ DOMAIN s = 1 .. n
  BY LenProperties
<1>2. key \in [DOMAIN s -> Nat]
  <2>1. ASSUME NEW i \in DOMAIN s PROVE s[i].hunk * (n + 1) + i \in Nat
    <3>1. n + 1 \in Nat /\ i \in Nat /\ s[i].hunk \in Nat
      BY <1>1
    <3> HIDE DEF n
    <3>2. s[i].hunk * (n + 1) \in Nat
      BY <3>1
    <3>3. QED
      BY <3>1, <3>2
  <2>2. QED
    BY <2>1
<1>3. ASSUME NEW i \in DOMAIN s, NEW j \in DOMAIN s, key[i] = key[j] PROVE i = j
  <2> DEFINE a == s[i].hunk
             b == s[j].hunk
  <2>1. a \in Nat /\ b \in Nat /\ i \in 1 .. n /\ j \in 1 .. n
    BY <1>1
  <2>2. a * (n + 1) + i = b * (n + 1) + j
    BY <1>3
  <2> HIDE DEF a, b, n
  <2>3. ~(a < b)
    <3>1. SUFFICES ASSUME a < b PROVE FALSE
      OBVIOUS
    <3>2. b >= a + 1 /\ b = a + 1 + (b - a - 1) /\ b - a - 1 \in Nat
      BY <2>1, <3>1
    <3>3. b * (n + 1) = (a + 1) * (n + 1) + (b - a - 1) * (n + 1)
      BY <1>1, <2>1, <3>2
    <3>4. (b - a - 1) * (n + 1) >= 0
      BY <1>1, <3>2
    <3>5. QED
      BY <1>1, <2>1, <2>2, <3>3, <3>4
  <2>4. ~(b < a)
    <3>1. SUFFICES ASSUME b < a PROVE FALSE
      OBVIOUS
    <3>2. a - b - 1 \in Nat
      BY <2>1, <3>1
    <3>3. a * (n + 1) = (b + 1) * (n + 1) + (a - b - 1) * (n + 1)
      BY <1>1, <2>1, <3>2
    <3>4. (a - b - 1) * (n + 1) >= 0
      BY <1>1, <3>2
    <3>5. QED
      BY <1>1, <2>1, <2>2, <3>3, <3>4
  <2>5. a = b
    BY <2>1, <2>3, <2>4
  <2>6. a * (n + 1) \in Nat
    BY <1>1, <2>1
  <2>7. QED
    BY <2>1, <2>2, <2>5, <2>6
<1>4. IsFiniteSet(1 .. n) /\ Cardinality(1 .. n) = n
  BY <1>1, FS_Interval
<1>5. ByHunk(s) = Arranged(s, key)
  BY DEF ByHunk
<1> HIDE DEF key, n
<1>6. QED
  <2>1. DOMAIN s \in SUBSET DOMAIN s /\ Cardinality(DOMAIN s) = n
    BY <1>1, <1>4
  <2>2. /\ Arranged(s, key) \in Seq(S)
        /\ Len(Arranged(s, key)) = Cardinality(DOMAIN s)
        /\ Chosen(Arranged(s, key), s, DOMAIN s)
    BY <1>2, <1>3, <2>1, ArrangedFacts
  <2>3. QED
    BY <1>5, <2>1, <2>2 DEF n

----------------------------------------------------------------------------
(* What a dataset must be for the trainer to take it, and what its reads   *)
(* must show.                                                              *)

Fields == {"id", "task", "stage", "hunk", "history", "content", "target", "source", "protocol",
           "real"}

\* The first component of an id: which builder made it.
Tag == [gold |-> "sft", grpo |-> "grpo", semantic |-> "semantic"]

\* What ReadsMatchTheRepository asks of an example.
Current(e) == e.real => ReadsAreCurrent(e)

\* A call the trainer can parse, unless what it searches for is too long.
Learnable(call) == call.kind # "search_text" => Parsed(call)

ProperExample(what, e) ==
    /\ DOMAIN e = Fields
    /\ what # "cumulative" => Current(e)
    /\ e.task \in Train
    /\ e.content = e.target
    /\ what = "gold" => Learnable(e.content)
    /\ e.source \in SourcesIn(what)
    /\ e.protocol = ProtocolOf(what)
    /\ what \in {"gold", "grpo"} =>
          Sequence(e.history) /\ (e.stage = "inspect" => e.target.kind = "read_file")
    /\ what \in {"gold", "grpo", "semantic"} => e.hunk \in Nat /\ e.id[1] = Tag[what]

Proper(what, rows) ==
    /\ Sequence(rows)
    /\ Unique(rows)
    /\ \A i \in DOMAIN rows : ProperExample(what, rows[i])

\* A dataset cut short by a crash is still a proper one.
LEMMA ProperPrefix ==
    ASSUME NEW what, NEW rows, Proper(what, rows), NEW n \in 0 .. Len(rows)
    PROVE  Proper(what, SubSeq(rows, 1, n))
<1>1. rows \in Seq(Range(rows)) /\ Len(rows) \in Nat /\ DOMAIN rows = 1 .. Len(rows)
  BY SequenceOf DEF Proper, Sequence
<1> DEFINE t == SubSeq(rows, 1, n)
<1>2. t \in Seq(Range(rows)) /\ Len(t) = n /\ \A i \in 1 .. n : t[i] = rows[i]
  BY <1>1, SubSeqProperties
<1> HIDE DEF t
<1>3. Sequence(t) /\ DOMAIN t = 1 .. n /\ 1 .. n \subseteq DOMAIN rows
  BY <1>1, <1>2, SequenceOf
<1>4. QED
  BY <1>2, <1>3 DEF Proper, Unique, t

\* The trainer takes such a dataset with a report of its kind that lists its tasks, if no
\* search of a gold one is too long.
LEMMA ProperAccepted ==
    ASSUME NEW what \in Artifacts, NEW rows, Proper(what, rows), rows # <<>>, NEW report,
           report.protocol = ProtocolOf(what), report.sources = SourcesIn(what),
           report.count = Len(rows),
           TasksOf(rows) \subseteq report.tasks, report.tasks \subseteq Train,
           report.protocol = "policy" => SearchesAreShort(rows)
    PROVE  ReportAccepted(report) /\ RowsAccepted(rows, report)
<1>1. /\ Len(rows) \in Nat /\ Len(rows) > 0 /\ DOMAIN rows = 1 .. Len(rows)
  BY SequenceOf, EmptySeq DEF Proper, Sequence
<1>2. 1 \in DOMAIN rows
  BY <1>1
<1>3. rows[1].task \in report.tasks
  BY <1>2 DEF TasksOf
<1>4. report.sources \in {{"gold"}, {"teacher"}, {"gold", "teacher"}}
  BY DEF SourcesIn
<1>5. ReportAccepted(report)
  BY <1>1, <1>3, <1>4 DEF ReportAccepted
<1>6. ASSUME NEW i \in DOMAIN rows PROVE ExampleAccepted(rows[i], report)
  <2>1. ProperExample(what, rows[i])
    BY DEF Proper
  <2>2. rows[i].protocol = "policy" => Parsed(rows[i].content)
    <3>1. SUFFICES ASSUME rows[i].protocol = "policy" PROVE Parsed(rows[i].content)
      OBVIOUS
    <3>2. what = "gold" /\ SearchesAreShort(rows)
      BY <2>1, <3>1 DEF ProperExample, ProtocolOf
    <3>3. CASE rows[i].content.kind = "search_text"
      BY <2>1, <3>2, <3>3 DEF ProperExample, SearchesAreShort, Parsed
    <3>4. CASE rows[i].content.kind # "search_text"
      BY <2>1, <3>2, <3>4 DEF ProperExample, Learnable
    <3>5. QED
      BY <3>3, <3>4
  <2>3. QED
    BY <2>1, <2>2 DEF ExampleAccepted, ProperExample
<1>7. QED
  BY <1>5, <1>6 DEF RowsAccepted, Proper, Unique

----------------------------------------------------------------------------
(* The gold examples                                                       *)

\* Of one row: each is of a hunk and a stage, and no two are of the same.
LEMMA RowFacts ==
    ASSUME NEW c, NEW row, NEW T, row.patch \in Seq(T),
           NEW S, \A i \in DOMAIN row.patch, k \in 1 .. 4 :
                     ~Unsupported(row.patch[i]) => GoldExample(c, row, i, k) \in S
    PROVE  /\ RowExamples(c, row) \in Seq(S)
           /\ Unique(RowExamples(c, row))
           /\ \A m \in DOMAIN RowExamples(c, row) : RowExamples(c, row)[m].id[2] = row.task
<1> DEFINE n  == Len(row.patch)
           ss == [i \in 1 .. n |-> HunkExamples(c, row, i)]
<1>1. n \in Nat /\ DOMAIN row.patch = 1 .. n
  BY LenProperties
<1>2. ASSUME NEW i \in 1 .. n
      PROVE  /\ ss[i] \in Seq(S)
             /\ \A k \in DOMAIN ss[i] : k \in 1 .. 4 /\ ss[i][k] = GoldExample(c, row, i, k)
  <2>2. CASE Unsupported(row.patch[i])
    BY <2>2 DEF HunkExamples
  <2>3. CASE ~Unsupported(row.patch[i])
    <3>1. ss[i] = [k \in 1 .. 4 |-> GoldExample(c, row, i, k)]
      BY <2>3 DEF HunkExamples
    <3>2. \A k \in 1 .. 4 : GoldExample(c, row, i, k) \in S
      BY <1>1, <2>3
    <3> HIDE DEF ss
    <3>3. ss[i] \in Seq(S)
      BY <3>1, <3>2
    <3>4. QED
      BY <3>1, <3>3
  <2>4. QED
    BY <2>2, <2>3
<1>3. ss \in Seq(Seq(S)) /\ DOMAIN ss = 1 .. n
  <2>1. ss = [i \in 1 .. n |-> ss[i]]
    OBVIOUS
  <2> HIDE DEF ss, n
  <2>2. QED
    BY <1>1, <1>2, <2>1
<1>4. ASSUME NEW i \in DOMAIN ss, NEW j \in DOMAIN ss, NEW p \in DOMAIN ss[i], NEW q \in DOMAIN ss[j],
             ss[i][p].id = ss[j][q].id
      PROVE  i = j /\ p = q
  <2> HIDE DEF ss, n
  <2>1. /\ p \in 1 .. 4 /\ ss[i][p] = GoldExample(c, row, i, p)
        /\ q \in 1 .. 4 /\ ss[j][q] = GoldExample(c, row, j, q)
    BY <1>2, <1>3
  <2>2. GoldExample(c, row, i, p).id[4] = i /\ GoldExample(c, row, i, p).id[5] = Stages[p]
    BY DEF GoldExample
  <2>3. GoldExample(c, row, j, q).id[4] = j /\ GoldExample(c, row, j, q).id[5] = Stages[q]
    BY DEF GoldExample
  <2>4. i = j /\ Stages[p] = Stages[q]
    BY <1>4, <2>1, <2>2, <2>3
  <2>5. QED
    BY <2>1, <2>4 DEF Stages
<1> HIDE DEF ss
<1>5. RowExamples(c, row) = FlattenSeq(ss)
  BY DEF RowExamples, ss
<1>6. QED
  <2>1. FlattenSeq(ss) \in Seq(S)
    BY <1>3, FlattenFacts
  <2>2. Unique(FlattenSeq(ss))
    BY <1>3, <1>4, FlattenFacts
  <2>3. ASSUME NEW m \in DOMAIN FlattenSeq(ss) PROVE FlattenSeq(ss)[m].id[2] = row.task
    <3>1. PICK i \in DOMAIN ss : \E p \in DOMAIN ss[i] : FlattenSeq(ss)[m] = ss[i][p]
      BY <1>3, FlattenFacts
    <3>2. PICK k : FlattenSeq(ss)[m] = GoldExample(c, row, i, k)
      BY <1>2, <1>3, <3>1
    <3>3. QED
      BY <3>2 DEF GoldExample
  <2>4. QED
    BY <1>5, <2>1, <2>2, <2>3

\* Before the first edit the files are those of the repository.
LEMMA FilesAtFirst ==
    ASSUME NEW task, NEW step, ~IsEdit(step.call)
    PROVE  FilesAfter(task, <<step>>) = Repository[task]
<1> DEFINE next(f) == [k \in 0 .. 1 |-> IF k = 0 THEN Repository[task] ELSE Written(f[k - 1], <<step>>[k])]
           after == CHOOSE f : f = next(f)
           g == [k \in 0 .. 1 |-> Repository[task]]
<1>1. Written(Repository[task], step) = Repository[task]
  BY DEF Written
<1>2. Len(<<step>>) = 1 /\ <<step>>[1] = step
  OBVIOUS
<1>3. FilesAfter(task, <<step>>) = after[1]
  BY <1>2 DEF FilesAfter
<1>4. g = next(g)
  BY <1>1
<1>5. after = next(after)
  <2> HIDE DEF next, g
  <2>1. QED
    BY <1>4
<1> HIDE DEF after
<1>6. after[0] = Repository[task] /\ after[1] = Written(after[0], step)
  BY <1>5
<1>7. QED
  BY <1>1, <1>3, <1>6

\* The beginning of a history that matches does so too.
LEMMA ReadsMatchPrefix ==
    ASSUME NEW task, NEW history, Sequence(history), ReadsMatch(task, history),
           NEW n \in 0 .. Len(history)
    PROVE  ReadsMatch(task, SubSeq(history, 1, n))
<1> DEFINE t == SubSeq(history, 1, n)
<1>1. /\ history \in Seq(Range(history)) /\ Len(history) \in Nat
      /\ DOMAIN history = 1 .. Len(history)
  BY SequenceOf DEF Sequence
<1>2. t \in Seq(Range(history)) /\ Len(t) = n /\ \A i \in 1 .. n : t[i] = history[i]
  BY <1>1, SubSeqProperties
<1>3. ASSUME NEW k \in 1 .. n PROVE SubSeq(t, 1, k - 1) = SubSeq(history, 1, k - 1)
  <2>1. k - 1 \in Nat /\ k - 1 <= n
    OBVIOUS
  <2>2. /\ SubSeq(history, 1, k - 1) \in Seq(Range(history)) /\ Len(SubSeq(history, 1, k - 1)) = k - 1
        /\ \A i \in 1 .. k - 1 : SubSeq(history, 1, k - 1)[i] = history[i]
    BY <1>1, <2>1, SubSeqProperties
  <2> HIDE DEF t
  <2>3. /\ SubSeq(t, 1, k - 1) \in Seq(Range(history)) /\ Len(SubSeq(t, 1, k - 1)) = k - 1
        /\ \A i \in 1 .. k - 1 : SubSeq(t, 1, k - 1)[i] = t[i]
    BY <1>2, <2>1, SubSeqProperties
  <2> DEFINE a == SubSeq(t, 1, k - 1)
             b == SubSeq(history, 1, k - 1)
  <2>4. \A i \in 1 .. k - 1 : a[i] = b[i]
    BY <1>2, <2>1, <2>2, <2>3
  <2> HIDE DEF a, b
  <2>5. a = b
    BY <2>2, <2>3, <2>4, SeqEqual DEF a, b
  <2>6. QED
    BY <2>5 DEF a, b
<1> HIDE DEF t
<1>4. DOMAIN t = 1 .. n /\ 1 .. n \subseteq DOMAIN history
  BY <1>1, <1>2, SequenceOf
<1>5. ASSUME NEW k \in DOMAIN t, IsShownRead(t[k])
      PROVE  t[k].observation.lines = LiveRead(task, t, k).lines
  <2>1. k \in 1 .. n /\ k \in DOMAIN history /\ t[k] = history[k]
        /\ SubSeq(t, 1, k - 1) = SubSeq(history, 1, k - 1)
    BY <1>2, <1>3, <1>4
  <2>2. LiveRead(task, t, k) = LiveRead(task, history, k)
    BY <2>1 DEF LiveRead
  <2>3. QED
    BY <1>5, <2>1, <2>2 DEF ReadsMatch
<1>6. QED
  BY <1>5 DEF ReadsMatch, t

\* The window a gold example reads is one the policy may ask for.
LEMMA WindowFacts ==
    ASSUME NEW h, h.start \in Nat, h.old \in Seq(Range(h.old))
    PROVE  /\ ReadWindow(h).first \in Nat /\ ReadWindow(h).last \in Nat
           /\ ReadWindow(h).last - ReadWindow(h).first + 1 \in MinWindow .. MaxWindow
<1> DEFINE first == IF h.start > Lead THEN h.start - Lead ELSE 1
           until == Larger(first + MinWindow - 1, h.start + Len(h.old) + Trail)
<1>1. /\ Lead \in Nat /\ Trail \in Nat /\ MinWindow \in Nat /\ MaxWindow \in Nat
      /\ 1 <= MinWindow /\ MinWindow <= MaxWindow
  BY ScaleAssumption
<1>2. Len(h.old) \in Nat
  BY LenProperties
<1>3. first \in Nat /\ 1 <= first
  BY <1>1
<1> HIDE DEF first
<1>4. until \in Nat /\ first + MinWindow - 1 <= until
  BY <1>1, <1>2, <1>3 DEF Larger
<1>5. ReadWindow(h).first = first /\ ReadWindow(h).last = Smaller(first + MaxWindow - 1, until)
  BY DEF ReadWindow, first
<1> HIDE DEF until
<1>6. QED
  BY <1>1, <1>3, <1>4, <1>5 DEF Smaller

\* What a read shows takes some room.
LEMMA SizeOfNumbered ==
    ASSUME NEW lines, Sequence(lines), NEW first \in Nat, NEW last \in Nat
    PROVE  Size(Numbered(lines, first, last)) \in Nat
<1> DEFINE shown == Smaller(Smaller(last, Len(lines)), first + MaxChars - 1)
           seen  == Numbered(lines, first, last)
<1>1. shown \in Int
  BY ScaleAssumption, ListFacts DEF Smaller
<1>2. seen.shows = "lines" /\ DOMAIN seen.lines = first .. shown
  BY DEF Numbered, Lines
<1> HIDE DEF shown
<1>3. Cardinality(first .. shown) \in Nat
  BY <1>1, FS_Interval, FS_CardinalityType
<1> HIDE DEF seen
<1>4. Footer(seen) \in Nat
  BY DEF Footer
<1>5. Size(seen) = Cardinality(first .. shown) + Footer(seen)
  BY <1>2 DEF Size
<1>6. Size(seen) \in Nat
  BY <1>3, <1>4, <1>5
<1>7. QED
  BY <1>6 DEF seen

\* The end of a read is of the read.
LEMMA EndingFacts ==
    ASSUME NEW seen, seen.shows = "lines", seen.lines = [n \in DOMAIN seen.lines |-> seen.lines[n]],
           DOMAIN seen = DOMAIN Lines(<<>>, FALSE), NEW room
    PROVE  /\ DOMAIN Ending(seen, room).lines \subseteq DOMAIN seen.lines
           /\ \A n \in DOMAIN Ending(seen, room).lines : Ending(seen, room).lines[n] = seen.lines[n]
           /\ Size(seen) <= room => Ending(seen, room) = seen
<1> DEFINE kept == Cardinality(DOMAIN seen.lines) - (Size(seen) - room)
           last == {n \in DOMAIN seen.lines :
                      Cardinality({m \in DOMAIN seen.lines : m >= n}) <= kept}
           part == [n \in last |-> seen.lines[n]]
<1>1. CASE Size(seen) <= room
  <2>1. Ending(seen, room) = seen
    BY <1>1 DEF Ending
  <2>2. QED
    BY <2>1
<1>2. CASE ~(Size(seen) <= room)
  <2>1. Ending(seen, room) = [seen EXCEPT !.lines = part]
    BY <1>2, Zenon DEF Ending
  <2>2. last \subseteq DOMAIN seen.lines /\ DOMAIN part = last /\ \A n \in last : part[n] = seen.lines[n]
    OBVIOUS
  <2> HIDE DEF part, last
  <2>3. "lines" \in DOMAIN seen
    BY DEF Lines
  <2>4. Ending(seen, room).lines = part
    BY <2>1, <2>3
  <2>5. QED
    BY <1>2, <2>2, <2>4
<1>3. QED
  BY <1>1, <1>2

\* What the prompt of an edit or a verify example has room for.
LEMMA RoomAtTwo ==
    ASSUME NEW history, Len(history) \in {2, 3}
    PROVE  RoomFor(history)[2]
             = IF Len(history) = 2 THEN MaxChars
               ELSE Larger(0, MaxChars - Size(history[3].observation))
<1> DEFINE n       == Len(history)
           next(f) == [i \in 1 .. n |->
                         IF i = n THEN MaxChars
                         ELSE Larger(0, f[i + 1] - Size(history[i + 1].observation))]
           room    == CHOOSE f : f = next(f)
           two     == IF n = 2 THEN MaxChars ELSE Larger(0, MaxChars - Size(history[3].observation))
           one     == Larger(0, two - Size(history[2].observation))
           g       == [i \in 1 .. n |-> IF i = 3 THEN MaxChars ELSE IF i = 2 THEN two ELSE one]
<1>1. RoomFor(history) = room
  BY DEF RoomFor
<1>2. n = Len(history) /\ n \in Nat /\ (n = 2 \/ n = 3)
  OBVIOUS
<1> HIDE DEF n
<1>3. g = next(g)
  <2>1. ASSUME NEW i \in 1 .. n PROVE g[i] = next(g)[i]
    <3>1. i = 1 \/ i = 2 \/ i = 3
      <4>1. i \in Int /\ 1 <= i /\ i <= 3
        BY <1>2
      <4>2. QED
        BY <4>1
    <3>2. CASE i = 1
      <4>1. g[1] = one /\ g[2] = two /\ 1 # n /\ 1 + 1 = 2
        BY <1>2, <3>2
      <4>2. next(g)[1] = Larger(0, g[2] - Size(history[2].observation))
        BY <1>2, <3>2, <4>1
      <4>3. QED
        BY <3>2, <4>1, <4>2
    <3>3. CASE i = 2 /\ n = 2
      BY <3>3
    <3>4. CASE i = 2 /\ n = 3
      <4>1. g[2] = two /\ g[3] = MaxChars /\ two = Larger(0, MaxChars - Size(history[3].observation))
        BY <3>4
      <4>2. next(g)[2] = Larger(0, g[3] - Size(history[3].observation))
        BY <3>4
      <4>3. QED
        BY <3>4, <4>1, <4>2
    <3>5. CASE i = 3
      BY <1>2, <3>5
    <3>6. QED
      BY <1>2, <3>1, <3>2, <3>3, <3>4, <3>5
  <2>2. DOMAIN g = 1 .. n /\ DOMAIN next(g) = 1 .. n
        /\ g = [i \in 1 .. n |-> g[i]] /\ next(g) = [i \in 1 .. n |-> next(g)[i]]
    OBVIOUS
  <2> HIDE DEF g, next
  <2>3. QED
    BY <2>1, <2>2
<1>4. room = next(room)
  <2> HIDE DEF next, g
  <2>1. QED
    BY <1>3
<1> HIDE DEF room
<1>5. CASE n = 2
  <2>1. room[2] = MaxChars
    BY <1>4, <1>5
  <2>2. QED
    BY <1>1, <1>2, <1>5, <2>1
<1>6. CASE n = 3
  <2>1. room[3] = MaxChars /\ room[2] = Larger(0, room[3] - Size(history[3].observation))
    BY <1>4, <1>6
  <2>2. QED
    BY <1>1, <1>2, <1>6, <2>1
<1>7. QED
  BY <1>2, <1>5, <1>6

\* The steps of a hunk: a search, the read of the repository, the edit.
AreHunkSteps(steps, c, row, h) ==
    /\ steps \in Seq({steps[1], steps[2], steps[3]}) /\ Len(steps) = 3
    /\ steps[1].call.kind = "search_text"
    /\ steps[2].call = Read(h.new_path, ReadWindow(h))
    /\ steps[2].observation = ReadObservation(c, row.task, h)
    /\ steps[3].call = Replace(h.new_path, h.old, h.new)
    /\ steps[3].observation = Plain

\* _hunk_examples
LEMMA HunkStepsFacts ==
    ASSUME NEW c, NEW row, NEW h
    PROVE  AreHunkSteps(HunkSteps(c, row, h), c, row, h)
BY DEF AreHunkSteps, HunkSteps, Step, Search

\* The history of a gold example: the steps before its own, with the calls as they are.
IsGoldHistory(shown, steps, k) ==
    /\ Sequence(shown) /\ Len(shown) = k - 1 /\ DOMAIN shown = 1 .. k - 1
    /\ \A j \in 1 .. k - 1 : shown[j].call = steps[j].call
    /\ k >= 3 => \E room : /\ shown[2].observation = Ending(steps[2].observation, room)
                           /\ k = 3 => room = MaxChars
                           /\ k = 4 => room = Larger(0, MaxChars - Size(Plain))

\* _sft_example
LEMMA GoldHistory ==
    ASSUME NEW c, NEW row, NEW i, NEW k \in 1 .. 4
    PROVE  IsGoldHistory(GoldExample(c, row, i, k).history, HunkSteps(c, row, row.patch[i]), k)
<1> DEFINE steps == HunkSteps(c, row, row.patch[i])
           shown == GoldExample(c, row, i, k).history
           plain == SubSeq(steps, 1, k - 1)
           S     == {steps[1], steps[2], steps[3]}
<1>1. steps \in Seq(S) /\ Len(steps) = 3 /\ steps[3].observation = Plain
  BY HunkStepsFacts DEF AreHunkSteps
<1>2. shown = Prompted(plain)
  BY DEF GoldExample
<1> HIDE DEF S, steps, shown
<1>3. Len(plain) = k - 1 /\ \A j \in 1 .. k - 1 : plain[j] = steps[j]
  <2>1. k - 1 \in Int /\ \A j \in 1 .. k - 1 : j \in 1 .. Len(steps)
    BY <1>1
  <2>2. \A j \in 1 .. k - 1 : steps[j] \in S
    BY <1>1, <2>1, ElementOfSeq
  <2>3. QED
    BY <2>1, <2>2, SubSeqProperties
<1> HIDE DEF plain
<1>4. shown = [j \in 1 .. k - 1 |-> Step(plain[j].call, Ending(plain[j].observation, RoomFor(plain)[j]))]
  BY <1>2, <1>3 DEF Prompted
<1>5. Sequence(shown) /\ Len(shown) = k - 1 /\ DOMAIN shown = 1 .. k - 1
  <2>1. k - 1 \in Nat /\ shown = [j \in 1 .. k - 1 |-> shown[j]]
    BY <1>4
  <2>2. QED
    BY <2>1, FunctionList
<1>6. \A j \in 1 .. k - 1 : shown[j].call = steps[j].call
  BY <1>3, <1>4 DEF Step
<1>7. ASSUME k >= 3
      PROVE  \E room : /\ shown[2].observation = Ending(steps[2].observation, room)
                       /\ k = 3 => room = MaxChars
                       /\ k = 4 => room = Larger(0, MaxChars - Size(Plain))
  <2>1. 2 \in 1 .. k - 1 /\ plain[2] = steps[2] /\ (k = 4 => plain[3] = steps[3])
    BY <1>3, <1>7
  <2>2. shown[2].observation = Ending(steps[2].observation, RoomFor(plain)[2])
    BY <1>4, <2>1 DEF Step
  <2>3. Len(plain) \in {2, 3} /\ (k = 3 => Len(plain) = 2) /\ (k = 4 => Len(plain) = 3)
    BY <1>3, <1>7
  <2>4. RoomFor(plain)[2] = IF Len(plain) = 2 THEN MaxChars
                            ELSE Larger(0, MaxChars - Size(plain[3].observation))
    BY <2>3, RoomAtTwo
  <2>5. QED
    BY <1>1, <2>1, <2>2, <2>3, <2>4
<1>8. QED
  BY <1>5, <1>6, <1>7 DEF IsGoldHistory, steps, shown

\* A hunk of a row of the train split.
IsHunk(h) == h.start \in Nat /\ h.old \in Seq(Range(h.old))

\* The read of a gold example is the first step after a search, and what is left of it shows
\* the repository: all of it, unless it takes the room of the edit after it.
LEMMA GoldReads ==
    ASSUME NEW c, NEW row, row.task \in Train, NEW i, IsHunk(row.patch[i]), NEW k \in 1 .. 4
    PROVE  Current(GoldExample(c, row, i, k))
<1> DEFINE e     == GoldExample(c, row, i, k)
           h     == row.patch[i]
           steps == HunkSteps(c, row, h)
           shown == e.history
           live  == Numbered(Repository[row.task][h.new_path], ReadWindow(h).first, ReadWindow(h).last)
<1>1. SUFFICES ASSUME e.real PROVE ReadsAreCurrent(e)
  BY DEF Current
<1>2. e.task = row.task /\ e.stage = Stages[k] /\ HasSource(c, row.task, h.new_path)
  <2>1. e.task = row.task /\ e.stage = Stages[k] /\ e.real = IsReal(c, row.task, h.new_path)
    BY DEF GoldExample
  <2>2. QED
    BY <1>1, <2>1 DEF IsReal
<1>3. /\ steps[1].call.kind = "search_text" /\ steps[3].call.kind = "replace_text"
      /\ steps[2].call = Read(h.new_path, ReadWindow(h)) /\ steps[2].observation = live
  <2>1. ReadObservation(c, row.task, h) = live
    BY <1>2 DEF ReadObservation
  <2>a. AreHunkSteps(steps, c, row, h)
    BY HunkStepsFacts
  <2> HIDE DEF h, live, steps
  <2>2. /\ steps[1].call.kind = "search_text" /\ steps[3].call = Replace(h.new_path, h.old, h.new)
        /\ steps[2].call = Read(h.new_path, ReadWindow(h))
        /\ steps[2].observation = ReadObservation(c, row.task, h)
    BY <2>a DEF AreHunkSteps
  <2>3. QED
    BY <2>1, <2>2 DEF Replace
<1>4. /\ Sequence(shown) /\ Len(shown) = k - 1 /\ DOMAIN shown = 1 .. k - 1
      /\ \A j \in 1 .. k - 1 : shown[j].call = steps[j].call
      /\ k >= 3 => \E room : /\ shown[2].observation = Ending(steps[2].observation, room)
                             /\ k = 3 => room = MaxChars
                             /\ k = 4 => room = Larger(0, MaxChars - Size(Plain))
  <2>1. IsGoldHistory(shown, steps, k)
    BY GoldHistory
  <2> HIDE DEF steps, shown
  <2>2. QED
    BY <2>1 DEF IsGoldHistory
<1>5. Size(live) \in Nat
  <2>1. Sequence(Repository[row.task][h.new_path])
    BY <1>2, RepositoryAssumption DEF HasSource
  <2>2. ReadWindow(h).first \in Nat /\ ReadWindow(h).last \in Nat
    BY WindowFacts DEF IsHunk
  <2> HIDE DEF h
  <2>3. QED
    BY <2>1, <2>2, SizeOfNumbered
<1>6. /\ live.shows = "lines" /\ live.lines = [n \in DOMAIN live.lines |-> live.lines[n]]
      /\ DOMAIN live = DOMAIN Lines(<<>>, FALSE)
  BY DEF Numbered, Lines
<1> HIDE DEF e, h, steps, shown, live
<1>7. CASE k <= 2
  <2>1. \A j \in DOMAIN shown : ~IsShownRead(shown[j])
    BY <1>3, <1>4, <1>7 DEF IsShownRead
  <2>2. ReadsMatch(row.task, shown)
    BY <2>1 DEF ReadsMatch
  <2>3. ~WasPrompted(e)
    BY <1>2, <1>7 DEF WasPrompted, Stages
  <2>4. QED
    BY <1>2, <2>2, <2>3 DEF ReadsAreCurrent, shown
<1>8. CASE k >= 3
  <2>1. PICK room : /\ shown[2].observation = Ending(live, room)
                    /\ k = 3 => room = MaxChars
                    /\ k = 4 => room = Larger(0, MaxChars - Size(Plain))
    BY <1>3, <1>4, <1>8
  <2>2. FilesAfter(row.task, SubSeq(shown, 1, 1)) = Repository[row.task]
    <3> DEFINE a == SubSeq(shown, 1, 1)
               b == <<shown[1]>>
               S == Range(shown)
    <3>1. 1 <= Len(shown) /\ 1 \in DOMAIN shown /\ shown \in Seq(S)
      BY <1>4, <1>8 DEF Sequence
    <3>2. shown[1] \in S
      BY <3>1 DEF Range
    <3>3. ~IsEdit(shown[1].call)
      BY <1>3, <1>4, <1>8 DEF IsEdit
    <3> HIDE DEF S
    <3>4. a \in Seq(S) /\ Len(a) = 1 /\ \A m \in 1 .. 1 : a[m] = shown[m]
      BY <3>1, <3>2, SubSeqProperties
    <3>5. b \in Seq(S) /\ Len(b) = 1 /\ b[1] = shown[1]
      BY <3>2
    <3> HIDE DEF a, b
    <3>6. a = b
      BY <3>4, <3>5, SeqEqual
    <3>7. QED
      BY <3>3, <3>6, FilesAtFirst DEF a, b
  <2>3. LiveRead(row.task, shown, 2) = live
    <3>1. shown[2].call = Read(h.new_path, ReadWindow(h)) /\ 2 - 1 = 1
      BY <1>3, <1>4, <1>8
    <3>2. QED
      BY <2>2, <3>1 DEF LiveRead, Read, live
  <2>4. /\ DOMAIN Ending(live, room).lines \subseteq DOMAIN live.lines
        /\ \A n \in DOMAIN Ending(live, room).lines : Ending(live, room).lines[n] = live.lines[n]
        /\ Size(live) <= room => Ending(live, room) = live
    BY <1>6, EndingFacts
  <2>5. Size(live) < MaxChars => Size(live) <= room
    <3>1. MaxChars \in Nat /\ Size(Plain) = 1
      BY ScaleAssumption DEF Size, Plain
    <3>2. k = 3 \/ k = 4
      BY <1>8
    <3>3. QED
      BY <1>5, <2>1, <3>1, <3>2 DEF Larger
  <2>6. ASSUME NEW j \in DOMAIN shown, IsShownRead(shown[j]) PROVE j = 2
    BY <1>3, <1>4, <1>8, <2>6 DEF IsShownRead
  <2>7. ReadsAgree(row.task, shown)
    <3>1. ASSUME NEW j \in DOMAIN shown, IsShownRead(shown[j])
          PROVE  /\ DOMAIN shown[j].observation.lines \subseteq DOMAIN LiveRead(row.task, shown, j).lines
                 /\ \A n \in DOMAIN shown[j].observation.lines :
                       shown[j].observation.lines[n] = LiveRead(row.task, shown, j).lines[n]
                 /\ Size(LiveRead(row.task, shown, j)) < MaxChars =>
                       shown[j].observation.lines = LiveRead(row.task, shown, j).lines
      BY <2>1, <2>3, <2>4, <2>5, <2>6, <3>1
    <3>2. QED
      BY <3>1, Zenon DEF ReadsAgree
  <2>8. WasPrompted(e)
    BY <1>2, <1>8 DEF WasPrompted, Stages
  <2>9. QED
    BY <1>2, <2>7, <2>8 DEF ReadsAreCurrent, shown
<1>9. QED
  BY <1>7, <1>8

\* _sft_example
LEMMA GoldExampleProper ==
    ASSUME NEW c, NEW row, row.task \in Train, NEW i \in Nat, IsHunk(row.patch[i]),
           ~Unsupported(row.patch[i]), NEW k \in 1 .. 4
    PROVE  ProperExample("gold", GoldExample(c, row, i, k))
<1> DEFINE e     == GoldExample(c, row, i, k)
           h     == row.patch[i]
           steps == HunkSteps(c, row, h)
<1>1. DOMAIN e = Fields
  BY DEF GoldExample, Fields
<1>2. /\ e.task = row.task /\ e.content = e.target /\ e.source = "gold" /\ e.protocol = "policy"
      /\ e.hunk = i /\ e.id[1] = "sft" /\ e.stage = Stages[k]
      /\ e.target = IF k = 4 THEN RunTests ELSE steps[k].call
  BY DEF GoldExample
<1>3. /\ steps[1].call.kind = "search_text" /\ steps[2].call = Read(h.new_path, ReadWindow(h))
      /\ steps[3].call = Replace(h.new_path, h.old, h.new)
  <2>1. AreHunkSteps(steps, c, row, h)
    BY HunkStepsFacts
  <2> HIDE DEF h, steps
  <2>2. QED
    BY <2>1 DEF AreHunkSteps
<1>4. h.old # <<>> /\ ReadWindow(h).last - ReadWindow(h).first + 1 \in MinWindow .. MaxWindow
  BY WindowFacts DEF IsHunk, Unsupported
<1>5. Sequence(e.history)
  BY GoldHistory DEF IsGoldHistory
<1>6. Current(e)
  BY GoldReads
<1> HIDE DEF e, h, steps
<1>7. ASSUME e.stage = "inspect" PROVE e.target.kind = "read_file"
  <2>1. k = 2
    BY <1>2, <1>7 DEF Stages
  <2>2. QED
    BY <1>2, <1>3, <2>1 DEF Read
<1>8. Learnable(e.target)
  <2>1. CASE k = 1
    BY <1>2, <1>3, <2>1 DEF Learnable
  <2>2. CASE k = 2
    BY <1>2, <1>3, <1>4, <2>2 DEF Learnable, Parsed, Read
  <2>3. CASE k = 3
    BY <1>2, <1>3, <1>4, <2>3 DEF Learnable, Parsed, Replace
  <2>4. CASE k = 4
    BY <1>2, <2>4 DEF Learnable, Parsed, RunTests
  <2>5. QED
    BY <2>1, <2>2, <2>3, <2>4
<1>9. ProperExample("gold", e)
  BY <1>1, <1>2, <1>5, <1>6, <1>7, <1>8 DEF ProperExample, Tag, SourcesIn, ProtocolOf
<1>10. QED
  BY <1>9 DEF e

\* build_train_gold_sft_dataset
LEMMA GoldProper ==
    ASSUME NEW c, NEW pinned \in RowLists, ~GoldRefused(c, pinned)
    PROVE  Proper("gold", GoldExamples(c, pinned))
<1> DEFINE S  == {e \in {GoldExample(c, pinned[r], i, k) : r \in DOMAIN pinned, i \in Nat, k \in 1 .. 4} :
                     ProperExample("gold", e)}
           n  == Len(pinned)
           ss == [i \in 1 .. n |-> RowExamples(c, pinned[i])]
           t  == FlattenSeq(ss)
<1>1. /\ n \in Nat /\ DOMAIN pinned = 1 .. n
      /\ \A i \in 1 .. n : /\ pinned[i].patch \in Seq(Range(pinned[i].patch))
                           /\ \A j \in DOMAIN pinned[i].patch : IsHunk(pinned[i].patch[j])
  <2>1. pinned \in Seq(Range(pinned))
    BY InputAssumption
  <2>2. n \in Nat /\ DOMAIN pinned = 1 .. n
    BY <2>1, LenProperties
  <2>3. ASSUME NEW i \in 1 .. n
        PROVE  /\ pinned[i].patch \in Seq(Range(pinned[i].patch))
               /\ \A j \in DOMAIN pinned[i].patch : IsHunk(pinned[i].patch[j])
    <3>1. pinned[i] \in Range(pinned)
      BY <2>2 DEF Range
    <3>2. /\ pinned[i].patch \in Seq(Range(pinned[i].patch))
          /\ \A h \in Range(pinned[i].patch) : h.start \in Nat /\ h.old \in Seq(Range(h.old))
      BY <3>1, InputAssumption
    <3>3. \A j \in DOMAIN pinned[i].patch : pinned[i].patch[j] \in Range(pinned[i].patch)
      BY DEF Range
    <3>4. QED
      BY <3>2, <3>3 DEF IsHunk
  <2>4. QED
    BY <2>2, <2>3
<1>2. /\ \A i \in 1 .. n : pinned[i].task \in Train
      /\ \A i \in 1 .. n : \A j \in 1 .. i - 1 : pinned[j].task # pinned[i].task
  BY DEF GoldRefused
<1>3. ASSUME NEW i \in 1 .. n
      PROVE  /\ ss[i] \in Seq(S) /\ Unique(ss[i])
             /\ \A p \in DOMAIN ss[i] : ss[i][p].id[2] = pinned[i].task
  <2>1. ss[i] = RowExamples(c, pinned[i])
    OBVIOUS
  <2>2. ASSUME NEW h \in DOMAIN pinned[i].patch, NEW k \in 1 .. 4, ~Unsupported(pinned[i].patch[h])
        PROVE  GoldExample(c, pinned[i], h, k) \in S
    <3>1. h \in Nat
      <4>1. DOMAIN pinned[i].patch = 1 .. Len(pinned[i].patch)
        BY <1>1, LenProperties
      <4>2. QED
        BY <4>1
    <3>2. ProperExample("gold", GoldExample(c, pinned[i], h, k))
      BY <1>1, <1>2, <2>2, <3>1, GoldExampleProper
    <3>3. QED
      BY <1>1, <3>1, <3>2
  <2> HIDE DEF S, ss
  <2>3. QED
    <3> DEFINE row == pinned[i]
    <3>1. /\ row.patch \in Seq(Range(row.patch))
          /\ \A h \in DOMAIN row.patch, k \in 1 .. 4 :
                ~Unsupported(row.patch[h]) => GoldExample(c, row, h, k) \in S
      BY <1>1, <2>2
    <3> HIDE DEF row
    <3>2. /\ RowExamples(c, row) \in Seq(S)
          /\ Unique(RowExamples(c, row))
          /\ \A m \in DOMAIN RowExamples(c, row) : RowExamples(c, row)[m].id[2] = row.task
      BY ONLY <3>1, RowFacts
    <3>3. QED
      BY <2>1, <3>2 DEF row
<1>4. ss \in Seq(Seq(S)) /\ DOMAIN ss = 1 .. n
  <2>1. ss = [i \in 1 .. n |-> ss[i]]
    OBVIOUS
  <2> HIDE DEF S, ss, n
  <2>2. QED
    BY <1>1, <1>3, <2>1
<1> HIDE DEF ss
<1>5. ASSUME NEW i \in DOMAIN ss, NEW j \in DOMAIN ss, NEW p \in DOMAIN ss[i], NEW q \in DOMAIN ss[j],
             ss[i][p].id = ss[j][q].id
      PROVE  i = j /\ p = q
  <2> HIDE DEF n, S
  <2>1. pinned[i].task = pinned[j].task
    BY <1>3, <1>4, <1>5
  <2>2. ~(i < j) /\ ~(j < i)
    BY <1>1, <1>2, <1>4, <2>1
  <2>3. i = j
    BY <1>1, <1>4, <2>2
  <2>4. QED
    BY <1>3, <1>4, <1>5, <2>3 DEF Unique
<1>6. t \in Seq(S) /\ Unique(t)
  <2> HIDE DEF S
  <2>1. t \in Seq(S)
    BY <1>4, FlattenFacts
  <2>2. Unique(t)
    BY <1>4, <1>5, FlattenFacts
  <2>3. QED
    BY <2>1, <2>2
<1>7. \A e \in S : ProperExample("gold", e)
  OBVIOUS
<1> HIDE DEF t, S
<1>8. Sequence(t) /\ \A i \in DOMAIN t : ProperExample("gold", t[i])
  <2>1. \A i \in DOMAIN t : t[i] \in S
    BY <1>6, LenProperties
  <2>2. QED
    BY <1>6, <1>7, <2>1, SequenceOf
<1>9. Proper("gold", t)
  BY <1>6, <1>8 DEF Proper
<1>10. GoldExamples(c, pinned) = t
  BY DEF GoldExamples, t, ss
<1>11. QED
  BY <1>9, <1>10

\* Some of the rows of a proper list are one.
LEMMA ProperAt ==
    ASSUME NEW what, NEW rows, Proper(what, rows), NEW P \in SUBSET (DOMAIN rows)
    PROVE  Proper(what, At(rows, P))
BY AtList DEF Proper, Unique

\* A dataset has finitely many tasks and states.
LEMMA FiniteTasks ==
    ASSUME NEW rows, Sequence(rows)
    PROVE  IsFiniteSet(TasksOf(rows)) /\ IsFiniteSet(StatesOf(rows))
<1>1. IsFiniteSet(DOMAIN rows)
  <2>1. Len(rows) \in Nat /\ DOMAIN rows = 1 .. Len(rows)
    BY LenProperties DEF Sequence
  <2>2. QED
    BY <2>1, FS_Interval
<1> DEFINE f == [i \in DOMAIN rows |-> rows[i].task]
           g == [i \in DOMAIN rows |-> rows[i].id[2]]
<1>2. Range(f) = TasksOf(rows) /\ Range(g) = StatesOf(rows)
  BY DEF Range, TasksOf, StatesOf
<1>3. DOMAIN f = DOMAIN rows /\ f = [i \in DOMAIN f |-> f[i]]
      /\ DOMAIN g = DOMAIN rows /\ g = [i \in DOMAIN g |-> g[i]]
  OBVIOUS
<1> HIDE DEF f, g
<1>4. QED
  BY <1>1, <1>2, <1>3, FiniteRange

----------------------------------------------------------------------------
(* The converters                                                          *)

\* sft_grpo
LEMMA ConvertProper ==
    ASSUME NEW rows, Proper("gold", rows)
    PROVE  Proper("grpo", Convert(rows)) /\ TasksOf(Convert(rows)) = TasksOf(rows)
<1> DEFINE t == Convert(rows)
<1>1. Len(rows) \in Nat /\ DOMAIN rows = 1 .. Len(rows)
  BY SequenceOf DEF Proper, Sequence
<1>2. t = [i \in 1 .. Len(rows) |-> ConvertExample(rows[i])]
  BY <1>1 DEF Convert
<1>3. \A i \in 1 .. Len(rows) : ProperExample("gold", rows[i])
  BY <1>1 DEF Proper
<1>4. ASSUME NEW i \in 1 .. Len(rows)
      PROVE  /\ ProperExample("grpo", ConvertExample(rows[i]))
             /\ ConvertExample(rows[i]).id[2] = rows[i].id
  BY <1>3 DEF ProperExample, ConvertExample, Fields, Tag, Current, ReadsAreCurrent, WasPrompted,
     SourcesIn, ProtocolOf
<1> DEFINE S == {ConvertExample(rows[i]) : i \in 1 .. Len(rows)}
<1>5. t \in Seq(S)
  BY <1>1, <1>2
<1> HIDE DEF t, S
<1>6. Sequence(t) /\ DOMAIN t = 1 .. Len(rows)
  BY <1>2, <1>5, SequenceOf
<1>7. Unique(t)
  <2>1. ASSUME NEW i \in DOMAIN t, NEW j \in DOMAIN t, t[i].id = t[j].id PROVE i = j
    <3>1. rows[i].id = rows[j].id
      BY <1>2, <1>4, <1>6, <2>1
    <3>2. QED
      BY <1>1, <1>6, <3>1 DEF Proper, Unique
  <2>2. QED
    BY <2>1 DEF Unique
<1>8. \A i \in DOMAIN t : ProperExample("grpo", t[i])
  BY <1>2, <1>4, <1>6
<1>9. TasksOf(t) = TasksOf(rows)
  <2>1. \A i \in 1 .. Len(rows) : t[i].task = rows[i].task
    BY <1>2, <1>3 DEF ProperExample, ConvertExample, Fields
  <2>2. QED
    BY <1>1, <1>6, <2>1 DEF TasksOf
<1>10. QED
  BY <1>6, <1>7, <1>8, <1>9 DEF Proper, t

----------------------------------------------------------------------------
(* Lists that stay proper                                                  *)

\* A list of rows of a proper one, none twice, is proper.
LEMMA ProperDrawn ==
    ASSUME NEW what, NEW rows, Proper(what, rows), NEW t, Sequence(t), Unique(t), Drawn(t, rows)
    PROVE  Proper(what, t)
BY DEF Proper, Drawn

\* Two proper lists without a common id make one.
LEMMA ProperConcat ==
    ASSUME NEW what, NEW s, Proper(what, s), NEW t, Proper(what, t),
           \A p \in DOMAIN s, q \in DOMAIN t : s[p].id # t[q].id
    PROVE  Proper(what, s \o t)
<1> DEFINE u == s \o t
<1>0. Sequence(s) /\ Sequence(t)
  BY DEF Proper
<1>1. /\ Sequence(u)
      /\ \A m \in DOMAIN u : \/ m \in DOMAIN s /\ u[m] = s[m]
                             \/ m - Len(s) \in DOMAIN t /\ u[m] = t[m - Len(s)]
  BY <1>0, ConcatList
<1>2. Len(s) \in Nat /\ DOMAIN u = 1 .. Len(u) /\ Len(u) \in Nat
  BY <1>0, <1>1, ListFacts
<1> HIDE DEF u
<1>3. \A i \in DOMAIN u : ProperExample(what, u[i])
  BY <1>1 DEF Proper
<1>4. ASSUME NEW x \in DOMAIN u, NEW y \in DOMAIN u, u[x].id = u[y].id PROVE x = y
  <2>1. x \in Nat /\ y \in Nat
    BY <1>2
  <2>2. CASE x \in DOMAIN s /\ u[x] = s[x]
    BY <1>1, <1>4, <2>2 DEF Proper, Unique
  <2>3. CASE x - Len(s) \in DOMAIN t /\ u[x] = t[x - Len(s)]
    <3>1. y - Len(s) \in DOMAIN t /\ u[y] = t[y - Len(s)]
      BY <1>1, <1>4, <2>3
    <3>2. x - Len(s) = y - Len(s)
      BY <1>4, <2>3, <3>1 DEF Proper, Unique
    <3>3. QED
      BY <1>2, <2>1, <3>2
  <2>4. QED
    BY <1>1, <2>2, <2>3
<1>5. Unique(u)
  BY <1>4 DEF Unique
<1>6. QED
  BY <1>1, <1>3, <1>5 DEF Proper, u

\* A proper list backwards is one, of the same rows.
LEMMA ProperReverse ==
    ASSUME NEW what, NEW rows, Proper(what, rows)
    PROVE  Proper(what, Reverse(rows)) /\ Drawn(Reverse(rows), rows)
<1> DEFINE t == Reverse(rows)
           n == Len(rows)
<1>1. Sequence(rows) /\ n \in Nat /\ DOMAIN rows = 1 .. n
  BY ListFacts DEF Proper
<1>2. /\ Sequence(t) /\ Len(t) = n
      /\ \A i \in DOMAIN rows : (n - i) + 1 \in DOMAIN rows /\ t[i] = rows[(n - i) + 1]
  BY <1>1, ReverseList
<1> HIDE DEF t, n
<1>3. DOMAIN t = DOMAIN rows
  BY <1>1, <1>2, ListFacts
<1>4. ASSUME NEW i \in DOMAIN t, NEW j \in DOMAIN t, t[i].id = t[j].id PROVE i = j
  <2>1. (n - i) + 1 = (n - j) + 1
    BY <1>2, <1>3, <1>4 DEF Proper, Unique
  <2>2. QED
    BY <1>1, <1>3, <2>1
<1>5. Unique(t) /\ Drawn(t, rows)
  BY <1>2, <1>3, <1>4 DEF Unique, Drawn
<1>6. Proper(what, t)
  BY <1>2, <1>5, ProperDrawn
<1>7. QED
  BY <1>5, <1>6 DEF t

\* The rows of some kinds.
LEMMA ProperOfKind ==
    ASSUME NEW what, NEW rows, Proper(what, rows), NEW kinds
    PROVE  /\ Proper(what, OfKind(rows, kinds)) /\ Drawn(OfKind(rows, kinds), rows)
           /\ \A k \in DOMAIN OfKind(rows, kinds) : OfKind(rows, kinds)[k].target.kind \in kinds
<1> DEFINE P == {i \in DOMAIN rows : rows[i].target.kind \in kinds}
           t == At(rows, P)
<1>1. P \in SUBSET DOMAIN rows
  OBVIOUS
<1>2. \A i \in P : rows[i].target.kind \in kinds
  OBVIOUS
<1> HIDE DEF P
<1>3. Proper(what, t)
  BY <1>1, ProperAt
<1>4. \A k \in DOMAIN t : \E i \in P : t[k] = rows[i]
  BY <1>1, AtList DEF Proper
<1> HIDE DEF t
<1>5. Drawn(t, rows) /\ \A k \in DOMAIN t : t[k].target.kind \in kinds
  BY <1>1, <1>2, <1>4 DEF Drawn
<1>6. OfKind(rows, kinds) = t
  BY DEF OfKind, t, P
<1>7. QED
  BY <1>3, <1>5, <1>6

\* Sorting by hunk keeps a list proper, its rows and its length.
LEMMA ProperByHunk ==
    ASSUME NEW what \in {"gold", "grpo", "semantic"}, NEW rows, Proper(what, rows)
    PROVE  /\ Proper(what, ByHunk(rows)) /\ Drawn(ByHunk(rows), rows)
           /\ Len(ByHunk(rows)) = Len(rows)
<1>1. rows \in Seq(Range(rows)) /\ \A i \in DOMAIN rows : rows[i].hunk \in Nat
  BY DEF Proper, Sequence, ProperExample
<1> DEFINE t == ByHunk(rows)
<1>2. t \in Seq(Range(rows)) /\ Len(t) = Len(rows) /\ Chosen(t, rows, DOMAIN rows)
  BY <1>1, ByHunkFacts
<1> HIDE DEF t
<1>3. Sequence(t)
  BY <1>2, SequenceOf
<1>4. Drawn(t, rows)
  <2> DEFINE P == DOMAIN rows
             S == Range(rows)
  <2>1. t \in Seq(S) /\ Chosen(t, rows, P)
    BY <1>2
  <2> HIDE DEF P, S
  <2>2. \A k \in DOMAIN t : \E i \in P : t[k] = rows[i]
    BY <2>1, ChosenFacts
  <2>3. QED
    BY <2>2 DEF Drawn, P
<1>5. \A i, j \in DOMAIN rows : rows[i].id = rows[j].id => i = j
  BY DEF Proper, Unique
<1>6. Unique(t)
  BY <1>2, <1>5, ChosenFacts
<1>7. Proper(what, t)
  BY <1>3, <1>4, <1>6, ProperDrawn
<1>8. QED
  BY <1>2, <1>4, <1>7 DEF t

\* No call is made twice, and none that was made is missing.
LEMMA FreshStepsFacts ==
    ASSUME NEW steps, Sequence(steps)
    PROVE  /\ Sequence(FreshSteps(steps)) /\ Drawn(FreshSteps(steps), steps)
           /\ \A k, l \in DOMAIN FreshSteps(steps) :
                 FreshSteps(steps)[k].call = FreshSteps(steps)[l].call => k = l
<1> DEFINE P == {i \in DOMAIN steps : \A j \in 1 .. i - 1 : steps[j].call # steps[i].call}
           t == At(steps, P)
<1>1. P \in SUBSET DOMAIN steps
  OBVIOUS
<1>2. ASSUME NEW i \in P, NEW j \in P, steps[i].call = steps[j].call PROVE i = j
  <2>1. i \in Nat /\ j \in Nat /\ 1 <= i /\ 1 <= j
    BY ListFacts
  <2>2. ~(i < j) /\ ~(j < i)
    BY <1>2, <2>1
  <2>3. QED
    BY <2>1, <2>2
<1> HIDE DEF P
<1>3. Sequence(t) /\ Drawn(t, steps)
  <2>1. Sequence(t) /\ \A k \in DOMAIN t : \E i \in P : t[k] = steps[i]
    BY <1>1, AtList
  <2>2. QED
    BY <1>1, <2>1 DEF Drawn
<1>4. \A k, l \in DOMAIN t : t[k].call = t[l].call => k = l
  BY <1>1, <1>2, AtList
<1>5. FreshSteps(steps) = t
  BY DEF FreshSteps, P, t
<1> HIDE DEF t
<1>6. QED
  BY <1>3, <1>4, <1>5

\* The trajectory of one task.
LEMMA AccumulateFacts ==
    ASSUME NEW task, NEW rows, Proper("grpo", rows), rows # <<>>
    PROVE  /\ Sequence(Accumulate(task, rows))
           /\ \A k \in DOMAIN Accumulate(task, rows) :
                 /\ ProperExample("cumulative", Accumulate(task, rows)[k])
                 /\ Accumulate(task, rows)[k].id[2] = task /\ Accumulate(task, rows)[k].id[3] = k
<1> DEFINE ordered == ByHunk(rows)
           last    == Last(ordered)
           hs      == [i \in DOMAIN ordered |-> ordered[i].history]
           flat    == FlattenSeq(hs)
           steps   == FreshSteps(flat)
           called  == [i \in DOMAIN steps |-> steps[i].call]
           calls   == Append(called, last.content)
           example(k) == [last EXCEPT !.id = <<"cumulative", task, k, calls[k]>>,
                                      !.stage = "cumulative", !.history = SubSeq(steps, 1, k - 1),
                                      !.content = calls[k], !.target = calls[k]]
           t       == [k \in DOMAIN calls |-> example(k)]
<1>1. Accumulate(task, rows) = t
  BY DEF Accumulate
<1>2. Proper("grpo", ordered) /\ Len(ordered) = Len(rows)
  BY ProperByHunk
<1>3. Len(rows) \in Nat /\ Len(rows) > 0
  BY ListFacts DEF Proper
<1> HIDE DEF ordered
<1>4. Sequence(ordered) /\ Len(ordered) \in Nat /\ DOMAIN ordered = 1 .. Len(ordered)
  BY <1>2, ListFacts DEF Proper
<1>5. last \in Range(ordered) /\ \A i \in DOMAIN ordered : Sequence(ordered[i].history)
  BY <1>2, <1>3, <1>4 DEF Proper, ProperExample, Last, Range
<1>6. ProperExample("grpo", last)
  BY <1>2, <1>5 DEF Proper, Range
<1> HIDE DEF last
<1>7. Sequence(flat)
  <2>1. hs = [i \in 1 .. Len(ordered) |-> hs[i]] /\ \A i \in 1 .. Len(ordered) : Sequence(hs[i])
    BY <1>4, <1>5
  <2> HIDE DEF hs
  <2>2. QED
    BY <1>4, <2>1, FlattenLists
<1> HIDE DEF flat
<1>8. Sequence(steps)
  BY <1>7, FreshStepsFacts
<1> HIDE DEF steps
<1>9. Sequence(called)
  <2>1. Len(steps) \in Nat /\ called = [i \in 1 .. Len(steps) |-> called[i]]
    BY <1>8, ListFacts
  <2> HIDE DEF called
  <2>2. QED
    BY <2>1, FunctionList
<1> HIDE DEF called
<1>10. Len(calls) \in Nat /\ DOMAIN calls = 1 .. Len(calls)
  BY <1>9, AppendList, ListFacts
<1> HIDE DEF calls
<1>11. ASSUME NEW k \in DOMAIN calls
       PROVE  ProperExample("cumulative", example(k)) /\ example(k).id[2] = task /\ example(k).id[3] = k
  BY <1>6 DEF ProperExample, Fields, SourcesIn, ProtocolOf
<1>12. t = [k \in 1 .. Len(calls) |-> t[k]] /\ \A k \in DOMAIN calls : t[k] = example(k)
  BY <1>10
<1> HIDE DEF t, example
<1>13. Sequence(t) /\ DOMAIN t = DOMAIN calls
  BY <1>10, <1>12, FunctionList
<1>14. \A k \in DOMAIN t : /\ ProperExample("cumulative", t[k])
                          /\ t[k].id[2] = task /\ t[k].id[3] = k
  <2>1. ASSUME NEW k \in DOMAIN t
        PROVE  ProperExample("cumulative", t[k]) /\ t[k].id[2] = task /\ t[k].id[3] = k
    <3>1. k \in DOMAIN calls /\ t[k] = example(k)
      BY <1>12, <1>13
    <3>2. QED
      BY <1>11, <3>1
  <2>2. QED
    BY <2>1
<1>15. QED
  BY <1>1, <1>13, <1>14

\* sft_cumulative
LEMMA CumulativeProper ==
    ASSUME NEW rows, Proper("grpo", rows)
    PROVE  Proper("cumulative", Cumulative(rows))
<1> DEFINE verify == OfStage(rows, "verify")
           tasks  == SetToSeq(TasksOf(verify))
           n      == Len(tasks)
           ss     == [i \in DOMAIN tasks |-> Accumulate(tasks[i], OfTask(verify, tasks[i]))]
<1>1. Proper("grpo", verify)
  BY ProperAt DEF OfStage
<1> HIDE DEF verify
<1>2. IsFiniteSet(TasksOf(verify))
  BY <1>1, FiniteTasks DEF Proper
<1>3. /\ tasks \in Seq(TasksOf(verify))
      /\ \A i, j \in DOMAIN tasks : tasks[i] = tasks[j] => i = j
  BY <1>2, SetToSeqFacts
<1>4. n \in Nat /\ DOMAIN tasks = 1 .. n /\ \A i \in 1 .. n : tasks[i] \in TasksOf(verify)
  BY <1>3, LenProperties
<1> HIDE DEF tasks
<1>5. ASSUME NEW task \in TasksOf(verify)
      PROVE  Proper("grpo", OfTask(verify, task)) /\ OfTask(verify, task) # <<>>
  <2> DEFINE P == {i \in DOMAIN verify : verify[i].task = task}
             t == At(verify, P)
  <2>1. P \in SUBSET DOMAIN verify
    OBVIOUS
  <2>2. PICK i \in DOMAIN verify : i \in P
    BY DEF TasksOf
  <2> HIDE DEF P
  <2>3. Proper("grpo", t)
    BY <1>1, <2>1, ProperAt
  <2>4. \A j \in P : \E k \in DOMAIN t : t[k] = verify[j]
    BY <1>1, <2>1, AtList DEF Proper
  <2> HIDE DEF t
  <2>5. t # <<>>
    BY <2>2, <2>4
  <2>6. QED
    BY <2>3, <2>5 DEF OfTask, t, P
<1>6. ASSUME NEW i \in 1 .. n
      PROVE  /\ Sequence(ss[i])
             /\ \A k \in DOMAIN ss[i] : /\ ProperExample("cumulative", ss[i][k])
                                        /\ ss[i][k].id[2] = tasks[i] /\ ss[i][k].id[3] = k
  <2> DEFINE task == tasks[i]
             of   == OfTask(verify, task)
  <2>1. Proper("grpo", of) /\ of # <<>>
    BY <1>4, <1>5
  <2>2. ss[i] = Accumulate(task, of)
    BY <1>4
  <2> HIDE DEF of, task
  <2>3. /\ Sequence(Accumulate(task, of))
        /\ \A k \in DOMAIN Accumulate(task, of) :
              /\ ProperExample("cumulative", Accumulate(task, of)[k])
              /\ Accumulate(task, of)[k].id[2] = task /\ Accumulate(task, of)[k].id[3] = k
    BY ONLY <2>1, AccumulateFacts
  <2> HIDE DEF ss
  <2>4. QED
    BY <2>2, <2>3 DEF task
<1>7. ss = [i \in 1 .. n |-> ss[i]]
  BY <1>4
<1> HIDE DEF ss
<1> DEFINE t == FlattenSeq(ss)
<1>8. ASSUME NEW i \in 1 .. n, NEW j \in 1 .. n, NEW p \in DOMAIN ss[i], NEW q \in DOMAIN ss[j],
             ss[i][p].id = ss[j][q].id
      PROVE  i = j /\ p = q
  <2>1. tasks[i] = tasks[j] /\ p = q
    BY <1>6, <1>8
  <2>2. QED
    BY <1>3, <1>4, <2>1
<1> HIDE DEF n
<1>9. Apart(ss) /\ \A i \in 1 .. n : Sequence(ss[i])
  BY <1>6, <1>7, <1>8 DEF Apart
<1>10. Sequence(t) /\ Unique(t) /\ PiecesOf(t, ss)
  BY <1>4, <1>7, <1>9, FlattenLists
<1>11. Cumulative(rows) = t
  BY DEF Cumulative, t, ss, tasks, verify
<1> HIDE DEF t
<1>12. \A m \in DOMAIN t : ProperExample("cumulative", t[m])
  BY <1>6, <1>7, <1>10 DEF PiecesOf
<1>13. QED
  BY <1>10, <1>11, <1>12 DEF Proper

\* So does a trajectory after any of its steps.
LEMMA ReadsMatchSteps ==
    ASSUME NEW task, NEW prefix, Sequence(prefix), NEW steps, Sequence(steps),
           ReadsMatch(task, prefix \o steps), NEW n \in 0 .. Len(steps)
    PROVE  ReadsMatch(task, prefix \o SubSeq(steps, 1, n))
<1> DEFINE S == Range(prefix) \cup Range(steps)
           m == Len(prefix)
           whole == prefix \o steps
           part  == prefix \o SubSeq(steps, 1, n)
<1>0. Range(prefix) \subseteq S /\ Range(steps) \subseteq S
  OBVIOUS
<1> HIDE DEF S
<1>1. prefix \in Seq(S) /\ steps \in Seq(S)
  BY <1>0, SeqMonotonic DEF Sequence
<1>2. m \in Nat /\ Len(steps) \in Nat
  BY <1>1, LenProperties
<1>3. /\ whole \in Seq(S) /\ Len(whole) = m + Len(steps)
      /\ \A i \in 1 .. m + Len(steps) : whole[i] = IF i <= m THEN prefix[i] ELSE steps[i - m]
  BY <1>1, ConcatProperties
<1>4. /\ SubSeq(steps, 1, n) \in Seq(S) /\ Len(SubSeq(steps, 1, n)) = n
      /\ \A i \in 1 .. n : SubSeq(steps, 1, n)[i] = steps[i]
  BY <1>1, <1>2, SubSeqProperties
<1>5. /\ part \in Seq(S) /\ Len(part) = m + n
      /\ \A i \in 1 .. m + n : part[i] = IF i <= m THEN prefix[i] ELSE SubSeq(steps, 1, n)[i - m]
  BY <1>1, <1>4, ConcatProperties
<1> HIDE DEF whole, part, m
<1>6. \A i \in 1 .. m + n : part[i] = whole[i]
  <2>1. TAKE i \in 1 .. m + n
  <2>2. CASE i <= m
    BY <1>2, <1>3, <1>5, <2>2
  <2>3. CASE i > m
    <3>1. i - m \in 1 .. n /\ i \in 1 .. m + Len(steps)
      BY <1>2, <2>3
    <3>2. QED
      BY <1>2, <1>3, <1>4, <1>5, <2>3, <3>1
  <2>4. QED
    BY <1>2, <2>2, <2>3
<1>7. Sequence(whole) /\ m + n \in 0 .. Len(whole)
  BY <1>2, <1>3, SequenceOf
<1>8. /\ SubSeq(whole, 1, m + n) \in Seq(S) /\ Len(SubSeq(whole, 1, m + n)) = m + n
      /\ \A i \in 1 .. m + n : SubSeq(whole, 1, m + n)[i] = whole[i]
  BY <1>2, <1>3, <1>7, SubSeqProperties
<1>9. SubSeq(whole, 1, m + n) = part
  BY <1>5, <1>6, <1>8, SeqEqual
<1>10. QED
  BY <1>7, <1>9, ReadsMatchPrefix DEF whole, part

\* sft_semantic_recovery
LEMMA SemanticProper ==
    ASSUME NEW trajectories, Sequence(trajectories), ~SemanticRefused(trajectories),
           \A i \in DOMAIN trajectories :
              /\ Sequence(trajectories[i].prefix) /\ Sequence(trajectories[i].steps)
              /\ ReadsMatch(trajectories[i].task, trajectories[i].prefix \o trajectories[i].steps)
    PROVE  Proper("semantic", Semantic(trajectories))
<1> DEFINE n  == Len(trajectories)
           ss == [i \in DOMAIN trajectories |-> TeacherExamples(trajectories[i])]
           t  == FlattenSeq(ss)
<1>1. n \in Nat /\ DOMAIN trajectories = 1 .. n
  BY ListFacts
<1>2. \A i \in 1 .. n : /\ trajectories[i].task \in Train
                        /\ \A j \in 1 .. i - 1 : trajectories[j].state # trajectories[i].state
  BY <1>1 DEF SemanticRefused
<1>3. ss = [i \in 1 .. n |-> ss[i]] /\ \A i \in 1 .. n : ss[i] = TeacherExamples(trajectories[i])
  BY <1>1
<1> HIDE DEF ss
<1>4. ASSUME NEW i \in 1 .. n
      PROVE  /\ Sequence(ss[i])
             /\ \A k \in DOMAIN ss[i] : /\ ProperExample("semantic", ss[i][k])
                                        /\ ss[i][k].id[2] = trajectories[i].state /\ ss[i][k].id[3] = k
  <2> DEFINE x == trajectories[i]
             m == Len(x.steps)
  <2>1. /\ m \in Nat /\ DOMAIN x.steps = 1 .. m /\ x.task \in Train
        /\ Sequence(x.prefix) /\ Sequence(x.steps) /\ ReadsMatch(x.task, x.prefix \o x.steps)
    BY <1>1, <1>2, ListFacts
  <2>2. ss[i] = [k \in 1 .. m |-> TeacherExample(x, k)]
    BY <1>3, <2>1 DEF TeacherExamples
  <2> HIDE DEF x, m
  <2>3. ss[i] = [k \in 1 .. m |-> ss[i][k]]
    BY <2>2
  <2>4. Sequence(ss[i]) /\ DOMAIN ss[i] = 1 .. m
    BY <2>1, <2>3, FunctionList
  <2>5. ASSUME NEW k \in 1 .. m
        PROVE  /\ ProperExample("semantic", TeacherExample(x, k))
               /\ TeacherExample(x, k).id[2] = x.state /\ TeacherExample(x, k).id[3] = k
    <3>1. ReadsMatch(x.task, x.prefix \o SubSeq(x.steps, 1, k - 1))
      <4>1. k - 1 \in 0 .. Len(x.steps)
        BY <2>1 DEF m
      <4>2. QED
        BY <2>1, <4>1, ReadsMatchSteps
    <3>2. QED
      BY <2>1, <3>1 DEF TeacherExample, ProperExample, Fields, Tag, Current, ReadsAreCurrent,
         WasPrompted, SourcesIn, ProtocolOf
  <2>6. QED
    BY <2>2, <2>4, <2>5 DEF x
<1>5. ASSUME NEW i \in 1 .. n, NEW j \in 1 .. n, NEW p \in DOMAIN ss[i], NEW q \in DOMAIN ss[j],
             ss[i][p].id = ss[j][q].id
      PROVE  i = j /\ p = q
  <2>1. trajectories[i].state = trajectories[j].state /\ p = q
    BY <1>4, <1>5
  <2>2. ~(i < j) /\ ~(j < i)
    BY <1>1, <1>2, <2>1
  <2>3. QED
    BY <1>1, <2>1, <2>2
<1> HIDE DEF n
<1>6. Apart(ss) /\ \A i \in 1 .. n : Sequence(ss[i])
  BY <1>3, <1>4, <1>5 DEF Apart
<1>7. Sequence(t) /\ Unique(t) /\ PiecesOf(t, ss)
  BY <1>1, <1>3, <1>6, FlattenLists
<1>8. Semantic(trajectories) = t
  BY DEF Semantic, t, ss
<1> HIDE DEF t
<1>9. \A m \in DOMAIN t : ProperExample("semantic", t[m])
  BY <1>3, <1>4, <1>7 DEF PiecesOf
<1>10. QED
  BY <1>7, <1>8, <1>9 DEF Proper

\* The first read of a path is an example of its task.
LEMMA HeadOfReads ==
    ASSUME NEW rows, Proper("grpo", rows), NEW task, NEW path, Reads(rows, task, path) # <<>>
    PROVE  /\ ProperExample("grpo", Head(Reads(rows, task, path)))
           /\ Head(Reads(rows, task, path)).task = task
<1> DEFINE P == {i \in DOMAIN rows : /\ rows[i].task = task
                                     /\ rows[i].target.kind = "read_file"
                                     /\ rows[i].target.path = path}
           t == At(rows, P)
<1>1. P \in SUBSET DOMAIN rows /\ \A i \in P : rows[i].task = task
  OBVIOUS
<1> HIDE DEF P
<1>2. Proper("grpo", t)
  BY <1>1, ProperAt
<1>3. \A k \in DOMAIN t : \E i \in P : t[k] = rows[i]
  BY <1>1, AtList DEF Proper
<1>4. Reads(rows, task, path) = t
  BY DEF Reads, t, P
<1> HIDE DEF t
<1>5. Len(t) \in Nat /\ Len(t) > 0 /\ DOMAIN t = 1 .. Len(t) /\ Head(t) = t[1]
  BY <1>2, <1>4, ListFacts DEF Proper
<1>6. 1 \in DOMAIN t
  BY <1>5
<1>7. QED
  BY <1>1, <1>2, <1>3, <1>4, <1>5, <1>6 DEF Proper

\* sft_recovery
LEMMA RecoveryProper ==
    ASSUME NEW rows, Proper("grpo", rows), NEW traces, Sequence(traces), NEW task, NEW path,
           Reads(rows, task, path) # <<>>
    PROVE  /\ Proper("recovery", Recovery(rows, traces, task, path))
           /\ TasksOf(Recovery(rows, traces, task, path)) \subseteq {task} /\ task \in Train
<1> DEFINE target == Head(Reads(rows, task, path))
           P      == {i \in DOMAIN traces : /\ traces[i].task = task
                                            /\ traces[i].call.kind = "search_text"
                                            /\ path \in traces[i].observation.suggested}
           useful == At(traces, P)
           found  == [i \in DOMAIN useful |-> Step(useful[i].call, useful[i].observation)]
           steps  == FreshSteps(found)
           example(i) == [target EXCEPT !.id = <<"recovery", task, steps[i].call, path>>,
                                        !.stage = "recovery", !.history = <<steps[i]>>]
           t      == [i \in DOMAIN steps |-> example(i)]
<1>1. Recovery(rows, traces, task, path) = t
  BY DEF Recovery
<1>2. ProperExample("grpo", target) /\ target.task = task
  BY HeadOfReads
<1> HIDE DEF target
<1>3. P \in SUBSET DOMAIN traces /\ \A i \in P : traces[i].call.kind = "search_text"
  OBVIOUS
<1> HIDE DEF P
<1>4. Sequence(useful) /\ \A k \in DOMAIN useful : \E i \in P : useful[k] = traces[i]
  BY <1>3, AtList
<1> HIDE DEF useful
<1>5. Sequence(found) /\ \A i \in DOMAIN found : found[i].call.kind = "search_text"
  <2>1. Len(useful) \in Nat /\ found = [i \in 1 .. Len(useful) |-> found[i]]
        /\ DOMAIN useful = 1 .. Len(useful)
    BY <1>4, ListFacts
  <2>2. \A i \in DOMAIN useful : found[i].call.kind = "search_text"
    BY <1>3, <1>4 DEF Step
  <2> HIDE DEF found
  <2>3. QED
    BY <2>1, <2>2, FunctionList
<1> HIDE DEF found
<1>6. /\ Sequence(steps)
      /\ \A k, l \in DOMAIN steps : steps[k].call = steps[l].call => k = l
      /\ \A k \in DOMAIN steps : steps[k].call.kind = "search_text"
  BY <1>5, FreshStepsFacts DEF Drawn
<1> HIDE DEF steps
<1>7. Len(steps) \in Nat /\ DOMAIN steps = 1 .. Len(steps)
  BY <1>6, ListFacts
<1>8. ASSUME NEW i \in DOMAIN steps
      PROVE  /\ ProperExample("recovery", example(i)) /\ example(i).id[3] = steps[i].call
             /\ example(i).task = task
  <2>1. ReadsMatch(example(i).task, <<steps[i]>>)
    BY <1>6 DEF ReadsMatch, IsShownRead
  <2>2. QED
    BY <1>2, <2>1 DEF ProperExample, Fields, Current, ReadsAreCurrent, WasPrompted, SourcesIn, ProtocolOf
<1>9. t = [i \in 1 .. Len(steps) |-> t[i]] /\ \A i \in DOMAIN steps : t[i] = example(i)
  BY <1>7
<1> HIDE DEF t, example
<1>10. Sequence(t) /\ DOMAIN t = DOMAIN steps
  BY <1>7, <1>9, FunctionList
<1>11. \A i \in DOMAIN t : /\ ProperExample("recovery", t[i]) /\ t[i].id[3] = steps[i].call
                          /\ t[i].task = task
  <2>1. ASSUME NEW i \in DOMAIN t
        PROVE  /\ ProperExample("recovery", t[i]) /\ t[i].id[3] = steps[i].call
               /\ t[i].task = task
    <3>1. i \in DOMAIN steps /\ t[i] = example(i)
      BY <1>9, <1>10
    <3>2. QED
      BY <1>8, <3>1
  <2>2. QED
    BY <2>1
<1>12. Unique(t)
  BY <1>6, <1>10, <1>11 DEF Unique
<1>13. TasksOf(t) \subseteq {task} /\ task \in Train
  BY <1>2, <1>11 DEF TasksOf, ProperExample
<1>14. QED
  BY <1>1, <1>10, <1>11, <1>12, <1>13 DEF Proper

----------------------------------------------------------------------------
(* sft_navigation                                                          *)

\* A navigation row, of a task the report lists.
Guides(examples, e) == ProperExample("navigation", e) /\ e.task \in Selected(examples)

\* Whatever call, and whatever history that matches, a row of navigation is given, the
\* trainer takes it.
LEMMA NavigateGuides ==
    ASSUME NEW rows, NEW template, ProperExample("grpo", template), template.task \in Selected(rows),
           NEW history, template.real => ReadsMatch(template.task, history)
    PROVE  /\ Guides(rows, Navigate(template, history, template.content))
           /\ \A call : Guides(rows, Bridge(template, history, call))
BY DEF Guides, Navigate, Bridge, ProperExample, Fields, Current, ReadsAreCurrent, WasPrompted, SourcesIn,
   ProtocolOf

\* The inspect rows, which all read a file.
LEMMA InspectedFacts ==
    ASSUME NEW rows, Proper("grpo", rows)
    PROVE  /\ Proper("grpo", Inspected(rows))
           /\ \A i \in DOMAIN Inspected(rows) :
                 \E j \in DOMAIN rows : Inspected(rows)[i] = rows[j] /\ rows[j].stage = "inspect"
<1> DEFINE P == {i \in DOMAIN rows : rows[i].stage = "inspect"}
           t == At(rows, P)
<1>1. P \in SUBSET DOMAIN rows /\ \A i \in P : rows[i].stage = "inspect"
  OBVIOUS
<1> HIDE DEF P
<1>2. Proper("grpo", t)
  BY <1>1, ProperAt
<1>3. \A k \in DOMAIN t : \E i \in P : t[k] = rows[i]
  BY <1>1, AtList DEF Proper
<1>4. Inspected(rows) = t
  BY DEF Inspected, OfStage, t, P
<1> HIDE DEF t
<1>5. QED
  BY <1>1, <1>2, <1>3, <1>4

\* A path of the patch is a path some example reads.
LEMMA GoldPathsAreRead ==
    ASSUME NEW rows, Proper("grpo", rows), NEW task
    PROVE  /\ IsFiniteSet(GoldPaths(rows, task))
           /\ \A path \in GoldPaths(rows, task) : Reads(rows, task, path) # <<>>
<1> DEFINE inspected == Inspected(rows)
           P  == {i \in DOMAIN inspected : inspected[i].task = task}
           of == At(inspected, P)
           f  == [i \in DOMAIN of |-> of[i].target.path]
<1>1. /\ Proper("grpo", inspected)
      /\ \A i \in DOMAIN inspected : \E j \in DOMAIN rows : inspected[i] = rows[j] /\ rows[j].stage = "inspect"
  BY InspectedFacts
<1>2. GoldPaths(rows, task) = Range(f)
  BY DEF GoldPaths, OfTask, Range
<1> HIDE DEF inspected
<1>3. P \in SUBSET DOMAIN inspected /\ \A i \in P : inspected[i].task = task
  OBVIOUS
<1> HIDE DEF P
<1>4. Sequence(of) /\ \A k \in DOMAIN of : \E i \in P : of[k] = inspected[i]
  BY <1>1, <1>3, AtList DEF Proper
<1> HIDE DEF of
<1>5. IsFiniteSet(Range(f))
  <2>1. Len(of) \in Nat /\ DOMAIN f = 1 .. Len(of) /\ f = [i \in DOMAIN f |-> f[i]]
    BY <1>4, ListFacts
  <2> HIDE DEF f
  <2>2. QED
    BY <2>1, FS_Interval, FiniteRange
<1>6. ASSUME NEW path \in Range(f) PROVE Reads(rows, task, path) # <<>>
  <2>1. PICK k \in DOMAIN of : path = of[k].target.path
    BY DEF Range
  <2>2. PICK i \in P : of[k] = inspected[i]
    BY <1>4
  <2>3. PICK j \in DOMAIN rows : inspected[i] = rows[j] /\ rows[j].stage = "inspect"
    BY <1>1, <1>3
  <2>4. rows[j].task = task /\ rows[j].target.kind = "read_file" /\ rows[j].target.path = path
    BY <1>3, <2>1, <2>2, <2>3 DEF Proper, ProperExample
  <2> DEFINE R == {m \in DOMAIN rows : /\ rows[m].task = task
                                       /\ rows[m].target.kind = "read_file"
                                       /\ rows[m].target.path = path}
             t == At(rows, R)
  <2>5. R \in SUBSET DOMAIN rows /\ j \in R
    BY <2>4
  <2> HIDE DEF R
  <2>6. \A m \in R : \E l \in DOMAIN t : t[l] = rows[m]
    BY <2>5, AtList DEF Proper
  <2> HIDE DEF t
  <2>7. t # <<>>
    BY <2>5, <2>6
  <2>8. QED
    BY <2>7 DEF Reads, t, R
<1>7. QED
  BY <1>2, <1>5, <1>6

\* A list of navigation rows.
Guided(examples, t) == Sequence(t) /\ \A k \in DOMAIN t : Guides(examples, t[k])

\* Two lists of navigation rows make one.
LEMMA GuidedConcat ==
    ASSUME NEW rows, NEW s, Guided(rows, s), NEW t, Guided(rows, t)
    PROVE  Guided(rows, s \o t)
<1> DEFINE u == s \o t
<1>1. /\ Sequence(u)
      /\ \A m \in DOMAIN u : \/ m \in DOMAIN s /\ u[m] = s[m]
                             \/ m - Len(s) \in DOMAIN t /\ u[m] = t[m - Len(s)]
  BY ConcatList DEF Guided
<1> HIDE DEF u
<1>2. Guided(rows, u)
  BY <1>1 DEF Guided
<1>3. QED
  BY <1>2 DEF u

\* So do many.
LEMMA GuidedFlatten ==
    ASSUME NEW rows, NEW n \in Nat, NEW ss, ss = [i \in 1 .. n |-> ss[i]],
           \A i \in 1 .. n : Guided(rows, ss[i])
    PROVE  Guided(rows, FlattenSeq(ss))
<1>1. \A i \in 1 .. n : Sequence(ss[i])
  BY DEF Guided
<1>2. Sequence(FlattenSeq(ss)) /\ PiecesOf(FlattenSeq(ss), ss)
  BY <1>1, FlattenLists
<1>3. DOMAIN ss = 1 .. n
  OBVIOUS
<1>4. QED
  BY <1>2, <1>3 DEF Guided, PiecesOf

\* What one step of a session gives for one path of the patch.
LEMMA SessionStepGuides ==
    ASSUME NEW rows, Proper("grpo", rows), NEW task \in Selected(rows),
           NEW path \in GoldPaths(rows, task), NEW steps, Sequence(steps), ReadsMatch(task, steps),
           NEW k \in 1 .. Len(steps)
    PROVE  Guided(rows, SessionStep(rows, task, steps, k, path))
<1> DEFINE target == Head(Reads(rows, task, path))
           before == SubSeq(steps, 1, k - 1)
           seen   == steps[k].observation
           a == IF path \in seen.imports THEN <<Bridge(target, before, steps[k].call)>> ELSE <<>>
           b == IF path \in seen.imports \cup seen.paths \cup seen.suggested
                THEN <<Navigate(target, SubSeq(steps, 1, k), target.content)>> ELSE <<>>
<1>1. ProperExample("grpo", target) /\ target.task = task
  BY GoldPathsAreRead, HeadOfReads
<1> HIDE DEF target
<1>2. /\ Guides(rows, Navigate(target, SubSeq(steps, 1, k), target.content))
      /\ Guides(rows, Bridge(target, before, steps[k].call))
  <2>1. Len(steps) \in Nat
    BY ListFacts
  <2>2. k \in 0 .. Len(steps) /\ k - 1 \in 0 .. Len(steps)
    BY <2>1
  <2>3. ReadsMatch(task, SubSeq(steps, 1, k)) /\ ReadsMatch(task, before)
    BY <2>2, ReadsMatchPrefix
  <2>4. QED
    BY <1>1, <2>3, NavigateGuides
<1>3. Guided(rows, <<>>) /\ \A x : Guides(rows, x) => Guided(rows, <<x>>)
  BY SmallLists DEF Guided
<1>4. Guided(rows, a) /\ Guided(rows, b)
  BY <1>2, <1>3
<1>5. SessionStep(rows, task, steps, k, path) = a \o b
  BY DEF SessionStep, target
<1> HIDE DEF a, b
<1>6. QED
  BY <1>4, <1>5, GuidedConcat

\* What a session gives.
LEMMA SessionGuides ==
    ASSUME NEW rows, Proper("grpo", rows), NEW session, Sequence(session),
           session[1].task \in Selected(rows), ReadsMatch(session[1].task, StepsOf(session))
    PROVE  Guided(rows, SessionExamples(rows, session))
<1> DEFINE steps == StepsOf(session)
           task  == session[1].task
           paths == SetToSeq(GoldPaths(rows, task))
           until == {k \in 1 .. Smaller(Len(steps), MaxPrefix) :
                        \A j \in 1 .. k - 1 : ~EndsPrefix(steps[j].call)}
           m     == Cardinality(until)
           n     == Len(paths)
           of(k) == [p \in DOMAIN paths |-> SessionStep(rows, task, steps, k, paths[p])]
           ss    == [k \in 1 .. m |-> FlattenSeq(of(k))]
<1>1. SessionExamples(rows, session) = FlattenSeq(ss)
  BY DEF SessionExamples
<1>a. Sequence(steps) /\ Len(steps) \in Nat
  <2>1. Len(session) \in Nat /\ steps = [i \in 1 .. Len(session) |-> steps[i]]
    BY ListFacts DEF StepsOf
  <2> HIDE DEF steps
  <2>2. QED
    BY <2>1, FunctionList
<1>2. m \in Nat /\ m <= Len(steps)
  <2>1. Len(steps) \in Nat
    BY <1>a
  <2>2. Smaller(Len(steps), MaxPrefix) \in Nat /\ Smaller(Len(steps), MaxPrefix) <= Len(steps)
    BY <2>1 DEF Smaller, MaxPrefix
  <2>3. IsFiniteSet(until) /\ Cardinality(until) <= Smaller(Len(steps), MaxPrefix)
    <3> DEFINE top == Smaller(Len(steps), MaxPrefix)
    <3>1. until \in SUBSET (1 .. top)
      OBVIOUS
    <3>2. IsFiniteSet(1 .. top) /\ Cardinality(1 .. top) = top
      BY <2>2, FS_Interval
    <3> HIDE DEF until, top
    <3>3. IsFiniteSet(until) /\ Cardinality(until) <= top
      BY <3>1, <3>2, FS_Subset
    <3>4. QED
      BY <3>3 DEF top
  <2>4. m \in Nat
    BY <2>3, FS_CardinalityType
  <2> HIDE DEF until
  <2>5. QED
    BY <2>1, <2>2, <2>3, <2>4
<1> HIDE DEF m, until, steps
<1>3. n \in Nat /\ DOMAIN paths = 1 .. n /\ \A p \in 1 .. n : paths[p] \in GoldPaths(rows, task)
  <2>1. paths \in Seq(GoldPaths(rows, task))
    BY GoldPathsAreRead, SetToSeqFacts
  <2>2. QED
    BY <2>1, LenProperties
<1> HIDE DEF paths, n, task
<1>4. ASSUME NEW k \in 1 .. m PROVE Guided(rows, ss[k])
  <2> DEFINE inner == of(k)
  <2>1. inner = [p \in 1 .. n |-> inner[p]]
    BY <1>3
  <2>a. k \in 1 .. Len(steps) /\ ReadsMatch(task, steps) /\ task \in Selected(rows)
    BY <1>2, <1>a DEF task, steps
  <2>2. \A p \in 1 .. n : Guided(rows, inner[p])
    BY <1>3, <1>a, <2>a, SessionStepGuides
  <2>3. ss[k] = FlattenSeq(inner)
    OBVIOUS
  <2> HIDE DEF inner, ss
  <2>4. QED
    BY <1>3, <2>1, <2>2, <2>3, GuidedFlatten
<1>5. ss = [k \in 1 .. m |-> ss[k]]
  OBVIOUS
<1> HIDE DEF ss
<1>6. QED
  BY <1>1, <1>2, <1>4, <1>5, GuidedFlatten

\* _append keeps the first example of each id.
LEMMA FirstOfEachFacts ==
    ASSUME NEW examples, Sequence(examples)
    PROVE  /\ Sequence(FirstOfEach(examples)) /\ Unique(FirstOfEach(examples))
           /\ Drawn(FirstOfEach(examples), examples)
<1> DEFINE P == {i \in DOMAIN examples : \A j \in 1 .. i - 1 : examples[j].id # examples[i].id}
           t == At(examples, P)
<1>1. P \in SUBSET DOMAIN examples
  OBVIOUS
<1>2. ASSUME NEW i \in P, NEW j \in P, examples[i].id = examples[j].id PROVE i = j
  <2>1. i \in Nat /\ j \in Nat /\ 1 <= i /\ 1 <= j
    BY ListFacts
  <2>2. ~(i < j) /\ ~(j < i)
    BY <1>2, <2>1
  <2>3. QED
    BY <2>1, <2>2
<1> HIDE DEF P
<1>3. Sequence(t)
  BY <1>1, AtList
<1>4. Unique(t)
  BY <1>1, <1>2, AtList
<1>5. \A k \in DOMAIN t : \E i \in P : t[k] = examples[i]
  BY <1>1, AtList
<1>6. FirstOfEach(examples) = t
  BY DEF FirstOfEach, P, t
<1> HIDE DEF t
<1>7. QED
  BY <1>1, <1>3, <1>4, <1>5, <1>6 DEF Drawn

\* sft_navigation: its rows are of the tasks its report lists, which are of the train split.
LEMMA NavigationProper ==
    ASSUME NEW rows, Proper("grpo", rows), NEW sessions, Sequence(sessions),
           \A i \in DOMAIN sessions : /\ Sequence(sessions[i])
                                      /\ ReadsMatch(sessions[i][1].task, StepsOf(sessions[i]))
    PROVE  /\ Proper("navigation", Navigation(rows, sessions))
           /\ TasksOf(Navigation(rows, sessions)) \subseteq Selected(rows)
           /\ Selected(rows) \subseteq Train
<1> DEFINE inspected == Inspected(rows)
           P    == {i \in DOMAIN inspected : inspected[i].task \in Selected(rows)}
           gold == At(inspected, P)
           Q    == {i \in DOMAIN sessions : sessions[i][1].task \in Selected(rows)}
           used == At(sessions, Q)
           a    == [i \in DOMAIN gold |-> Navigate(gold[i], gold[i].history, gold[i].content)]
           ss   == [i \in DOMAIN used |-> SessionExamples(rows, used[i])]
           b    == FlattenSeq(ss)
           t    == FirstOfEach(a \o b)
<1>1. Navigation(rows, sessions) = t
  BY DEF Navigation
<1>2. Proper("grpo", inspected) /\ \A i \in DOMAIN inspected : inspected[i].stage = "inspect"
  BY InspectedFacts
<1>3. Selected(rows) \subseteq Train
  BY <1>2 DEF Selected, TasksOf, Proper, ProperExample
<1> HIDE DEF inspected
<1>4. P \in SUBSET DOMAIN inspected /\ \A i \in P : inspected[i].task \in Selected(rows)
  OBVIOUS
<1> HIDE DEF P
<1>5. /\ Proper("grpo", gold)
      /\ \A k \in DOMAIN gold : gold[k].task \in Selected(rows) /\ gold[k].stage = "inspect"
  <2>1. Proper("grpo", gold)
    BY <1>2, <1>4, ProperAt
  <2>2. \A k \in DOMAIN gold : \E i \in P : gold[k] = inspected[i]
    BY <1>2, <1>4, AtList DEF Proper
  <2> HIDE DEF gold
  <2>3. QED
    BY <1>2, <1>4, <2>1, <2>2
<1> HIDE DEF gold
<1>6. Guided(rows, a)
  <2>1. Len(gold) \in Nat /\ DOMAIN gold = 1 .. Len(gold)
    BY <1>5, ListFacts DEF Proper
  <2>2. a = [i \in 1 .. Len(gold) |-> a[i]]
    BY <2>1
  <2>3. \A i \in 1 .. Len(gold) : Guides(rows, a[i])
    <3>1. ASSUME NEW i \in 1 .. Len(gold) PROVE Guides(rows, a[i])
      <4>1. /\ ProperExample("grpo", gold[i]) /\ gold[i].task \in Selected(rows)
            /\ gold[i].stage = "inspect"
        BY <1>5, <2>1 DEF Proper
      <4>2. gold[i].real => ReadsMatch(gold[i].task, gold[i].history)
        BY <4>1 DEF ProperExample, Current, ReadsAreCurrent, WasPrompted
      <4>3. a[i] = Navigate(gold[i], gold[i].history, gold[i].content)
        BY <2>1
      <4>4. QED
        BY <4>1, <4>2, <4>3, NavigateGuides
    <3>2. QED
      BY <3>1
  <2> HIDE DEF a
  <2>4. Sequence(a) /\ DOMAIN a = 1 .. Len(gold)
    BY <2>1, <2>2, FunctionList
  <2>5. QED
    BY <2>3, <2>4 DEF Guided
<1> HIDE DEF a
<1>7. Q \in SUBSET DOMAIN sessions /\ \A i \in Q : sessions[i][1].task \in Selected(rows)
  OBVIOUS
<1> HIDE DEF Q
<1>8. /\ Sequence(used)
      /\ \A k \in DOMAIN used : /\ Sequence(used[k]) /\ used[k][1].task \in Selected(rows)
                                /\ ReadsMatch(used[k][1].task, StepsOf(used[k]))
  <2>1. Sequence(used)
    BY <1>7, AtList
  <2>2. \A k \in DOMAIN used : \E i \in Q : used[k] = sessions[i]
    BY <1>7, AtList
  <2> HIDE DEF used
  <2>3. QED
    BY <1>7, <2>1, <2>2
<1> HIDE DEF used
<1>9. Guided(rows, b)
  <2>1. Len(used) \in Nat /\ DOMAIN used = 1 .. Len(used)
    BY <1>8, ListFacts
  <2>2. ss = [i \in 1 .. Len(used) |-> ss[i]] /\ \A i \in 1 .. Len(used) : Guided(rows, ss[i])
    BY <1>8, <2>1, SessionGuides
  <2> HIDE DEF ss
  <2>3. QED
    BY <2>1, <2>2, GuidedFlatten
<1> HIDE DEF b
<1> DEFINE c == a \o b
<1>10. Guided(rows, c)
  BY <1>6, <1>9, GuidedConcat
<1> HIDE DEF c
<1>11. t = FirstOfEach(c)
  BY DEF c
<1> HIDE DEF t
<1>12. Sequence(t) /\ Unique(t) /\ Drawn(t, c)
  BY <1>10, <1>11, FirstOfEachFacts DEF Guided
<1>13. \A k \in DOMAIN t : Guides(rows, t[k])
  BY <1>10, <1>12 DEF Guided, Drawn
<1>14. Proper("navigation", t) /\ TasksOf(t) \subseteq Selected(rows)
  BY <1>12, <1>13 DEF Proper, TasksOf, Guides
<1>15. QED
  BY <1>1, <1>3, <1>14

----------------------------------------------------------------------------
(* sft_semantic_mix                                                        *)

\* As many lists of one length as there are, times that length.
LEMMA FlattenLength ==
    ASSUME NEW n \in Nat, NEW m \in Nat, NEW ss, ss = [i \in 1 .. n |-> ss[i]],
           \A i \in 1 .. n : Sequence(ss[i]) /\ Len(ss[i]) = m
    PROVE  Len(FlattenSeq(ss)) = n * m
<1> DEFINE S == UNION {Range(ss[i]) : i \in 1 .. n}
<1>1. \A i \in 1 .. n : ss[i] \in Seq(S)
  <2>1. ASSUME NEW i \in 1 .. n PROVE ss[i] \in Seq(S)
    <3>1. ss[i] \in Seq(Range(ss[i])) /\ Range(ss[i]) \subseteq S
      BY DEF Sequence
    <3> HIDE DEF S
    <3>2. QED
      BY <3>1, SeqMonotonic
  <2> HIDE DEF S
  <2>2. QED
    BY <2>1
<1> HIDE DEF S
<1>2. ss \in Seq(Seq(S)) /\ Len(ss) = n
  BY <1>1
<1>3. CASE n = 0
  <2>1. ss = <<>>
    BY <1>2, <1>3, EmptySeq
  <2>2. FlattenSeq(ss) = <<>>
    BY <2>1 DEF FlattenSeq
  <2>3. QED
    BY <1>3, <2>2
<1>4. CASE n # 0
  <2>1. ss # <<>>
    BY <1>2, <1>4, EmptySeq
  <2>2. PICK f : /\ DOMAIN f = 1 .. n
                 /\ f[1] = ss[1]
                 /\ \A i \in 2 .. n : f[i] = f[i - 1] \o ss[i]
                 /\ FlattenSeq(ss) = f[n]
    BY <1>2, <2>1, FlattenSteps
  <2> DEFINE T == {k \in 1 .. n : f[k] \in Seq(S) /\ Len(f[k]) = k * m}
  <2>3. 1 \in T
    BY <1>1, <1>4, <2>2
  <2>4. ASSUME NEW k \in 1 .. n - 1, k \in T PROVE k + 1 \in T
    <3>1. k + 1 \in 2 .. n /\ k + 1 \in 1 .. n /\ (k + 1) - 1 = k
      OBVIOUS
    <3>2. f[k + 1] = f[k] \o ss[k + 1]
      BY <2>2, <3>1
    <3>3. f[k] \in Seq(S) /\ ss[k + 1] \in Seq(S) /\ Len(f[k]) = k * m /\ Len(ss[k + 1]) = m
      BY <1>1, <2>4, <3>1
    <3>4. f[k + 1] \in Seq(S) /\ Len(f[k + 1]) = k * m + m
      <4> DEFINE a == f[k]
                 b == ss[k + 1]
      <4>1. a \in Seq(S) /\ b \in Seq(S) /\ Len(a) = k * m /\ Len(b) = m /\ f[k + 1] = a \o b
        BY <3>2, <3>3
      <4> HIDE DEF a, b
      <4>2. a \o b \in Seq(S) /\ Len(a \o b) = Len(a) + Len(b)
        BY <4>1, ConcatProperties
      <4>3. QED
        BY <4>1, <4>2
    <3>5. k * m + m = (k + 1) * m
      OBVIOUS
    <3>6. QED
      BY <3>1, <3>4, <3>5
  <2>5. n \in T
    <3>1. n \in 1 .. n
      BY <1>4
    <3> HIDE DEF T
    <3>2. QED
      BY <2>3, <2>4, <3>1, CountingUp
  <2>6. QED
    BY <2>2, <2>5
<1>5. QED
  BY <1>3, <1>4

\* A proper list of rows of some kinds, drawn from others.
OfKinds(what, t, rows, kinds) ==
    Proper(what, t) /\ Drawn(t, rows) /\ \A k \in DOMAIN t : t[k].target.kind \in kinds

\* Rows of different kinds are different rows.
LEMMA KindsConcat ==
    ASSUME NEW what, NEW rows, Proper(what, rows), NEW K, NEW L, K \cap L = {},
           NEW s, OfKinds(what, s, rows, K), NEW t, OfKinds(what, t, rows, L)
    PROVE  OfKinds(what, s \o t, rows, K \cup L)
<1> DEFINE u == s \o t
<1>1. ASSUME NEW p \in DOMAIN s, NEW q \in DOMAIN t, s[p].id = t[q].id PROVE FALSE
  <2>1. PICK i \in DOMAIN rows : s[p] = rows[i]
    BY DEF OfKinds, Drawn
  <2>2. PICK j \in DOMAIN rows : t[q] = rows[j]
    BY DEF OfKinds, Drawn
  <2>3. i = j
    BY <1>1, <2>1, <2>2 DEF Proper, Unique
  <2>4. QED
    BY <2>1, <2>2, <2>3 DEF OfKinds
<1>2. Proper(what, u)
  BY <1>1, ProperConcat DEF OfKinds
<1>3. \A m \in DOMAIN u : \/ m \in DOMAIN s /\ u[m] = s[m]
                          \/ m - Len(s) \in DOMAIN t /\ u[m] = t[m - Len(s)]
  BY ConcatList DEF OfKinds, Proper
<1> HIDE DEF u
<1>4. Drawn(u, rows) /\ \A k \in DOMAIN u : u[k].target.kind \in K \cup L
  BY <1>3 DEF OfKinds, Drawn
<1>5. OfKinds(what, u, rows, K \cup L)
  BY <1>2, <1>4 DEF OfKinds
<1>6. QED
  BY <1>5 DEF u

\* The rows of some kinds, forwards and backwards.
LEMMA KindsFacts ==
    ASSUME NEW what, NEW rows, Proper(what, rows), NEW K
    PROVE  /\ OfKinds(what, OfKind(rows, K), rows, K)
           /\ OfKinds(what, Reverse(OfKind(rows, K)), rows, K)
<1> DEFINE t == OfKind(rows, K)
<1>1. OfKinds(what, t, rows, K)
  BY ProperOfKind DEF OfKinds
<1> HIDE DEF t
<1>2. Proper(what, Reverse(t)) /\ Drawn(Reverse(t), t)
  BY <1>1, ProperReverse DEF OfKinds
<1>3. OfKinds(what, Reverse(t), rows, K)
  BY <1>1, <1>2 DEF OfKinds, Drawn
<1>4. QED
  BY <1>1, <1>3 DEF t

\* Or the first of them.
LEMMA KindsAtMostOne ==
    ASSUME NEW what, NEW rows, NEW K, NEW t, OfKinds(what, t, rows, K)
    PROVE  OfKinds(what, AtMostOne(t), rows, K)
<1> DEFINE n == Smaller(1, Len(t))
           u == SubSeq(t, 1, n)
<1>1. Len(t) \in Nat /\ DOMAIN t = 1 .. Len(t) /\ Sequence(t)
  BY ListFacts DEF OfKinds, Proper
<1>2. n \in 0 .. Len(t) /\ n \in Nat /\ n <= Len(t)
  BY <1>1 DEF Smaller
<1> HIDE DEF n
<1>3. Proper(what, u)
  BY <1>2, ProperPrefix DEF OfKinds
<1>4. Len(u) = n /\ \A i \in 1 .. n : u[i] = t[i]
  BY <1>1, <1>2, PrefixList
<1> HIDE DEF u
<1>5. DOMAIN u = 1 .. n /\ 1 .. n \subseteq DOMAIN t
  BY <1>1, <1>2, <1>3, <1>4, ListFacts DEF Proper
<1>6. OfKinds(what, u, rows, K)
  BY <1>3, <1>4, <1>5 DEF OfKinds, Drawn
<1>7. QED
  BY <1>6 DEF AtMostOne, u, n

\* The order of preference keeps a row at most once.
LEMMA ByPriorityProper ==
    ASSUME NEW rows, Proper("semantic", rows)
    PROVE  Proper("semantic", ByPriority(rows)) /\ Drawn(ByPriority(rows), rows)
<1> DEFINE a == OfKind(rows, Edits)
           b == OfKind(rows, {"run_tests"})
           c == Reverse(OfKind(rows, {"read_file"}))
           d == Reverse(OfKind(rows, {"search_text"}))
           p == ByPriority(rows)
<1>1. /\ OfKinds("semantic", a, rows, Edits) /\ OfKinds("semantic", b, rows, {"run_tests"})
      /\ OfKinds("semantic", c, rows, {"read_file"}) /\ OfKinds("semantic", d, rows, {"search_text"})
  BY KindsFacts
<1>2. p = a \o b \o c \o d
  BY DEF ByPriority
<1> HIDE DEF a, b, c, d, p
<1>3. OfKinds("semantic", a \o b, rows, Edits \cup {"run_tests"})
  BY <1>1, KindsConcat DEF Edits
<1>4. OfKinds("semantic", a \o b \o c, rows, Edits \cup {"run_tests"} \cup {"read_file"})
  BY <1>1, <1>3, KindsConcat DEF Edits
<1>5. OfKinds("semantic", p, rows, Edits \cup {"run_tests"} \cup {"read_file"} \cup {"search_text"})
  BY <1>1, <1>2, <1>4, KindsConcat DEF Edits
<1>6. QED
  BY <1>5 DEF OfKinds, p

\* What is kept of one state is as much as was asked for.
LEMMA SelectRecoveryFacts ==
    ASSUME NEW rows, Proper("semantic", rows), NEW n \in Nat, n <= Len(ByPriority(rows))
    PROVE  /\ Proper("semantic", SelectRecovery(rows, n)) /\ Drawn(SelectRecovery(rows, n), rows)
           /\ Len(SelectRecovery(rows, n)) = n
<1> DEFINE p == ByPriority(rows)
           s == SubSeq(p, 1, n)
<1>1. Proper("semantic", p) /\ Drawn(p, rows) /\ n <= Len(p)
  BY ByPriorityProper
<1> HIDE DEF p
<1>2. Sequence(p) /\ Len(p) \in Nat /\ DOMAIN p = 1 .. Len(p) /\ n \in 0 .. Len(p)
  BY <1>1, ListFacts DEF Proper
<1>3. Proper("semantic", s)
  BY <1>1, <1>2, ProperPrefix
<1>4. Len(s) = n /\ \A i \in 1 .. n : s[i] = p[i]
  BY <1>1, <1>2, PrefixList
<1> HIDE DEF s
<1>5. Drawn(s, rows)
  <2>1. DOMAIN s = 1 .. n
    BY <1>3, <1>4, ListFacts DEF Proper
  <2>2. QED
    BY <1>1, <1>2, <1>4, <2>1 DEF Drawn
<1>6. Proper("semantic", ByHunk(s)) /\ Drawn(ByHunk(s), s) /\ Len(ByHunk(s)) = n
  BY <1>3, <1>4, ProperByHunk
<1>7. SelectRecovery(rows, n) = ByHunk(s)
  BY DEF SelectRecovery, s, p
<1>8. QED
  BY <1>5, <1>6, <1>7 DEF Drawn

\* The audited rows are as many as are asked for, if there are as many.
LEMMA SelectAuditedFacts ==
    ASSUME NEW rows, Proper("grpo", rows), NEW n \in Nat, n <= Len(rows)
    PROVE  Proper("grpo", SelectAudited(rows, n)) /\ Len(SelectAudited(rows, n)) = n
<1> DEFINE a == AtMostOne(OfKind(rows, {"search_text"}))
           b == AtMostOne(OfKind(rows, {"read_file"}))
           c == AtMostOne(Reverse(OfKind(rows, Edits)))
           d == AtMostOne(Reverse(OfKind(rows, {"run_tests"})))
           best == a \o b \o c \o d
           P == {i \in DOMAIN rows : ~Contains(best, rows[i])}
           Q == {i \in DOMAIN rows : Contains(best, rows[i])}
           rest == At(rows, P)
           all  == best \o rest
<1>1. SelectAudited(rows, n) = SubSeq(all, 1, n)
  BY DEF SelectAudited
<1>2. /\ OfKinds("grpo", a, rows, {"search_text"}) /\ OfKinds("grpo", b, rows, {"read_file"})
      /\ OfKinds("grpo", c, rows, Edits) /\ OfKinds("grpo", d, rows, {"run_tests"})
  BY KindsFacts, KindsAtMostOne
<1>3. best = a \o b \o c \o d
  OBVIOUS
<1> HIDE DEF a, b, c, d, best
<1>4. OfKinds("grpo", a \o b, rows, {"search_text"} \cup {"read_file"})
  BY <1>2, KindsConcat
<1>5. OfKinds("grpo", a \o b \o c, rows, {"search_text"} \cup {"read_file"} \cup Edits)
  BY <1>2, <1>4, KindsConcat DEF Edits
<1>6. OfKinds("grpo", best, rows, {"search_text"} \cup {"read_file"} \cup Edits \cup {"run_tests"})
  BY <1>2, <1>3, <1>5, KindsConcat DEF Edits
<1>7. Proper("grpo", best) /\ Drawn(best, rows)
  BY <1>6 DEF OfKinds
<1>8. /\ Sequence(best) /\ Len(best) \in Nat /\ DOMAIN best = 1 .. Len(best)
      /\ Sequence(rows) /\ Len(rows) \in Nat /\ DOMAIN rows = 1 .. Len(rows)
  BY <1>7, ListFacts DEF Proper
<1>9. P \in SUBSET DOMAIN rows /\ Q \in SUBSET DOMAIN rows /\ P = DOMAIN rows \ Q
  OBVIOUS
<1>10. \A i \in P : \A k \in DOMAIN best : best[k] # rows[i]
  BY <1>8 DEF Contains
<1>11. \A i \in Q : \E k \in DOMAIN best : best[k] = rows[i]
  BY <1>8 DEF Contains
<1> HIDE DEF P, Q
<1>12. Proper("grpo", rest) /\ Len(rest) = Cardinality(P)
  BY <1>8, <1>9, ProperAt, AtList
<1>13. \A k \in DOMAIN rest : \E i \in P : rest[k] = rows[i]
  BY <1>8, <1>9, AtList
<1> HIDE DEF rest
<1>14. ASSUME NEW p \in DOMAIN best, NEW q \in DOMAIN rest, best[p].id = rest[q].id PROVE FALSE
  <2>1. PICK i \in DOMAIN rows : best[p] = rows[i]
    BY <1>7 DEF Drawn
  <2>2. PICK j \in P : rest[q] = rows[j]
    BY <1>13
  <2>3. i = j
    BY <1>9, <1>14, <2>1, <2>2 DEF Proper, Unique
  <2>4. QED
    BY <1>10, <2>1, <2>2, <2>3
<1>15. Proper("grpo", all)
  BY <1>7, <1>12, <1>14, ProperConcat
<1>16. Len(all) = Len(best) + Cardinality(P)
  BY <1>8, <1>12, ConcatList DEF Proper
<1> HIDE DEF all
<1>17. IsFiniteSet(DOMAIN rows) /\ Cardinality(DOMAIN rows) = Len(rows)
       /\ IsFiniteSet(DOMAIN best) /\ Cardinality(DOMAIN best) = Len(best)
  BY <1>8, DomainFacts
<1>18. IsFiniteSet(Q) /\ Cardinality(Q) <= Len(best)
  <2> DEFINE f == [k \in DOMAIN best |-> CHOOSE j \in DOMAIN rows : best[k] = rows[j]]
  <2>1. \A k \in DOMAIN best : f[k] \in DOMAIN rows /\ best[k] = rows[f[k]]
    BY <1>7 DEF Drawn
  <2>2. DOMAIN f = DOMAIN best /\ f = [k \in DOMAIN f |-> f[k]]
    OBVIOUS
  <2> HIDE DEF f
  <2>3. IsFiniteSet(Range(f)) /\ Cardinality(Range(f)) <= Len(best)
    BY <1>17, <2>2, FiniteRange
  <2>4. Q \in SUBSET Range(f)
    <3>1. ASSUME NEW i \in Q PROVE i \in Range(f)
      <4>1. PICK k \in DOMAIN best : best[k] = rows[i]
        BY <1>11
      <4>2. f[k] = i
        BY <1>9, <2>1, <4>1 DEF Proper, Unique
      <4>3. QED
        BY <2>2, <4>1, <4>2 DEF Range
    <3>2. QED
      BY <3>1
  <2>5. IsFiniteSet(Q) /\ Cardinality(Q) <= Cardinality(Range(f))
    BY <2>3, <2>4, FS_Subset
  <2>6. Cardinality(Q) \in Nat /\ Cardinality(Range(f)) \in Nat
    BY <2>3, <2>5, FS_CardinalityType
  <2>7. QED
    BY <1>8, <2>3, <2>5, <2>6
<1>19. Cardinality(P) = Len(rows) - Cardinality(Q)
  <2>1. DOMAIN rows \cap Q = Q
    BY <1>9
  <2>2. Cardinality(DOMAIN rows \ Q) = Cardinality(DOMAIN rows) - Cardinality(DOMAIN rows \cap Q)
    BY <1>17, FS_Difference
  <2>3. QED
    BY <1>9, <1>17, <2>1, <2>2
<1>20. Len(rows) <= Len(all)
  <2>1. Cardinality(Q) \in Nat
    BY <1>18, FS_CardinalityType
  <2>2. QED
    BY <1>8, <1>16, <1>18, <1>19, <2>1
<1>21. Sequence(all) /\ n \in 0 .. Len(all) /\ Len(all) \in Nat
  <2>1. Sequence(all) /\ Len(all) \in Nat
    BY <1>15, ListFacts DEF Proper
  <2>2. QED
    BY <1>8, <1>20, <2>1
<1>22. Proper("grpo", SubSeq(all, 1, n)) /\ Len(SubSeq(all, 1, n)) = n
  BY <1>15, <1>21, ProperPrefix, PrefixList
<1>23. QED
  BY <1>1, <1>22

\* The rows of one state.
LEMMA OfStateFacts ==
    ASSUME NEW rows, Proper("semantic", rows), NEW state
    PROVE  /\ Proper("semantic", OfState(rows, state))
           /\ \A k \in DOMAIN OfState(rows, state) : OfState(rows, state)[k].id[2] = state
<1> DEFINE P == {i \in DOMAIN rows : rows[i].id[2] = state}
           t == At(rows, P)
<1>1. P \in SUBSET DOMAIN rows /\ \A i \in P : rows[i].id[2] = state
  OBVIOUS
<1> HIDE DEF P
<1>2. Proper("semantic", t)
  BY <1>1, ProperAt
<1>3. \A k \in DOMAIN t : \E i \in P : t[k] = rows[i]
  BY <1>1, AtList DEF Proper
<1>4. OfState(rows, state) = t
  BY DEF OfState, t, P
<1> HIDE DEF t
<1>5. QED
  BY <1>1, <1>2, <1>3, <1>4

\* The rows of the states in turn: as many of each, none twice.
LEMMA RoundRobinFacts ==
    ASSUME NEW rows, Proper("semantic", rows), NEW n \in Nat,
           \A s \in StatesOf(rows) : n <= Len(ByPriority(OfState(rows, s))),
           NEW turns, turns = [k \in 1 .. n |->
                                 [i \in DOMAIN SetToSeq(StatesOf(rows)) |->
                                    SelectRecovery(OfState(rows, SetToSeq(StatesOf(rows))[i]), n)[k]]]
    PROVE  /\ Proper("semantic", FlattenSeq(turns))
           /\ Len(FlattenSeq(turns)) = n * Cardinality(StatesOf(rows))
<1> DEFINE states == SetToSeq(StatesOf(rows))
           m      == Cardinality(StatesOf(rows))
           pick   == [i \in DOMAIN states |-> SelectRecovery(OfState(rows, states[i]), n)]
           t      == FlattenSeq(turns)
<1>1. IsFiniteSet(StatesOf(rows)) /\ m \in Nat
  BY FiniteTasks, FS_CardinalityType DEF Proper
<1>2. /\ states \in Seq(StatesOf(rows)) /\ Len(states) = m
      /\ \A i, j \in DOMAIN states : states[i] = states[j] => i = j
  BY <1>1, SetToSeqFacts
<1>3. DOMAIN states = 1 .. m /\ \A i \in 1 .. m : states[i] \in StatesOf(rows)
  BY <1>2, LenProperties
<1>4. ASSUME NEW i \in 1 .. m
      PROVE  /\ Proper("semantic", pick[i]) /\ DOMAIN pick[i] = 1 .. n
             /\ \A k \in 1 .. n : pick[i][k].id[2] = states[i]
  <2> DEFINE s  == states[i]
             of == OfState(rows, s)
  <2>1. /\ Proper("semantic", of) /\ \A k \in DOMAIN of : of[k].id[2] = s
        /\ n <= Len(ByPriority(of))
    BY <1>3, OfStateFacts
  <2>2. pick[i] = SelectRecovery(of, n)
    BY <1>3
  <2> HIDE DEF of, s, pick
  <2>3. Proper("semantic", pick[i]) /\ Drawn(pick[i], of) /\ Len(pick[i]) = n
    BY <2>1, <2>2, SelectRecoveryFacts
  <2>4. DOMAIN pick[i] = 1 .. n
    BY <2>3, ListFacts DEF Proper
  <2>5. QED
    BY <2>1, <2>3, <2>4 DEF Drawn, s
<1>5. /\ turns = [k \in 1 .. n |-> turns[k]]
      /\ \A k \in 1 .. n : turns[k] = [i \in 1 .. m |-> pick[i][k]]
  BY <1>3
<1> HIDE DEF pick, states
<1>6. \A k \in 1 .. n : Sequence(turns[k]) /\ Len(turns[k]) = m /\ DOMAIN turns[k] = 1 .. m
  <2>1. ASSUME NEW k \in 1 .. n PROVE Sequence(turns[k]) /\ Len(turns[k]) = m /\ DOMAIN turns[k] = 1 .. m
    <3>1. turns[k] = [i \in 1 .. m |-> turns[k][i]]
      BY <1>5
    <3>2. QED
      BY <1>1, <3>1, FunctionList
  <2>2. QED
    BY <2>1
<1>7. ASSUME NEW k \in 1 .. n, NEW i \in 1 .. m
      PROVE  /\ turns[k][i] = pick[i][k] /\ ProperExample("semantic", turns[k][i])
             /\ turns[k][i].id[2] = states[i]
  <2>1. turns[k][i] = pick[i][k]
    <3>1. turns[k] = [j \in 1 .. m |-> pick[j][k]]
      BY <1>5
    <3>2. QED
      BY <3>1
  <2>2. pick[i][k].id[2] = states[i] /\ k \in DOMAIN pick[i] /\ Proper("semantic", pick[i])
    BY <1>4
  <2>3. ProperExample("semantic", pick[i][k])
    BY <2>2 DEF Proper
  <2>4. QED
    BY <2>1, <2>2, <2>3
<1>8. ASSUME NEW k \in 1 .. n, NEW l \in 1 .. n, NEW i \in 1 .. m, NEW j \in 1 .. m,
             turns[k][i].id = turns[l][j].id
      PROVE  k = l /\ i = j
  <2>1. i = j
    <3>1. states[i] = states[j]
      <4>1. turns[k][i].id[2] = states[i]
        BY <1>7
      <4>2. turns[l][j].id[2] = states[j]
        BY <1>7
      <4>3. QED
        BY <1>8, <4>1, <4>2
    <3>2. i \in DOMAIN states /\ j \in DOMAIN states
      BY <1>3
    <3>3. QED
      BY <1>2, <3>1, <3>2
  <2>2. pick[i][k].id = pick[i][l].id
    BY <1>7, <1>8, <2>1
  <2>3. QED
    BY <1>4, <2>1, <2>2 DEF Proper, Unique
<1> HIDE DEF m
<1>9. Apart(turns) /\ DOMAIN turns = 1 .. n
  <2>1. DOMAIN turns = 1 .. n
    BY <1>5
  <2>2. ASSUME NEW k \in 1 .. n, NEW l \in 1 .. n, NEW i \in DOMAIN turns[k], NEW j \in DOMAIN turns[l],
               turns[k][i].id = turns[l][j].id
        PROVE  k = l /\ i = j
    <3>1. i \in 1 .. m /\ j \in 1 .. m
      BY <1>6
    <3>2. \A a, b \in 1 .. m : turns[k][a].id = turns[l][b].id => k = l /\ a = b
      BY <1>8
    <3>3. QED
      BY <2>2, <3>1, <3>2
  <2>3. QED
    BY <2>1, <2>2 DEF Apart
<1>10. Sequence(t) /\ Unique(t) /\ PiecesOf(t, turns)
  BY <1>5, <1>6, <1>9, FlattenLists
<1>11. Len(t) = n * m
  BY <1>1, <1>5, <1>6, FlattenLength
<1> HIDE DEF t
<1>12. \A q \in DOMAIN t : ProperExample("semantic", t[q])
  <2>1. ASSUME NEW q \in DOMAIN t PROVE ProperExample("semantic", t[q])
    <3>1. PICK k \in 1 .. n : \E i \in DOMAIN turns[k] : t[q] = turns[k][i]
      BY <1>9, <1>10 DEF PiecesOf
    <3>2. PICK i \in DOMAIN turns[k] : t[q] = turns[k][i]
      BY <3>1
    <3>3. i \in 1 .. m
      BY <1>6
    <3>4. QED
      BY <1>7, <3>2, <3>3
  <2>2. QED
    BY <2>1
<1>13. QED
  BY <1>10, <1>11, <1>12 DEF Proper, t, m

\* sft_semantic_mix: three rows of recovery and an audited one in turn, no row twice.
LEMMA MixProper ==
    ASSUME NEW recovery, Proper("semantic", recovery), NEW audited, Proper("grpo", audited),
           NEW n \in Nat, ~MixRefused(recovery, audited, n)
    PROVE  Proper("mix", Mix(recovery, audited, n))
<1> DEFINE states == SetToSeq(StatesOf(recovery))
           turns  == [k \in 1 .. n |->
                        [i \in DOMAIN states |-> SelectRecovery(OfState(recovery, states[i]), n)[k]]]
           rows   == FlattenSeq(turns)
           m      == Len(rows) \div 3
           extra  == SelectAudited(audited, m)
           ss     == [i \in 1 .. m |-> SubSeq(rows, 3 * i - 2, 3 * i) \o <<extra[i]>>]
           t      == FlattenSeq(ss)
<1>1. Mix(recovery, audited, n) = t
  BY DEF Mix
<1>2. \A s \in StatesOf(recovery) : n <= Len(ByPriority(OfState(recovery, s)))
  <2>1. ASSUME NEW s \in StatesOf(recovery) PROVE n <= Len(ByPriority(OfState(recovery, s)))
    <3> DEFINE of == OfState(recovery, s)
    <3>1. ~(Len(ByPriority(of)) < n)
      BY DEF MixRefused
    <3>2. Proper("semantic", of)
      BY OfStateFacts
    <3> HIDE DEF of
    <3>3. Len(ByPriority(of)) \in Nat
      BY <3>2, ByPriorityProper, ListFacts DEF Proper
    <3>4. QED
      BY <3>1, <3>3 DEF of
  <2>2. QED
    BY <2>1
<1>3. Proper("semantic", rows) /\ Len(rows) = n * Cardinality(StatesOf(recovery))
  BY <1>2, RoundRobinFacts
<1>4. Cardinality(StatesOf(recovery)) \in Nat
  BY FiniteTasks, FS_CardinalityType DEF Proper
<1>5. ~(Len(audited) < (Cardinality(StatesOf(recovery)) * n) \div 3)
  BY DEF MixRefused
<1> HIDE DEF rows
<1>6. m \in Nat /\ 3 * m <= Len(rows) /\ Len(rows) \in Nat /\ DOMAIN rows = 1 .. Len(rows)
  <2>1. Len(rows) \in Nat /\ DOMAIN rows = 1 .. Len(rows)
    BY <1>3, ListFacts DEF Proper
  <2>2. QED
    BY <2>1
<1>7. m <= Len(audited)
  <2>1. Len(audited) \in Nat
    BY ListFacts DEF Proper
  <2>2. m = (Cardinality(StatesOf(recovery)) * n) \div 3
    BY <1>3, <1>4
  <2>3. QED
    BY <1>5, <1>6, <2>1, <2>2
<1> HIDE DEF m
<1>8. Proper("grpo", extra) /\ Len(extra) = m
  BY <1>6, <1>7, SelectAuditedFacts
<1> HIDE DEF extra
<1>9. DOMAIN extra = 1 .. m
  BY <1>8, ListFacts DEF Proper
<1>10. ASSUME NEW i \in 1 .. m
       PROVE  /\ Sequence(ss[i]) /\ DOMAIN ss[i] = 1 .. 4
              /\ \A p \in 1 .. 3 : (3 * i - 3) + p \in DOMAIN rows /\ ss[i][p] = rows[(3 * i - 3) + p]
              /\ ss[i][4] = extra[i]
  <2> DEFINE a == SubSeq(rows, 3 * i - 2, 3 * i)
             b == <<extra[i]>>
             S == Range(rows) \cup {extra[i]}
  <2>1. /\ 3 * i - 2 \in Int /\ 3 * i \in Int /\ 3 * i - 2 <= 3 * i /\ (3 * i) - (3 * i - 2) + 1 = 3
        /\ \A j \in 3 * i - 2 .. 3 * i : j \in DOMAIN rows
    BY <1>6
  <2>2. \A j \in 3 * i - 2 .. 3 * i : rows[j] \in S
    BY <2>1 DEF Range
  <2>3. /\ a \in Seq(S) /\ Len(a) = 3
        /\ \A p \in 1 .. 3 : a[p] = rows[(3 * i - 2) + p - 1]
    BY <2>1, <2>2, SubSeqProperties
  <2>4. b \in Seq(S) /\ Len(b) = 1 /\ b[1] = extra[i]
    OBVIOUS
  <2>5. ss[i] = a \o b
    OBVIOUS
  <2> HIDE DEF a, b, S, ss
  <2>6. /\ ss[i] \in Seq(S) /\ Len(ss[i]) = 4
        /\ \A p \in 1 .. 4 : ss[i][p] = IF p <= 3 THEN a[p] ELSE b[p - 3]
    <3>1. /\ a \o b \in Seq(S) /\ Len(a \o b) = Len(a) + Len(b)
          /\ \A p \in 1 .. Len(a) + Len(b) : (a \o b)[p] = IF p <= Len(a) THEN a[p] ELSE b[p - Len(a)]
      BY <2>3, <2>4, ConcatProperties
    <3>2. QED
      BY <2>3, <2>4, <2>5, <3>1
  <2>7. Sequence(ss[i]) /\ DOMAIN ss[i] = 1 .. 4
    BY <2>6, SequenceOf
  <2>8. \A p \in 1 .. 3 : (3 * i - 3) + p \in DOMAIN rows /\ ss[i][p] = rows[(3 * i - 3) + p]
    <3>1. ASSUME NEW p \in 1 .. 3 PROVE (3 * i - 3) + p \in DOMAIN rows /\ ss[i][p] = rows[(3 * i - 3) + p]
      <4>1. (3 * i - 2) + p - 1 = (3 * i - 3) + p /\ (3 * i - 3) + p \in 3 * i - 2 .. 3 * i /\ p \in 1 .. 4 /\ p <= 3
        OBVIOUS
      <4>2. ss[i][p] = a[p] /\ a[p] = rows[(3 * i - 2) + p - 1]
        BY <2>3, <2>6, <4>1
      <4>3. QED
        BY <2>1, <4>1, <4>2
    <3>2. QED
      BY <3>1
  <2>9. ss[i][4] = extra[i]
    BY <2>4, <2>6
  <2>10. QED
    BY <2>7, <2>8, <2>9
<1>11. ss = [i \in 1 .. m |-> ss[i]]
  OBVIOUS
<1> HIDE DEF ss
<1>12. ASSUME NEW i \in 1 .. m, NEW j \in 1 .. m, NEW p \in 1 .. 4, NEW q \in 1 .. 4, ss[i][p].id = ss[j][q].id
       PROVE  i = j /\ p = q
  <2>0. /\ \A k \in DOMAIN rows : rows[k].id[1] = "semantic"
        /\ \A k \in DOMAIN extra : extra[k].id[1] = "grpo"
        /\ \A k, l \in DOMAIN rows : rows[k].id = rows[l].id => k = l
        /\ \A k, l \in DOMAIN extra : extra[k].id = extra[l].id => k = l
    BY <1>3, <1>8 DEF Proper, ProperExample, Unique, Tag
  <2>1. \A r \in 1 .. 3 : ss[i][r].id[1] = "semantic" /\ ss[j][r].id[1] = "semantic"
    BY <1>10, <2>0
  <2>2. ss[i][4].id[1] = "grpo" /\ ss[j][4].id[1] = "grpo"
    BY <1>9, <1>10, <2>0
  <2>3. CASE p = 4
    <3>1. q = 4
      BY <1>12, <2>1, <2>2, <2>3
    <3>2. extra[i].id = extra[j].id
      BY <1>10, <1>12, <2>3, <3>1
    <3>3. QED
      BY <1>9, <2>0, <2>3, <3>1, <3>2
  <2>4. CASE p \in 1 .. 3
    <3>1. q \in 1 .. 3
      BY <1>12, <2>1, <2>2, <2>4
    <3>2. /\ (3 * i - 3) + p \in DOMAIN rows /\ ss[i][p] = rows[(3 * i - 3) + p]
          /\ (3 * j - 3) + q \in DOMAIN rows /\ ss[j][q] = rows[(3 * j - 3) + q]
      BY <1>10, <2>4, <3>1
    <3>3. (3 * i - 3) + p = (3 * j - 3) + q
      BY <1>12, <2>0, <3>2
    <3>4. QED
      BY <1>6, <2>4, <3>1, <3>3
  <2>5. QED
    BY <2>3, <2>4
<1>13. Apart(ss) /\ \A i \in 1 .. m : Sequence(ss[i])
  <2>1. DOMAIN ss = 1 .. m
    BY <1>11
  <2>2. \A i \in 1 .. m : Sequence(ss[i]) /\ DOMAIN ss[i] = 1 .. 4
    BY <1>10
  <2>3. ASSUME NEW i \in DOMAIN ss, NEW j \in DOMAIN ss, NEW p \in DOMAIN ss[i], NEW q \in DOMAIN ss[j],
               ss[i][p].id = ss[j][q].id
        PROVE  i = j /\ p = q
    <3>1. i \in 1 .. m /\ j \in 1 .. m /\ p \in 1 .. 4 /\ q \in 1 .. 4
      BY <2>1, <2>2, <2>3
    <3>2. QED
      BY <1>12, <2>3, <3>1
  <2>4. QED
    BY <2>2, <2>3, Zenon DEF Apart
<1>14. Sequence(t) /\ Unique(t) /\ PiecesOf(t, ss)
  BY <1>6, <1>11, <1>13, FlattenLists
<1>15. \A i \in 1 .. m : \A p \in 1 .. 4 : ProperExample("mix", ss[i][p])
  <2>1. \A e : ProperExample("semantic", e) \/ ProperExample("grpo", e) => ProperExample("mix", e)
    BY DEF ProperExample, SourcesIn, ProtocolOf
  <2>2. ASSUME NEW i \in 1 .. m, NEW p \in 1 .. 4 PROVE ProperExample("mix", ss[i][p])
    <3>1. CASE p = 4
      BY <1>8, <1>9, <1>10, <2>1, <3>1 DEF Proper
    <3>2. CASE p \in 1 .. 3
      BY <1>3, <1>10, <2>1, <3>2 DEF Proper
    <3>3. QED
      BY <3>1, <3>2
  <2>3. QED
    BY <2>2
<1> HIDE DEF t
<1>16. \A k \in DOMAIN t : ProperExample("mix", t[k])
  <2>1. ASSUME NEW k \in DOMAIN t PROVE ProperExample("mix", t[k])
    <3>1. PICK i \in 1 .. m : \E p \in DOMAIN ss[i] : t[k] = ss[i][p]
      BY <1>11, <1>14 DEF PiecesOf
    <3>2. PICK p \in 1 .. 4 : t[k] = ss[i][p]
      BY <1>10, <3>1
    <3>3. QED
      BY <1>15, <3>2
  <2>2. QED
    BY <2>1
<1>17. QED
  BY <1>1, <1>14, <1>16 DEF Proper

----------------------------------------------------------------------------
(* The builders.                                                           *)

\* A dataset and the report of the build it comes from.
IsReport(report, what) ==
    /\ DOMAIN report = {"protocol", "tasks", "sources", "count"}
    /\ report.sources = SourcesIn(what) /\ report.tasks \subseteq Train

Fits(what, rows, report, sound) ==
    /\ Proper(what, rows)
    /\ IsReport(report, what) /\ report.protocol = ProtocolOf(what)
    /\ report.count = Len(rows)
    /\ sound => TasksOf(rows) \subseteq report.tasks

FilesTyped ==
    /\ DOMAIN files = Artifacts
    /\ \A a \in Artifacts : DOMAIN files[a] = {"data", "rows", "described", "report"}

BuilderTyped ==
    /\ DOMAIN builder = {"pc", "what", "rows", "report", "sound"}
    /\ builder.pc \in {"off", "writing", "report"} /\ builder.what \in Artifacts

RecordedTyped ==
    /\ DOMAIN recorded = {"traces", "trajectories"}
    /\ recorded.traces \in 0 .. Len(Traces) /\ recorded.trajectories \in 0 .. Len(Trajectories)

\* Every dataset on disk, be it old, cut short or half written, is a proper one, and what is
\* being written fits its report.
DataInv ==
    /\ FilesTyped /\ BuilderTyped /\ RecordedTyped
    /\ \A a \in Artifacts : Proper(a, files[a].rows)
    /\ IsReport(files["gold"].report, "gold")
    /\ builder.pc # "off" => Fits(builder.what, builder.rows, builder.report, builder.sound)
    /\ BuildsAreAccepted

\* The report written beside a dataset fits it.
LEMMA ReportFits ==
    ASSUME NEW what, NEW rows, Proper(what, rows), NEW sound
    PROVE  Fits(what, rows, Report(what, rows), sound)
BY DEF Fits, IsReport, Report, TasksOf, Proper, ProperExample

\* The trainer takes a dataset and the report that fits it.
LEMMA FitsAccepted ==
    ASSUME NEW what \in Artifacts, NEW rows, NEW report, Fits(what, rows, report, TRUE), rows # <<>>,
           report.protocol = "policy" => SearchesAreShort(rows)
    PROVE  ReportAccepted(report) /\ RowsAccepted(rows, report)
BY ProperAccepted DEF Fits, IsReport

\* A trajectory of lists, whose reads match.
RecordedWell(t) ==
    Sequence(t.prefix) /\ Sequence(t.steps) /\ ReadsMatch(t.task, t.prefix \o t.steps)

\* The inputs, as InputAssumption and RecordedAssumption give them.
LEMMA InputsAreLists ==
    /\ Sequence(Traces) /\ Sequence(Sessions) /\ Sequence(Trajectories)
    /\ \A i \in DOMAIN Sessions : /\ Sequence(Sessions[i])
                                  /\ ReadsMatch(Sessions[i][1].task, StepsOf(Sessions[i]))
    /\ \A i \in DOMAIN Trajectories : RecordedWell(Trajectories[i])
<1>1. Sequence(Traces) /\ Sequence(Sessions) /\ Sequence(Trajectories)
  BY InputAssumption DEF Sequence
<1>2. \A i \in DOMAIN Sessions : /\ Sequence(Sessions[i])
                                 /\ ReadsMatch(Sessions[i][1].task, StepsOf(Sessions[i]))
  <2>1. \A i \in DOMAIN Sessions : Sessions[i] \in Range(Sessions)
    BY DEF Range
  <2>2. QED
    BY <2>1, InputAssumption, RecordedAssumption DEF Sequence
<1>3. \A i \in DOMAIN Trajectories : RecordedWell(Trajectories[i])
  <2>1. \A i \in DOMAIN Trajectories : Trajectories[i] \in Range(Trajectories)
    BY DEF Range
  <2>2. QED
    BY <2>1, InputAssumption, RecordedAssumption DEF Sequence, RecordedWell
<1>4. QED
  BY <1>1, <1>2, <1>3

\* What is recorded of them by now.
LEMMA RecordedLists ==
    ASSUME RecordedTyped
    PROVE  /\ Sequence(RecordedTraces) /\ Sequence(RecordedSessions) /\ Sequence(RecordedTrajectories)
           /\ \A i \in DOMAIN RecordedSessions :
                 /\ Sequence(RecordedSessions[i])
                 /\ ReadsMatch(RecordedSessions[i][1].task, StepsOf(RecordedSessions[i]))
           /\ \A i \in DOMAIN RecordedTrajectories : RecordedWell(RecordedTrajectories[i])
<1> DEFINE m == recorded.traces
           n == recorded.trajectories
<1>1. /\ Len(Traces) \in Nat /\ Len(Trajectories) \in Nat /\ DOMAIN Trajectories = 1 .. Len(Trajectories)
  BY InputsAreLists, ListFacts
<1>2. m \in Nat /\ m <= Len(Traces) /\ n \in Nat /\ n <= Len(Trajectories)
  BY <1>1 DEF RecordedTyped
<1> HIDE DEF m, n
<1>3. Sequence(SubSeq(Traces, 1, m))
  BY <1>2, InputsAreLists, PrefixList
<1> DEFINE t == SubSeq(Trajectories, 1, n)
<1>4. Sequence(t) /\ Len(t) = n /\ \A i \in 1 .. n : t[i] = Trajectories[i]
  BY <1>2, InputsAreLists, PrefixList
<1> HIDE DEF t
<1>5. DOMAIN t = 1 .. n
  BY <1>4, ListFacts
<1>6. \A i \in DOMAIN t : RecordedWell(t[i])
  <2>1. ASSUME NEW i \in DOMAIN t PROVE RecordedWell(t[i])
    <3>1. i \in DOMAIN Trajectories /\ t[i] = Trajectories[i]
      BY <1>1, <1>2, <1>4, <1>5
    <3>2. QED
      BY <3>1, InputsAreLists
  <2>2. QED
    BY <2>1
<1> DEFINE P == {k \in DOMAIN Sessions : \A i \in DOMAIN Sessions[k] : Contains(RecordedTraces, Sessions[k][i])}
           s == At(Sessions, P)
<1>7. P \in SUBSET DOMAIN Sessions
  OBVIOUS
<1> HIDE DEF P
<1>8. Sequence(s)
  BY <1>7, InputsAreLists, AtList
<1>9. \A k \in DOMAIN s : \E i \in P : s[k] = Sessions[i]
  BY <1>7, InputsAreLists, AtList
<1>10. RecordedSessions = s
  BY DEF RecordedSessions, s, P
<1> HIDE DEF s
<1>11. /\ Sequence(RecordedSessions)
       /\ \A i \in DOMAIN RecordedSessions :
             /\ Sequence(RecordedSessions[i])
             /\ ReadsMatch(RecordedSessions[i][1].task, StepsOf(RecordedSessions[i]))
  BY <1>7, <1>8, <1>9, <1>10, InputsAreLists
<1>12. QED
  BY <1>3, <1>4, <1>6, <1>11 DEF RecordedTraces, RecordedTrajectories, m, n, t

\* Whatever a builder that did not raise makes, of datasets that may be old or cut short,
\* fits the report it will write.
LEMMA BuiltFits ==
    ASSUME DataInv, NEW what \in Artifacts, NEW pinned \in RowLists, Buildable(what, pinned)
    PROVE  Fits(what, Built(what, pinned), ReportOf(what, Built(what, pinned)),
                what = "grpo" => GoldIsDescribed)
<1> DEFINE t     == Built(what, pinned)
           sound == what = "grpo" => GoldIsDescribed
<1>1. /\ Sequence(RecordedTraces) /\ Sequence(RecordedSessions) /\ Sequence(RecordedTrajectories)
      /\ \A i \in DOMAIN RecordedSessions :
            /\ Sequence(RecordedSessions[i])
            /\ ReadsMatch(RecordedSessions[i][1].task, StepsOf(RecordedSessions[i]))
      /\ \A i \in DOMAIN RecordedTrajectories : RecordedWell(RecordedTrajectories[i])
  BY RecordedLists DEF DataInv
<1>2. Proper("gold", files["gold"].rows) /\ Proper("grpo", files["grpo"].rows)
      /\ Proper("semantic", files["semantic"].rows)
  BY DEF DataInv, Artifacts
<1>3. ASSUME Proper(what, t), what \notin {"grpo", "navigation", "recovery"}
      PROVE  Fits(what, t, ReportOf(what, t), sound)
  <2>1. ReportOf(what, t) = Report(what, t)
    BY <1>3 DEF ReportOf
  <2> HIDE DEF t, sound
  <2>2. QED
    BY <1>3, <2>1, ReportFits
<1>4. CASE what = "gold"
  <2>1. t = GoldExamples(cache, pinned) /\ ~GoldRefused(cache, pinned)
    BY <1>4 DEF Built, Buildable
  <2>2. QED
    BY <1>3, <1>4, <2>1, GoldProper
<1>5. CASE what = "grpo"
  <2> DEFINE gold == files["gold"].rows
             old  == files["gold"].report
  <2>1. t = Convert(gold) /\ (sound <=> GoldIsDescribed)
        /\ ReportOf(what, t) = [old EXCEPT !.protocol = "grpo", !.count = Len(t)]
    <3>1. t = Convert(gold)
      BY <1>5 DEF Built
    <3>2. \A x : ReportOf(what, x) = [old EXCEPT !.protocol = "grpo", !.count = Len(x)]
      BY <1>5 DEF ReportOf
    <3>3. sound <=> GoldIsDescribed
      BY <1>5
    <3> HIDE DEF t, sound
    <3>4. QED
      BY <3>1, <3>2, <3>3
  <2>2. Proper("grpo", t) /\ TasksOf(t) = TasksOf(gold)
    BY <1>2, <2>1, ConvertProper
  <2>3. IsReport(old, "gold")
    BY DEF DataInv
  <2>4. sound => TasksOf(gold) \subseteq old.tasks
    BY <2>1 DEF GoldIsDescribed
  <2> DEFINE report == ReportOf(what, t)
  <2> HIDE DEF t, sound, gold, old
  <2>5. /\ DOMAIN report = {"protocol", "tasks", "sources", "count"} /\ report.tasks = old.tasks
        /\ report.sources = old.sources /\ report.protocol = "grpo" /\ report.count = Len(t)
    BY <2>1, <2>3 DEF IsReport
  <2> HIDE DEF report
  <2>6. Fits(what, t, report, sound)
    BY <1>5, <2>2, <2>3, <2>4, <2>5 DEF Fits, IsReport, SourcesIn, ProtocolOf
  <2>7. QED
    BY <2>6 DEF t, sound, report
<1>6. CASE what = "cumulative"
  <2>1. t = Cumulative(files["grpo"].rows)
    BY <1>6 DEF Built
  <2>2. QED
    BY <1>2, <1>3, <1>6, <2>1, CumulativeProper
<1>7. CASE what = "recovery"
  <2> DEFINE task == Suggested.task
  <2>1. /\ t = Recovery(files["grpo"].rows, RecordedTraces, task, Suggested.path)
        /\ Reads(files["grpo"].rows, task, Suggested.path) # <<>>
        /\ ReportOf(what, t) = [Report(what, t) EXCEPT !.tasks = {task}]
    BY <1>7 DEF Built, Buildable, ReportOf
  <2>2. Proper("recovery", t) /\ TasksOf(t) \subseteq {task} /\ task \in Train
    BY <1>1, <1>2, <2>1, RecoveryProper
  <2> HIDE DEF task, t, sound
  <2>3. Fits(what, t, ReportOf(what, t), sound)
    BY <1>7, <2>1, <2>2 DEF Fits, IsReport, Report
  <2>4. QED
    BY <2>3 DEF t, sound
<1>8. CASE what = "navigation"
  <2> DEFINE rows == files["grpo"].rows
  <2>1. t = Navigation(rows, RecordedSessions)
        /\ ReportOf(what, t) = [Report(what, t) EXCEPT !.tasks = Selected(rows)]
    BY <1>8 DEF Built, ReportOf
  <2>2. Proper("navigation", t) /\ TasksOf(t) \subseteq Selected(rows) /\ Selected(rows) \subseteq Train
    BY <1>1, <1>2, <2>1, NavigationProper
  <2> HIDE DEF rows, t, sound
  <2>3. Fits(what, t, ReportOf(what, t), sound)
    BY <1>8, <2>1, <2>2 DEF Fits, IsReport, Report
  <2>4. QED
    BY <2>3 DEF t, sound
<1>9. CASE what = "semantic"
  <2>1. t = Semantic(RecordedTrajectories) /\ ~SemanticRefused(RecordedTrajectories)
    BY <1>9 DEF Built, Buildable
  <2>2. QED
    BY <1>1, <1>3, <1>9, <2>1, SemanticProper DEF RecordedWell
<1>10. CASE what = "mix"
  <2>1. /\ t = Mix(files["semantic"].rows, files["grpo"].rows, PerState)
        /\ ~MixRefused(files["semantic"].rows, files["grpo"].rows, PerState)
    BY <1>10 DEF Built, Buildable
  <2>2. PerState \in Nat
    BY PipelineAssumption
  <2>3. QED
    BY <1>2, <1>3, <1>10, <2>1, <2>2, MixProper
<1>11. QED
  BY <1>4, <1>5, <1>6, <1>7, <1>8, <1>9, <1>10 DEF Artifacts

\* A dataset that does not exist yet, or was just opened, has no rows.
LEMMA EmptyProper == \A a : Proper(a, <<>>)
BY SmallLists DEF Proper, Unique

\* Nothing is built at first, or what the gold and grpo builders make.
LEMMA DataInit == PairedInit => DataInv
<1> SUFFICES ASSUME PairedInit PROVE DataInv
  OBVIOUS
<1>1. BuilderTyped /\ RecordedTyped /\ builder.pc = "off"
  <2>1. Len(Traces) \in Nat /\ Len(Trajectories) \in Nat
    BY InputsAreLists, ListFacts
  <2>2. QED
    BY <2>1 DEF PairedInit, PipelineInit, BuilderTyped, RecordedTyped, NoBuild, Artifacts
<1>2. CASE files = [a \in Artifacts |-> NoFiles] /\ builds = {}
  <2>1. IsReport(NoReport, "gold")
    BY ReportFits, EmptyProper DEF NoReport, Fits
  <2>2. QED
    BY <1>1, <1>2, <2>1, EmptyProper DEF DataInv, FilesTyped, NoFiles, BuildsAreAccepted, Artifacts
<1>3. ASSUME NEW pinned \in RowLists, ~GoldRefused(cache, pinned),
             files = [a \in Artifacts |-> CASE a = "gold" -> GoldFiles(pinned)
                                             [] a = "grpo" -> GRPOFiles(pinned)
                                             [] OTHER -> NoFiles],
             builds = {<<f.rows, f.report, TRUE>> : f \in {GoldFiles(pinned), GRPOFiles(pinned)}}
      PROVE  DataInv
  <2> DEFINE g == GoldExamples(cache, pinned)
             x == GoldFiles(pinned)
             y == GRPOFiles(pinned)
  <2>1. Proper("gold", g) /\ Proper("grpo", Convert(g))
    BY <1>3, GoldProper, ConvertProper
  <2>2. /\ x.rows = g /\ x.report = Report("gold", g)
        /\ y.rows = Convert(g) /\ y.report = Report("grpo", Convert(g))
        /\ DOMAIN x = {"data", "rows", "described", "report"}
        /\ DOMAIN y = {"data", "rows", "described", "report"}
        /\ DOMAIN NoFiles = {"data", "rows", "described", "report"} /\ NoFiles.rows = <<>>
    BY DEF GoldFiles, GRPOFiles, FilesOf, NoFiles
  <2>a. /\ DOMAIN files = Artifacts /\ files["gold"] = x
        /\ \A a \in Artifacts : files[a] = CASE a = "gold" -> x [] a = "grpo" -> y [] OTHER -> NoFiles
    BY <1>3 DEF Artifacts
  <2>b. ASSUME NEW b \in builds
        PROVE  (b[1] = x.rows /\ b[2] = x.report) \/ (b[1] = y.rows /\ b[2] = y.report)
    <3>1. PICK f \in {x, y} : b = <<f.rows, f.report, TRUE>>
      BY <1>3
    <3> HIDE DEF x, y
    <3>2. QED
      BY <3>1
  <2> HIDE DEF g, x, y
  <2>3. Fits("gold", g, Report("gold", g), TRUE) /\ Fits("grpo", Convert(g), Report("grpo", Convert(g)), TRUE)
    BY <2>1, ReportFits
  <2>4. BuildsAreAccepted
    <3>1. ASSUME NEW b \in builds, b[1] # <<>>, b[2].protocol = "policy" => SearchesAreShort(b[1])
          PROVE  ReportAccepted(b[2]) /\ RowsAccepted(b[1], b[2])
      <4>1. \/ b[1] = g /\ b[2] = Report("gold", g)
            \/ b[1] = Convert(g) /\ b[2] = Report("grpo", Convert(g))
        <5>1. \/ b[1] = x.rows /\ b[2] = x.report
              \/ b[1] = y.rows /\ b[2] = y.report
          BY <2>b
        <5>2. QED
          BY <2>2, <5>1
      <4>2. "gold" \in Artifacts /\ "grpo" \in Artifacts
        BY DEF Artifacts
      <4>3. QED
        BY <2>3, <3>1, <4>1, <4>2, FitsAccepted
    <3>2. QED
      BY <3>1 DEF BuildsAreAccepted
  <2>5. \A a \in Artifacts : /\ Proper(a, files[a].rows)
                             /\ DOMAIN files[a] = {"data", "rows", "described", "report"}
    <3>1. ASSUME NEW a \in Artifacts
          PROVE  Proper(a, files[a].rows) /\ DOMAIN files[a] = {"data", "rows", "described", "report"}
      <4>1. CASE a = "gold"
        BY <2>1, <2>2, <2>a, <4>1
      <4>2. CASE a = "grpo"
        BY <2>1, <2>2, <2>a, <4>2
      <4>3. CASE a # "gold" /\ a # "grpo"
        BY <2>2, <2>a, <4>3, EmptyProper
      <4>4. QED
        BY <4>1, <4>2, <4>3
    <3>2. QED
      BY <3>1
  <2>6. IsReport(files["gold"].report, "gold")
    BY <2>2, <2>3, <2>a DEF Fits
  <2>7. QED
    BY <1>1, <2>4, <2>5, <2>6, <2>a DEF DataInv, FilesTyped
<1>4. QED
  BY <1>2, <1>3 DEF PairedInit, PipelineInit

\* A build starts from proper datasets, and a crash leaves one.
LEMMA DataStep == DataInv /\ [PairedNext]_pairedVars => DataInv'
<1> SUFFICES ASSUME DataInv, [PairedNext]_pairedVars PROVE DataInv'
  OBVIOUS
<1>0. /\ DOMAIN files = Artifacts
      /\ \A a \in Artifacts : DOMAIN files[a] = {"data", "rows", "described", "report"}
      /\ \A a \in Artifacts : Proper(a, files[a].rows)
      /\ DOMAIN builder = {"pc", "what", "rows", "report", "sound"}
      /\ builder.pc \in {"off", "writing", "report"} /\ builder.what \in Artifacts
      /\ builder.pc # "off" => Fits(builder.what, builder.rows, builder.report, builder.sound)
      /\ BuildsAreAccepted /\ RecordedTyped
      /\ IsReport(files["gold"].report, "gold") /\ "gold" \in Artifacts
  BY DEF DataInv, FilesTyped, BuilderTyped, Artifacts
<1>1. CASE StartBuild
  <2>1. PICK what \in Wanted, pinned \in RowLists :
          /\ Buildable(what, pinned)
          /\ builder' = [pc |-> "writing", what |-> what, rows |-> Built(what, pinned),
                         report |-> ReportOf(what, Built(what, pinned)),
                         sound |-> what = "grpo" => GoldIsDescribed]
          /\ files' = [files EXCEPT ![what].data = "torn", ![what].rows = <<>>]
    BY <1>1 DEF StartBuild
  <2>2. what \in Artifacts
    BY PipelineAssumption
  <2> DEFINE rows   == Built(what, pinned)
             report == ReportOf(what, Built(what, pinned))
             sound  == what = "grpo" => GoldIsDescribed
  <2>3. Fits(what, rows, report, sound)
    BY <2>1, <2>2, BuiltFits
  <2>4. recorded' = recorded /\ builds' = builds
    BY <1>1 DEF StartBuild
  <2>5. builder' = [pc |-> "writing", what |-> what, rows |-> rows, report |-> report, sound |-> sound]
    BY <2>1
  <2> HIDE DEF rows, report, sound
  <2>6. /\ FilesTyped' /\ \A a \in Artifacts : Proper(a, files'[a].rows)
        /\ files'["gold"].report = files["gold"].report
    BY <1>0, <2>1, <2>2, EmptyProper DEF FilesTyped
  <2>7. QED
    BY <1>0, <2>2, <2>3, <2>4, <2>5, <2>6 DEF DataInv, BuilderTyped, RecordedTyped, BuildsAreAccepted
<1>2. CASE WriteDataset
  <2>1. /\ files' = [files EXCEPT ![builder.what].data = "whole", ![builder.what].rows = builder.rows]
        /\ builder' = [builder EXCEPT !.pc = "report"] /\ recorded' = recorded /\ builds' = builds
        /\ builder.pc = "writing"
    BY <1>2 DEF WriteDataset
  <2>2. Fits(builder.what, builder.rows, builder.report, builder.sound) /\ Proper(builder.what, builder.rows)
    BY <1>0, <2>1 DEF Fits
  <2>3. /\ FilesTyped' /\ \A a \in Artifacts : Proper(a, files'[a].rows)
        /\ files'["gold"].report = files["gold"].report
    BY <1>0, <2>1, <2>2 DEF FilesTyped
  <2>4. BuilderTyped' /\ Fits(builder'.what, builder'.rows, builder'.report, builder'.sound)
    BY <1>0, <2>1, <2>2 DEF BuilderTyped
  <2>5. QED
    BY <1>0, <2>1, <2>3, <2>4 DEF DataInv, RecordedTyped, BuildsAreAccepted
<1>3. CASE WriteDatasetReport
  <2>1. /\ builder.pc = "report" /\ builder' = NoBuild /\ recorded' = recorded
        /\ \/ files' = files /\ builds' = builds
           \/ /\ files' = [files EXCEPT ![builder.what].described = TRUE,
                                        ![builder.what].report = builder.report]
              /\ builds' = builds \cup {<<builder.rows, builder.report, builder.sound>>}
    BY <1>3 DEF WriteDatasetReport
  <2>a. builder.what = "gold" => IsReport(builder.report, "gold")
    BY <1>0, <2>1 DEF Fits
  <2>b. /\ FilesTyped' /\ \A a \in Artifacts : Proper(a, files'[a].rows)
        /\ \/ files'["gold"].report = files["gold"].report
           \/ builder.what = "gold" /\ files'["gold"].report = builder.report
    BY <1>0, <2>1 DEF FilesTyped
  <2>2. /\ FilesTyped' /\ \A a \in Artifacts : Proper(a, files'[a].rows)
        /\ IsReport(files'["gold"].report, "gold")
    BY <1>0, <2>a, <2>b
  <2>3. BuilderTyped' /\ builder'.pc = "off"
    BY <2>1 DEF BuilderTyped, NoBuild, Artifacts
  <2>4. builder.rows # <<>> /\ builder.sound
           /\ (builder.report.protocol = "policy" => SearchesAreShort(builder.rows))
         => ReportAccepted(builder.report) /\ RowsAccepted(builder.rows, builder.report)
    <3>1. SUFFICES ASSUME builder.rows # <<>>, builder.sound,
                          builder.report.protocol = "policy" => SearchesAreShort(builder.rows)
                   PROVE  ReportAccepted(builder.report) /\ RowsAccepted(builder.rows, builder.report)
      OBVIOUS
    <3>2. Fits(builder.what, builder.rows, builder.report, TRUE)
      BY <1>0, <2>1, <3>1 DEF Fits
    <3>3. QED
      BY <1>0, <3>1, <3>2, FitsAccepted
  <2>5. BuildsAreAccepted'
    BY <1>0, <2>1, <2>4 DEF BuildsAreAccepted
  <2>6. QED
    BY <1>0, <2>1, <2>2, <2>3, <2>5 DEF DataInv, RecordedTyped
<1>4. CASE Record
  <2>1. Len(Traces) \in Nat /\ Len(Trajectories) \in Nat
    BY InputsAreLists, ListFacts
  <2>2. RecordedTyped'
    BY <1>0, <1>4, <2>1 DEF Record, RecordedTyped
  <2>3. UNCHANGED <<files, builder, builds>>
    BY <1>4 DEF Record
  <2>4. QED
    BY <1>0, <2>2, <2>3 DEF DataInv, FilesTyped, BuilderTyped, BuildsAreAccepted
<1>5. CASE Kill
  <2>1. recorded' = recorded /\ builds' = builds
    BY <1>5 DEF Kill
  <2>2. CASE /\ builder.pc = "writing"
             /\ \E n \in 0 .. Len(builder.rows) :
                   files' = [files EXCEPT ![builder.what].data = "whole",
                                          ![builder.what].rows = SubSeq(builder.rows, 1, n)]
             /\ builder' = NoBuild
    <3>1. PICK n \in 0 .. Len(builder.rows) :
             files' = [files EXCEPT ![builder.what].data = "whole",
                                    ![builder.what].rows = SubSeq(builder.rows, 1, n)]
      BY <2>2
    <3>2. Proper(builder.what, SubSeq(builder.rows, 1, n))
      BY <1>0, <2>2, ProperPrefix DEF Fits
    <3>3. /\ FilesTyped' /\ \A a \in Artifacts : Proper(a, files'[a].rows)
          /\ files'["gold"].report = files["gold"].report
      BY <1>0, <3>1, <3>2 DEF FilesTyped
    <3>4. BuilderTyped' /\ builder'.pc = "off"
      BY <2>2 DEF BuilderTyped, NoBuild, Artifacts
    <3>5. QED
      BY <1>0, <2>1, <3>3, <3>4 DEF DataInv, RecordedTyped, BuildsAreAccepted
  <2>3. CASE builder' = NoBuild /\ files' = files
    <3>1. BuilderTyped' /\ builder'.pc = "off"
      BY <2>3 DEF BuilderTyped, NoBuild, Artifacts
    <3>2. QED
      BY <1>0, <2>1, <2>3, <3>1 DEF DataInv, RecordedTyped, BuildsAreAccepted, FilesTyped
  <2>4. CASE builder' = builder /\ files' = files
    BY <1>0, <2>1, <2>4 DEF DataInv, RecordedTyped, BuildsAreAccepted, FilesTyped, BuilderTyped
  <2>5. QED
    BY <1>5, <2>2, <2>3, <2>4 DEF Kill
<1>6. CASE UNCHANGED <<files, builder, builds, recorded>>
  BY <1>0, <1>6 DEF DataInv, RecordedTyped, BuildsAreAccepted, FilesTyped, BuilderTyped
<1>7. ASSUME NEW t \in Trainers, Training(t) PROVE UNCHANGED <<files, builder, builds, recorded>>
  BY <1>7 DEF Training, LoadReport, LoadRows, Prepare, MakeOutput, OpenAdapter, SaveAdapter,
     ReportTraining
<1>8. QED
  BY <1>1, <1>2, <1>3, <1>4, <1>5, <1>6, <1>7 DEF PairedNext, PipelineNext, pairedVars, pipelineVars

\* sft_train and the builders: a dataset with an example is not refused beside the report
\* of the build it comes from, unless it teaches a policy a search that is too long, or was
\* converted beside the report of another gold dataset.
THEOREM BuildsPassValidation == PairedSpec => []BuildsAreAccepted
<1>1. DataInv => BuildsAreAccepted
  BY DEF DataInv
<1>2. QED
  BY <1>1, DataInit, DataStep, PTL DEF PairedSpec

\* Every line of a read in a dataset is the one the live tools would show, the cumulative
\* one excepted, and only the gold examples may lack the beginning of a long read.
THEOREM ReadsAreOfTheRepository == PairedSpec => []ReadsMatchTheRepository
<1>1. DataInv => ReadsMatchTheRepository
  BY DEF DataInv, Proper, ProperExample, Current, ReadsMatchTheRepository
<1>2. QED
  BY <1>1, DataInit, DataStep, PTL DEF PairedSpec

TrainerPCs == {"off", "rows", "prepare", "output", "train", "save", "report"}

\* The fields of every record.  Examples and reports have no type of their own: what
\* they are follows from the constants.
TrainersTyped ==
    /\ DOMAIN trainer = Trainers
    /\ \A t \in Trainers :
          /\ DOMAIN trainer[t] = {"pc", "what", "rows", "report", "hashed", "hashed_report"}
          /\ trainer[t].pc \in TrainerPCs /\ trainer[t].what \in Artifacts

OutputTyped ==
    /\ DOMAIN output = {"made", "by", "adapter", "weights", "reported", "count", "sources", "protocol",
                        "hashed", "hashed_report", "trained_on", "used"}
    /\ output.made \in BOOLEAN /\ output.reported \in BOOLEAN

----------------------------------------------------------------------------
(* One trainer at a time saves, and the first one that does is the last.   *)

Saving == {"train", "save", "report"}

\* Whoever trains made the directory; the weights are what its place in the program says.
OneSaves ==
    /\ output.made <=> output.by # {}
    /\ ~output.made => output.weights = "none" /\ ~output.reported
    /\ \A t \in Trainers :
          trainer[t].pc \in Saving =>
             /\ output.by = {t} /\ ~output.reported
             /\ trainer[t].pc = "train"  => output.weights = "none"
             /\ trainer[t].pc = "save"   => output.weights = "torn"
             /\ trainer[t].pc = "report" => output.weights = "whole"
                                            /\ output.adapter = trainer[t].rows

SaveInv == TrainersTyped /\ OutputTyped /\ OneSaves

\* Nobody trains at first.
LEMMA SaveInit == PairedInit => SaveInv
BY DEF PairedInit, PipelineInit, SaveInv, TrainersTyped, OutputTyped, OneSaves, NoTrainer,
   NoOutput, TrainerPCs, Artifacts, Saving

\* mkdir lets one trainer through, once.
LEMMA SaveStep == SaveInv /\ [PairedNext]_pairedVars => SaveInv'
<1> SUFFICES ASSUME SaveInv, [PairedNext]_pairedVars PROVE SaveInv'
  OBVIOUS
<1> USE DEF SaveInv, TrainersTyped, OutputTyped, OneSaves, TrainerPCs, Saving
<1>1. ASSUME NEW t \in Trainers, LoadReport(t) PROVE SaveInv'
  <2>1. PICK what \in Given : trainer' = [trainer EXCEPT ![t] = [NoTrainer EXCEPT !.pc = "rows",
                                             !.what = what, !.report = files[what].report]]
    BY <1>1 DEF LoadReport
  <2>2. DOMAIN [NoTrainer EXCEPT !.pc = "rows", !.what = what, !.report = files[what].report]
           = {"pc", "what", "rows", "report", "hashed", "hashed_report"}
    BY DEF NoTrainer
  <2>3. trainer'[t].pc = "rows" /\ trainer'[t].what = what
    BY <2>1 DEF NoTrainer
  <2>4. QED
    BY <1>1, <2>1, <2>2, <2>3, PipelineAssumption DEF LoadReport
<1>2. ASSUME NEW t \in Trainers, LoadRows(t) PROVE SaveInv'
  <2>1. CASE trainer' = [trainer EXCEPT ![t] = NoTrainer]
    BY <2>1, <1>2 DEF LoadRows, NoTrainer, Artifacts
  <2>2. CASE trainer' = [trainer EXCEPT ![t].pc = "prepare", ![t].rows = files[trainer[t].what].rows]
    BY <2>2, <1>2 DEF LoadRows
  <2>3. QED
    BY <2>1, <2>2, <1>2 DEF LoadRows
<1>3. ASSUME NEW t \in Trainers, Prepare(t) PROVE SaveInv'
  <2>1. CASE trainer' = [trainer EXCEPT ![t] = NoTrainer]
    BY <2>1, <1>3 DEF Prepare, NoTrainer, Artifacts
  <2>2. CASE trainer' = [trainer EXCEPT ![t].pc = "output",
                                        ![t].hashed = files[trainer[t].what].rows,
                                        ![t].hashed_report = files[trainer[t].what].report]
    BY <2>2, <1>3 DEF Prepare
  <2>3. QED
    BY <2>1, <2>2, <1>3 DEF Prepare
<1>4. ASSUME NEW t \in Trainers, MakeOutput(t) PROVE SaveInv'
  <2>1. CASE output.made
    <3>1. trainer' = [trainer EXCEPT ![t] = NoTrainer] /\ output' = output
      BY <2>1, <1>4 DEF MakeOutput
    <3>2. QED
      BY <3>1 DEF NoTrainer, Artifacts
  <2>2. CASE ~output.made
    <3>1. /\ output' = [output EXCEPT !.made = TRUE, !.by = {t}]
          /\ trainer' = [trainer EXCEPT ![t].pc = "train"]
      BY <2>2, <1>4 DEF MakeOutput
    <3>2. \A u \in Trainers : trainer[u].pc \notin Saving
      BY <2>2
    <3>3. QED
      BY <2>2, <3>1, <3>2
  <2>3. QED
    BY <2>1, <2>2
<1>5. ASSUME NEW t \in Trainers, OpenAdapter(t) PROVE SaveInv'
  BY <1>5 DEF OpenAdapter
<1>6. ASSUME NEW t \in Trainers, SaveAdapter(t) PROVE SaveInv'
  BY <1>6 DEF SaveAdapter
<1>7. ASSUME NEW t \in Trainers, ReportTraining(t) PROVE SaveInv'
  BY <1>7 DEF ReportTraining, NoTrainer, Artifacts
<1>8. CASE Kill
  BY <1>8 DEF Kill, NoTrainer, Artifacts
<1>9. CASE UNCHANGED <<trainer, output>>
  BY <1>9
<1>10. QED
  BY <1>1, <1>2, <1>3, <1>4, <1>5, <1>6, <1>7, <1>8, <1>9
     DEF PairedNext, PipelineNext, Training, StartBuild, WriteDataset, WriteDatasetReport, Record,
         pairedVars, pipelineVars

----------------------------------------------------------------------------
(* The training report.                                                    *)

\* No example is there twice, and all are of these sources and this protocol.
Describes(sources, protocol, rows) ==
    /\ Sequence(rows) /\ Unique(rows)
    /\ SourcesOf(rows) \subseteq sources
    /\ \A i \in DOMAIN rows : rows[i].protocol = protocol

Loaded == {"prepare", "output"} \cup Saving

\* From the moment its rows are checked until its report is written a trainer has in memory
\* what both are about; SaveInv says that no other trainer touches the adapter meanwhile.
AdapterInv ==
    /\ \A t \in Trainers :
          trainer[t].pc \in Loaded =>
             Describes(trainer[t].report.sources, trainer[t].report.protocol, trainer[t].rows)
    /\ output.reported =>
          /\ output.trained_on = output.adapter /\ output.count = Len(output.adapter)
          /\ Describes(output.sources, output.protocol, output.adapter)

\* Rows with different ids have as many ids as there are rows.
LEMMA AsManyIds ==
    ASSUME NEW rows, Sequence(rows), Unique(rows)
    PROVE  Cardinality({rows[i].id : i \in DOMAIN rows}) = Len(rows)
<1> DEFINE P == DOMAIN rows
           I == {rows[i].id : i \in P}
           f == [i \in P |-> rows[i].id]
<1>1. f \in Bijection(P, I)
  <2>1. f \in [P -> I] /\ \A i, j \in P : f[i] = f[j] => i = j
    BY DEF Unique
  <2>2. \A x \in I : \E i \in P : f[i] = x
    OBVIOUS
  <2> HIDE DEF f, I, P
  <2>3. QED
    BY <2>1, <2>2 DEF Bijection, Injection, Surjection, IsInjective
<1>2. IsFiniteSet(P) /\ Cardinality(P) = Len(rows)
  BY DomainFacts
<1> HIDE DEF f, I, P
<1>3. ExistsBijection(P, I)
  BY <1>1 DEF ExistsBijection
<1>4. Cardinality(I) = Cardinality(P)
  BY <1>2, <1>3, FS_Bijection
<1>5. QED
  BY <1>2, <1>4 DEF I, P

\* There is no report at first.
LEMMA AdapterInit == PairedInit => AdapterInv
BY DEF PairedInit, PipelineInit, AdapterInv, NoTrainer, NoOutput, Loaded, Saving

\* A trainer carries its rows from the check to the report, unless it is killed.
LEMMA AdapterStep ==
    SaveInv /\ DataInv /\ AdapterInv /\ [PairedNext]_pairedVars => AdapterInv'
<1> SUFFICES ASSUME SaveInv, DataInv, AdapterInv, [PairedNext]_pairedVars PROVE AdapterInv'
  OBVIOUS
<1> USE DEF AdapterInv, Loaded, Saving, SaveInv, TrainersTyped, OutputTyped, OneSaves
<1>1. ASSUME NEW t \in Trainers, LoadReport(t) PROVE AdapterInv'
  <2>1. /\ output' = output
        /\ \E what \in Given : trainer' = [trainer EXCEPT ![t] =
              [NoTrainer EXCEPT !.pc = "rows", !.what = what, !.report = files[what].report]]
    BY <1>1 DEF LoadReport
  <2>2. /\ \A u \in Trainers \ {t} : trainer'[u] = trainer[u]
        /\ trainer'[t].pc = "rows"
    BY <2>1 DEF NoTrainer
  <2>3. QED
    BY <2>1, <2>2
<1>2. ASSUME NEW t \in Trainers, LoadRows(t) PROVE AdapterInv'
  <2>1. output' = output
    BY <1>2 DEF LoadRows
  <2>2. CASE trainer' = [trainer EXCEPT ![t] = NoTrainer]
    BY <2>1, <2>2 DEF NoTrainer
  <2> DEFINE rows == files[trainer[t].what].rows
  <2>3. CASE /\ RowsAccepted(rows, trainer[t].report)
             /\ trainer' = [trainer EXCEPT ![t].pc = "prepare", ![t].rows = rows]
    <3>1. Proper(trainer[t].what, rows)
      BY DEF DataInv
    <3> HIDE DEF rows
    <3>2. Describes(trainer[t].report.sources, trainer[t].report.protocol, rows)
      <4>1. /\ Sequence(rows) /\ Unique(rows)
            /\ \A i \in DOMAIN rows : /\ rows[i].source \in trainer[t].report.sources
                                      /\ rows[i].protocol = trainer[t].report.protocol
        BY <2>3, <3>1 DEF Proper, RowsAccepted, ExampleAccepted
      <4>2. QED
        BY <4>1 DEF Describes, SourcesOf
    <3>3. /\ \A u \in Trainers \ {t} : trainer'[u] = trainer[u]
          /\ trainer'[t].report = trainer[t].report /\ trainer'[t].rows = rows
      BY <2>3
    <3>4. QED
      BY <2>1, <3>2, <3>3
  <2>4. QED
    BY <1>2, <2>2, <2>3 DEF LoadRows
<1>3. ASSUME NEW t \in Trainers, Prepare(t) PROVE AdapterInv'
  <2>1. output' = output /\ trainer[t].pc = "prepare"
    BY <1>3 DEF Prepare
  <2>2. CASE trainer' = [trainer EXCEPT ![t] = NoTrainer]
    BY <2>1, <2>2 DEF NoTrainer
  <2>3. CASE trainer' = [trainer EXCEPT ![t].pc = "output",
                                        ![t].hashed = files[trainer[t].what].rows,
                                        ![t].hashed_report = files[trainer[t].what].report]
    <3>1. /\ \A u \in Trainers \ {t} : trainer'[u] = trainer[u]
          /\ trainer'[t].report = trainer[t].report /\ trainer'[t].rows = trainer[t].rows
      BY <2>3
    <3>2. QED
      BY <2>1, <3>1
  <2>4. QED
    BY <1>3, <2>2, <2>3 DEF Prepare
<1>4. ASSUME NEW t \in Trainers, MakeOutput(t) PROVE AdapterInv'
  <2>1. CASE trainer' = [trainer EXCEPT ![t] = NoTrainer] /\ output' = output
    BY <2>1 DEF NoTrainer
  <2>2. CASE /\ output' = [output EXCEPT !.made = TRUE, !.by = {t}]
             /\ trainer' = [trainer EXCEPT ![t].pc = "train"]
    <3>1. trainer[t].pc = "output"
      BY <1>4 DEF MakeOutput
    <3>2. QED
      BY <2>2, <3>1
  <2>3. QED
    BY <1>4, <2>1, <2>2 DEF MakeOutput
<1>5. ASSUME NEW t \in Trainers, OpenAdapter(t) PROVE AdapterInv'
  BY <1>5 DEF OpenAdapter
<1>6. ASSUME NEW t \in Trainers, SaveAdapter(t) PROVE AdapterInv'
  BY <1>6 DEF SaveAdapter
<1>7. ASSUME NEW t \in Trainers, ReportTraining(t) PROVE AdapterInv'
  BY <1>7 DEF ReportTraining, NoTrainer
<1>8. CASE Kill
  BY <1>8 DEF Kill, NoTrainer
<1>9. CASE UNCHANGED <<trainer, output>>
  BY <1>9
<1>10. QED
  BY <1>1, <1>2, <1>3, <1>4, <1>5, <1>6, <1>7, <1>8, <1>9
     DEF PairedNext, PipelineNext, Training, StartBuild, WriteDataset, WriteDatasetReport, Record,
         pairedVars, pipelineVars

\* sft_train: the training report beside an adapter tells the number, the sources and the
\* protocol of the examples the adapter learnt, whatever was rebuilt, cut short or trained
\* meanwhile.
THEOREM ReportsTellOfTheAdapter == PairedSpec => []AdapterIsReported
<1>1. AdapterInv => AdapterIsReported
  BY AsManyIds DEF AdapterInv, AdapterIsReported, Describes
<1>2. QED
  BY <1>1, SaveInit, SaveStep, DataInit, DataStep, AdapterInit, AdapterStep, PTL DEF PairedSpec

----------------------------------------------------------------------------
(* What is frozen.                                                         *)

\* A builder writes only to a file it emptied.
WriteInv == builder.pc = "writing" => files[builder.what].data = "torn"

\* Nothing is written at first.
LEMMA WriteInit == PairedInit => WriteInv
BY DEF PairedInit, PipelineInit, WriteInv, NoBuild

\* The file a builder writes to stays torn until it is done or killed.
LEMMA WriteStep == DataInv /\ WriteInv /\ [PairedNext]_pairedVars => WriteInv'
<1> SUFFICES ASSUME DataInv, WriteInv, [PairedNext]_pairedVars PROVE WriteInv'
  OBVIOUS
<1>0. /\ DOMAIN files = Artifacts
      /\ \A a \in Artifacts : DOMAIN files[a] = {"data", "rows", "described", "report"}
      /\ DOMAIN builder = {"pc", "what", "rows", "report", "sound"} /\ builder.what \in Artifacts
  BY DEF DataInv, FilesTyped, BuilderTyped
<1>1. CASE StartBuild
  <2>1. PICK what \in Wanted, pinned \in RowLists :
          /\ builder' = [pc |-> "writing", what |-> what, rows |-> Built(what, pinned),
                         report |-> ReportOf(what, Built(what, pinned)),
                         sound |-> what = "grpo" => GoldIsDescribed]
          /\ files' = [files EXCEPT ![what].data = "torn", ![what].rows = <<>>]
    BY <1>1 DEF StartBuild
  <2>2. what \in Artifacts /\ builder'.what = what
    BY <2>1, PipelineAssumption
  <2>3. QED
    BY <1>0, <2>1, <2>2 DEF WriteInv
<1>2. CASE WriteDataset
  BY <1>0, <1>2 DEF WriteDataset, WriteInv
<1>3. CASE WriteDatasetReport
  BY <1>3 DEF WriteDatasetReport, WriteInv, NoBuild
<1>4. CASE Kill
  <2>1. builder' = NoBuild \/ (builder' = builder /\ files' = files)
    BY <1>4 DEF Kill
  <2>2. QED
    BY <2>1 DEF WriteInv, NoBuild
<1>5. CASE UNCHANGED <<files, builder>>
  BY <1>5 DEF WriteInv
<1>6. QED
  BY <1>1, <1>2, <1>3, <1>4, <1>5
     DEF PairedNext, PipelineNext, Training, LoadReport, LoadRows, Prepare, MakeOutput, OpenAdapter,
         SaveAdapter, ReportTraining, Record, pairedVars, pipelineVars

\* Recovery data that is whole keeps its rows.
LEMMA RowsStay ==
    ASSUME DataInv, WriteInv, [PairedNext]_pairedVars, NEW a \in {"semantic", "mix"},
           files[a].data = "whole"
    PROVE  files'[a].rows = files[a].rows
<1>0. /\ DOMAIN files = Artifacts /\ a \in Artifacts
      /\ \A x \in Artifacts : DOMAIN files[x] = {"data", "rows", "described", "report"}
      /\ builder.what \in Artifacts
  BY DEF DataInv, FilesTyped, BuilderTyped, Artifacts
<1>1. CASE StartBuild
  <2>1. PICK what \in Wanted : /\ MayWrite(what)
                               /\ files' = [files EXCEPT ![what].data = "torn", ![what].rows = <<>>]
    BY <1>1 DEF StartBuild
  <2>2. what # a
    BY <2>1 DEF MayWrite
  <2>3. QED
    BY <1>0, <2>1, <2>2
<1>2. CASE builder.pc = "writing" /\ \A x \in Artifacts \ {builder.what} : files'[x] = files[x]
  <2>1. builder.what # a
    BY <1>2 DEF WriteInv
  <2>2. QED
    BY <1>0, <1>2, <2>1
<1>3. CASE WriteDataset
  BY <1>0, <1>2, <1>3 DEF WriteDataset
<1>4. CASE WriteDatasetReport
  <2>1. \/ files' = files
        \/ files' = [files EXCEPT ![builder.what].described = TRUE,
                                  ![builder.what].report = builder.report]
    BY <1>4 DEF WriteDatasetReport
  <2>2. QED
    BY <1>0, <2>1
<1>5. CASE Kill
  <2>1. \/ files' = files
        \/ /\ builder.pc = "writing"
           /\ \E n \in 0 .. Len(builder.rows) :
                 files' = [files EXCEPT ![builder.what].data = "whole",
                                        ![builder.what].rows = SubSeq(builder.rows, 1, n)]
    BY <1>5 DEF Kill
  <2>2. QED
    BY <1>0, <1>2, <2>1
<1>6. CASE files' = files
  BY <1>6
<1>7. QED
  BY <1>1, <1>3, <1>4, <1>5, <1>6
     DEF PairedNext, PipelineNext, Training, LoadReport, LoadRows, Prepare, MakeOutput, OpenAdapter,
         SaveAdapter, ReportTraining, Record, pairedVars, pipelineVars

\* Weights that are whole stay what they are.
LEMMA WeightsStay ==
    ASSUME SaveInv, [PairedNext]_pairedVars, output.weights = "whole"
    PROVE  output'.weights = "whole" /\ output'.adapter = output.adapter
<1> USE DEF SaveInv, TrainersTyped, OutputTyped, OneSaves, Saving
<1>1. ASSUME NEW t \in Trainers, MakeOutput(t)
      PROVE  output'.weights = "whole" /\ output'.adapter = output.adapter
  <2>1. output' = output \/ output' = [output EXCEPT !.made = TRUE, !.by = {t}]
    BY <1>1 DEF MakeOutput
  <2>2. QED
    BY <2>1
<1>2. ASSUME NEW t \in Trainers, OpenAdapter(t) \/ SaveAdapter(t) PROVE FALSE
  BY <1>2 DEF OpenAdapter, SaveAdapter
<1>3. ASSUME NEW t \in Trainers, ReportTraining(t)
      PROVE  output'.weights = "whole" /\ output'.adapter = output.adapter
  BY <1>3 DEF ReportTraining
<1>4. CASE output' = output
  BY <1>4
<1>5. QED
  BY <1>1, <1>2, <1>3, <1>4
     DEF PairedNext, PipelineNext, Training, LoadReport, LoadRows, Prepare, StartBuild, WriteDataset,
         WriteDatasetReport, Record, Kill, pairedVars, pipelineVars

\* The frozen files: neither a second builder or trainer nor a restart after a crash writes
\* over audited recovery data or a saved adapter.
THEOREM FrozenForGood == PairedSpec => FrozenFilesStay
<1>1. SaveInv /\ DataInv /\ WriteInv /\ [PairedNext]_pairedVars =>
         [/\ \A a \in {"semantic", "mix"} :
               files[a].data = "whole" => files'[a].rows = files[a].rows
          /\ output.weights = "whole" =>
               output'.weights = "whole" /\ output'.adapter = output.adapter]_pipelineVars
  BY RowsStay, WeightsStay
<1>2. QED
  BY <1>1, SaveInit, SaveStep, DataInit, DataStep, WriteInit, WriteStep, PTL
     DEF PairedSpec, FrozenFilesStay

----------------------------------------------------------------------------
(* The evaluation.                                                         *)

EvaluationTyped ==
    /\ DOMAIN evaluation = {"pc", "sha", "merged", "controls", "entries", "lost"}
    /\ DOMAIN evaluation.entries = Conditions
    /\ DOMAIN paired = {"complete", "gate", "sha", "conditions"}
    /\ \A c \in Conditions : Sequence(evaluation.entries[c])

\* The report names the weights hashed at the start; those in the model are the ones on disk,
\* which are whole and stay so.
MergeInv ==
    /\ evaluation.pc \in {"teacher", "clean-base", "p2-step12-adapter", "done"} =>
          paired.sha = evaluation.sha
    /\ evaluation.pc = "p2-step12-adapter" =>
          output.weights = "whole" /\ evaluation.merged = Weights
    /\ paired.complete => evaluation.pc = "done" /\ evaluation.merged = paired.sha

\* Nothing is generated before the gate, and the controls stay as it found them.
EntriesInv ==
    /\ evaluation.pc \in {"off", "teacher"} => \A c \in Conditions : evaluation.entries[c] = <<>>
    /\ evaluation.pc \in Conditions => GatePassed
    /\ SuccessesAreEarned

EvaluationInv == EvaluationTyped /\ MergeInv /\ EntriesInv

\* Nothing is evaluated at first.
LEMMA EvaluationInit == PairedInit => EvaluationInv
BY SmallLists DEF PairedInit, EvaluationInv, EvaluationTyped, MergeInv, EntriesInv, NoEvaluation, NoPaired,
   SuccessesAreEarned, Conditions

\* semantic_success is the edit's own, unless it failed in the second session.
LEMMA SuccessIsGood ==
    ASSUME NEW context, NEW worth, NEW p, NEW q,
           SemanticSuccess(Executed(context, worth, "immediate", p),
                           Executed(context, worth, "with-teacher-suffix", q))
    PROVE  Good(worth) \/ q = "exec"
BY DEF SemanticSuccess, Executed, Repairs, Applies, Good

\* Neither the evaluation nor the programs beside it disturb what was compared.
LEMMA EvaluationStep ==
    SaveInv /\ EvaluationInv /\ [PairedNext]_pairedVars => EvaluationInv'
<1> SUFFICES ASSUME SaveInv, EvaluationInv, [PairedNext]_pairedVars PROVE EvaluationInv'
  OBVIOUS
<1> USE DEF EvaluationInv
<1>1. CASE UNCHANGED <<evaluation, paired>>
  <2>1. EvaluationTyped' /\ EntriesInv'
    BY <1>1 DEF EvaluationTyped, EntriesInv, SuccessesAreEarned, GatePassed
  <2>2. output.weights = "whole" => output'.weights = "whole" /\ Weights' = Weights
    BY WeightsStay DEF Weights
  <2>3. MergeInv'
    BY <1>1, <2>2 DEF MergeInv
  <2>4. QED
    BY <2>1, <2>3
<1>2. ASSUME evaluation' = Aborted, paired'.complete = paired.complete, evaluation.pc # "done",
             DOMAIN paired' = DOMAIN paired
      PROVE  EvaluationInv'
  <2>1. /\ evaluation'.pc = "raised" /\ evaluation'.entries = evaluation.entries
        /\ evaluation'.controls = evaluation.controls /\ DOMAIN evaluation' = DOMAIN evaluation
    BY <1>2 DEF Aborted, EvaluationTyped
  <2>2. EvaluationTyped'
    BY <1>2, <2>1 DEF EvaluationTyped
  <2>3. MergeInv'
    BY <1>2, <2>1 DEF MergeInv
  <2>4. EntriesInv'
    BY <2>1 DEF EntriesInv, SuccessesAreEarned, Conditions
  <2>5. QED
    BY <2>2, <2>3, <2>4
<1>3. CASE BeginEvaluation /\ UNCHANGED pipelineVars
  <2>1. /\ evaluation.pc = "off" /\ evaluation' = [evaluation EXCEPT !.pc = "teacher", !.sha = Weights]
        /\ paired' = [NoPaired EXCEPT !.sha = Weights]
    BY <1>3 DEF BeginEvaluation
  <2>2. /\ evaluation'.pc = "teacher" /\ evaluation'.entries = evaluation.entries
        /\ evaluation'.sha = Weights /\ DOMAIN evaluation' = DOMAIN evaluation
        /\ paired'.sha = Weights /\ ~paired'.complete
        /\ DOMAIN paired' = {"complete", "gate", "sha", "conditions"}
    BY <2>1 DEF EvaluationTyped, NoPaired
  <2>3. EvaluationTyped' /\ MergeInv'
    BY <2>2 DEF EvaluationTyped, MergeInv
  <2>4. EntriesInv'
    BY <2>1, <2>2 DEF EntriesInv, SuccessesAreEarned, Conditions
  <2>5. QED
    BY <2>3, <2>4
<1>4. CASE Control /\ UNCHANGED pipelineVars
  <2>1. evaluation.pc = "teacher" /\ paired' = paired /\ output' = output
    BY <1>4 DEF Control, pipelineVars
  <2>2. CASE evaluation' = Aborted
    BY <1>2, <2>1, <2>2
  <2>3. CASE \E lost, controls :
                evaluation' = [evaluation EXCEPT !.lost = lost, !.controls = controls]
    <3>1. /\ evaluation'.pc = "teacher" /\ evaluation'.entries = evaluation.entries
          /\ evaluation'.sha = evaluation.sha /\ DOMAIN evaluation' = DOMAIN evaluation
      BY <2>1, <2>3 DEF EvaluationTyped
    <3>2. EvaluationTyped' /\ MergeInv'
      BY <2>1, <3>1 DEF EvaluationTyped, MergeInv
    <3>3. EntriesInv'
      BY <2>1, <3>1 DEF EntriesInv, SuccessesAreEarned, Conditions
    <3>4. QED
      BY <3>2, <3>3
  <2>4. QED
    BY <1>4, <2>2, <2>3 DEF Control
<1>5. CASE Gate /\ UNCHANGED pipelineVars
  <2>1. /\ evaluation.pc = "teacher" /\ paired' = [paired EXCEPT !.gate = GatePassed] /\ output' = output
        /\ evaluation' = IF GatePassed THEN [evaluation EXCEPT !.pc = "clean-base"] ELSE Aborted
    BY <1>5 DEF Gate, pipelineVars
  <2>2. paired'.sha = paired.sha /\ paired'.complete = paired.complete /\ DOMAIN paired' = DOMAIN paired
    BY <2>1 DEF EvaluationTyped
  <2>3. CASE ~GatePassed
    BY <1>2, <2>1, <2>2, <2>3
  <2>4. CASE GatePassed
    <3>1. /\ evaluation'.pc = "clean-base" /\ evaluation'.entries = evaluation.entries
          /\ evaluation'.sha = evaluation.sha /\ DOMAIN evaluation' = DOMAIN evaluation
          /\ evaluation'.controls = evaluation.controls
      BY <2>1, <2>4 DEF EvaluationTyped
    <3>2. EvaluationTyped' /\ MergeInv'
      BY <2>1, <2>2, <3>1 DEF EvaluationTyped, MergeInv
    <3>3. EntriesInv'
      BY <2>1, <2>4, <3>1 DEF EntriesInv, SuccessesAreEarned, Conditions, GatePassed
    <3>4. QED
      BY <3>2, <3>3
  <2>5. QED
    BY <2>3, <2>4
<1>6. CASE Merge /\ UNCHANGED pipelineVars
  <2>1. /\ evaluation.pc = "clean-base" /\ output' = output
        /\ paired' = [paired EXCEPT !.conditions["clean-base"] = evaluation.entries["clean-base"]]
        /\ evaluation' = IF Weights.whole
                         THEN [evaluation EXCEPT !.pc = "p2-step12-adapter", !.merged = Weights]
                         ELSE Aborted
    BY <1>6 DEF Merge, pipelineVars
  <2>2. paired'.sha = paired.sha /\ paired'.complete = paired.complete /\ DOMAIN paired' = DOMAIN paired
    BY <2>1 DEF EvaluationTyped
  <2>3. CASE ~Weights.whole
    BY <1>2, <2>1, <2>2, <2>3
  <2>4. CASE Weights.whole
    <3>1. /\ evaluation'.pc = "p2-step12-adapter" /\ evaluation'.entries = evaluation.entries
          /\ evaluation'.sha = evaluation.sha /\ DOMAIN evaluation' = DOMAIN evaluation
          /\ evaluation'.controls = evaluation.controls /\ evaluation'.merged = Weights
      BY <2>1, <2>4 DEF EvaluationTyped
    <3>2. Weights' = Weights /\ output'.weights = "whole"
      BY <2>1, <2>4 DEF Weights
    <3>3. EvaluationTyped' /\ MergeInv'
      BY <2>1, <2>2, <3>1, <3>2 DEF EvaluationTyped, MergeInv
    <3>4. EntriesInv'
      BY <2>1, <3>1 DEF EntriesInv, SuccessesAreEarned, Conditions, GatePassed
    <3>5. QED
      BY <3>3, <3>4
  <2>5. QED
    BY <2>3, <2>4
<1>7. CASE Compare /\ UNCHANGED pipelineVars
  <2>1. evaluation.pc = "p2-step12-adapter" /\ output' = output
    BY <1>7 DEF Compare, pipelineVars
  <2>2. CASE evaluation' = Aborted /\ paired' = paired
    BY <1>2, <2>1, <2>2
  <2>3. CASE /\ AdapterUnchanged /\ evaluation' = [evaluation EXCEPT !.pc = "done"]
             /\ paired' = [paired EXCEPT !.complete = TRUE,
                              !.conditions["p2-step12-adapter"] = evaluation.entries["p2-step12-adapter"]]
    <3>1. /\ evaluation'.pc = "done" /\ evaluation'.entries = evaluation.entries
          /\ evaluation'.sha = evaluation.sha /\ DOMAIN evaluation' = DOMAIN evaluation
          /\ evaluation'.controls = evaluation.controls /\ evaluation'.merged = evaluation.merged
          /\ paired'.sha = paired.sha /\ DOMAIN paired' = DOMAIN paired
      BY <2>3 DEF EvaluationTyped
    <3>2. EvaluationTyped' /\ MergeInv'
      BY <2>1, <2>3, <3>1 DEF EvaluationTyped, MergeInv, AdapterUnchanged
    <3>3. EntriesInv'
      BY <2>1, <3>1 DEF EntriesInv, SuccessesAreEarned, Conditions, GatePassed
    <3>4. QED
      BY <3>2, <3>3
  <2>4. QED
    BY <1>7, <2>2, <2>3 DEF Compare
<1>8. ASSUME NEW condition \in Conditions, Generate(condition), UNCHANGED pipelineVars
      PROVE  EvaluationInv'
  <2>1. evaluation.pc = condition /\ paired' = paired /\ output' = output
    BY <1>8 DEF Generate, pipelineVars
  <2>2. CASE evaluation' = Aborted
    BY <1>2, <2>1, <2>2 DEF Conditions
  <2>3. CASE \E lost, good, semantic, alone :
                /\ semantic => good \/ alone
                /\ evaluation' = [evaluation EXCEPT !.lost = lost,
                      !.entries[condition] = Append(@, [good |-> good, semantic |-> semantic, alone |-> alone])]
    <3>1. PICK lost, good, semantic, alone :
                /\ semantic => good \/ alone
                /\ evaluation' = [evaluation EXCEPT !.lost = lost,
                      !.entries[condition] = Append(@, [good |-> good, semantic |-> semantic, alone |-> alone])]
      BY <2>3
    <3> DEFINE entry == [good |-> good, semantic |-> semantic, alone |-> alone]
               old   == evaluation.entries[condition]
               new   == Append(old, entry)
    <3>2. /\ evaluation'.pc = condition /\ evaluation'.controls = evaluation.controls
          /\ evaluation'.sha = evaluation.sha /\ evaluation'.merged = evaluation.merged
          /\ DOMAIN evaluation' = DOMAIN evaluation
          /\ evaluation'.entries = [evaluation.entries EXCEPT ![condition] = new]
      BY <2>1, <3>1 DEF EvaluationTyped
    <3>3. entry.semantic => entry.good \/ entry.alone
      BY <3>1
    <3> HIDE DEF entry
    <3>4. Sequence(old)
      BY DEF EvaluationTyped
    <3>5. /\ Sequence(new)
          /\ \A i \in DOMAIN new : (i \in DOMAIN old /\ new[i] = old[i]) \/ new[i] = entry
      <4>1. Sequence(new) /\ Len(new) = Len(old) + 1
        BY <3>4, AppendList
      <4>2. Len(old) \in Nat /\ DOMAIN old = 1 .. Len(old) /\ DOMAIN new = 1 .. Len(old) + 1
        BY <3>4, <4>1, ListFacts
      <4>3. \A i \in 1 .. Len(old) + 1 : new[i] = IF i <= Len(old) THEN old[i] ELSE entry
        BY <3>4, <4>2 DEF Sequence
      <4>4. QED
        BY <4>1, <4>2, <4>3
    <3> HIDE DEF old, new
    <3>6. /\ evaluation'.entries[condition] = new /\ DOMAIN evaluation'.entries = Conditions
          /\ \A c \in Conditions \ {condition} : evaluation'.entries[c] = evaluation.entries[c]
      BY <3>2 DEF EvaluationTyped
    <3>7. EvaluationTyped'
      BY <2>1, <3>2, <3>5, <3>6 DEF EvaluationTyped
    <3>8. MergeInv'
      BY <2>1, <3>2 DEF MergeInv, Weights
    <3>9. GatePassed /\ GatePassed'
      BY <2>1, <3>2 DEF EntriesInv, GatePassed
    <3>10. ASSUME NEW c \in Conditions, NEW i \in DOMAIN evaluation'.entries[c],
                  evaluation'.entries[c][i].semantic
           PROVE  evaluation'.entries[c][i].good \/ evaluation'.entries[c][i].alone
      <4>1. CASE c = condition
        <5>1. CASE i \in DOMAIN old /\ new[i] = old[i]
          BY <3>6, <3>10, <4>1, <5>1 DEF EntriesInv, SuccessesAreEarned, old
        <5>2. CASE new[i] = entry
          BY <3>3, <3>6, <3>10, <4>1, <5>2
        <5>3. QED
          BY <3>5, <3>6, <4>1, <5>1, <5>2
      <4>2. CASE c # condition
        BY <3>6, <3>10, <4>2 DEF EntriesInv, SuccessesAreEarned
      <4>3. QED
        BY <4>1, <4>2
    <3>11. EntriesInv'
      BY <2>1, <3>2, <3>9, <3>10 DEF EntriesInv, SuccessesAreEarned, Conditions, GatePassed
    <3>12. QED
      BY <3>7, <3>8, <3>11
  <2>4. QED
    <3> DEFINE context == Contexts[Len(evaluation.entries[condition]) + 1]
    <3>1. PICK worth \in Worths : \E losses \in Losses(context, worth) :
             evaluation' =
                IF losses[1] \in Fatal \/ losses[2] \in Fatal THEN Aborted
                ELSE [evaluation EXCEPT
                        !.lost = Failed(losses),
                        !.entries[condition] = Append(@,
                            [good |-> Good(worth),
                             semantic |-> SemanticSuccess(Executed(context, worth, "immediate", losses[1]),
                                 Executed(context, worth, "with-teacher-suffix", losses[2])),
                             alone |-> losses[2] = "exec"])]
      BY <1>8 DEF Generate
    <3>2. PICK losses \in Losses(context, worth) :
             evaluation' =
                IF losses[1] \in Fatal \/ losses[2] \in Fatal THEN Aborted
                ELSE [evaluation EXCEPT
                        !.lost = Failed(losses),
                        !.entries[condition] = Append(@,
                            [good |-> Good(worth),
                             semantic |-> SemanticSuccess(Executed(context, worth, "immediate", losses[1]),
                                 Executed(context, worth, "with-teacher-suffix", losses[2])),
                             alone |-> losses[2] = "exec"])]
      BY <3>1
    <3> DEFINE lost     == Failed(losses)
               good     == Good(worth)
               semantic == SemanticSuccess(Executed(context, worth, "immediate", losses[1]),
                                           Executed(context, worth, "with-teacher-suffix", losses[2]))
               alone    == losses[2] = "exec"
    <3>3. semantic => good \/ alone
      BY SuccessIsGood
    <3>4. evaluation' = Aborted \/
          evaluation' = [evaluation EXCEPT !.lost = lost,
                           !.entries[condition] = Append(@, [good |-> good, semantic |-> semantic, alone |-> alone])]
      BY <3>2
    <3> HIDE DEF lost, good, semantic, alone
    <3>5. QED
      BY <2>2, <2>3, <3>3, <3>4
<1>9. QED
  BY <1>1, <1>3, <1>4, <1>5, <1>6, <1>7, <1>8 DEF PairedNext, Evaluating, pairedVars

\* paired_edit_evaluate: a complete report is about the adapter whose hash it states,
\* although a trainer may still be saving it when the evaluation starts.
THEOREM MergedIsHashed == PairedSpec => []ComparedWeightsAreNamed
<1>1. EvaluationInv => ComparedWeightsAreNamed
  BY DEF EvaluationInv, MergeInv, ComparedWeightsAreNamed
<1>2. QED
  BY <1>1, SaveInit, SaveStep, EvaluationInit, EvaluationStep, PTL DEF PairedSpec

\* A semantic success is the edit's own, unless the edit failed in the second session alone,
\* and none is counted where the teacher's own edits failed.
THEOREM SuccessesAreTheEdits == PairedSpec => []SuccessesAreEarned
<1>1. EvaluationInv => SuccessesAreEarned
  BY DEF EvaluationInv, EntriesInv
<1>2. QED
  BY <1>1, SaveInit, SaveStep, EvaluationInit, EvaluationStep, PTL DEF PairedSpec
=============================================================================
