--------------------------- MODULE MCSFTPipeline ---------------------------
(* SFTPipeline for TLC: one train task whose patch has two hunks in one    *)
(* file and one in a test, another whose failure names a long literal,     *)
(* three traces that come in one session, three teacher trajectories, and  *)
(* an edit context in two of them: one whose remaining steps need its      *)
(* edit, and one whose do not.                                             *)
EXTENDS PairedEdits, TLC

MCRepository ==
    [t \in {"task", "other"} |-> [p \in {"source.py", "test.py"} |->
        IF p = "source.py" THEN <<"a", "b", "c", "d", "e">> ELSE <<"x">>]]

Hunk(path, start, old, new) ==
    [old_path |-> path, new_path |-> path, start |-> start, old |-> old, new |-> new]

PinnedRow(task, literal, patch) ==
    [task |-> task, literal |-> literal, malformed |-> FALSE, leaks |-> FALSE, patch |-> patch]

MCRowLists ==
    { << PinnedRow("task", "literal", << Hunk("source.py", 2, <<"b">>, <<"B", "B">>),
                                         Hunk("test.py", 1, <<"x">>, <<"y">>),
                                         Hunk("source.py", 5, <<"e">>, <<"E">>) >>) >>,
      << PinnedRow("other", "long literal", << Hunk("source.py", 1, <<"a">>, <<"A">>) >>) >> }

Trace(query, observation) == [task |-> "task", call |-> Search(query), observation |-> observation]

\* The third reads the test, which imports the source.
MCTraces ==
    << Trace("one", [Plain EXCEPT !.suggested = {"source.py"}]),
       Trace("two", [Plain EXCEPT !.suggested = {"source.py"}, !.imports = {"source.py"}]),
       [task |-> "task", call |-> Read("test.py", [first |-> 1, last |-> 2]),
        observation |-> [Numbered(<<"x">>, 1, 2) EXCEPT !.imports = {"source.py"}]] >>
MCSessions == << <<MCTraces[1]>>, MCTraces >>

Reading(first, last, content) ==
    Step(Read("source.py", [first |-> first, last |-> last]), Numbered(content, first, last))

\* Read, an edit that was refused, an edit, read again.
Teacher(state, query) ==
    [task |-> "task", state |-> state, strict |-> TRUE,
     prefix |-> << Step(Search(query), Plain), Reading(1, 3, <<"a", "b", "c", "d", "e">>),
                   Step(Replace("source.py", <<"a">>, <<"A">>), [Plain EXCEPT !.shows = "refusal"]) >>,
     steps |-> << Step(Replace("source.py", <<"b">>, <<"B", "B">>), Plain),
                  Reading(2, 4, <<"a", "B", "B", "c", "d", "e">>), Step(RunTests, Plain) >>]

MCTrajectories == << Teacher("s1", "one"), Teacher("s2", "two"), Teacher("s3", "three") >>
MCContexts ==
    << [state |-> "s1", sequence |-> 0, target |-> MCTrajectories[1].steps[1], needed |-> TRUE],
       [state |-> "s2", sequence |-> 0, target |-> MCTrajectories[2].steps[1], needed |-> FALSE] >>
MCSuggested    == [task |-> "task", path |-> "source.py"]

\* Bound: an adapter of the first build and of the first trainer is evaluated.  While it is,
\* builders, which share no file with an evaluation, rest, and nothing is started or
\* recorded; the trainer goes on, or is killed.
MCEvaluatesBesideItsTrainer ==
    evaluation'.pc # "off" =>
        /\ builder.pc = "off" /\ UNCHANGED <<files, builder, recorded, builds>>
        /\ spent.builds = 1 /\ spent'.starts = 1

MCSymmetry     == Permutations(Trainers)
MCCaches       == {{}, {"task"}}
=============================================================================
