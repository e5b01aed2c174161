---------------------------- MODULE LoopGuidance ----------------------------
(***************************************************************************)
(* A policy that explores a repository and repeats itself.  The records of *)
(* ActionLoopGuard, the refusals, and what a second refusal in a row says: *)
(* the files and queries of the episode, and the files that its own        *)
(* results named and it has not read.  (ToolEnvironment has the guard with *)
(* the rest of a step; here are its words.)                                *)
(***************************************************************************)
EXTENDS Observations

CONSTANTS
    Explored,     \* repositories an episode is started on
    Asked,        \* queries of an episode
    MaxRecords,   \* bound: actions of an episode
    NamedReads,   \* scale: files already read that are named (5)
    NamedQueries, \* scale: queries already used that are named (5)
    NamedUnread   \* scale: files that are named as not read (4)

ASSUME GuidanceAssumption ==
    /\ Asked \subseteq Queries
    /\ NamedReads \in Nat /\ NamedQueries \in Nat /\ NamedUnread \in Nat

VARIABLES
    records,      \* _records: [action, says, names], names in the order they are found
    refusals      \* consecutive_rejections

guard == <<records, refusals>>
guidedVars == <<vars, records, refusals>>

GuidedActions ==
    [kind : {"search_text"}, query : Asked]
    \cup [kind : {"read_file", "replace_text"}, file : DOMAIN repo]
    \cup [kind : {"list_files"}]

IsError(r) == r.says = "error"
Recent == records[Len(records)]

\* _base_rejection
BaseRejection(action) ==
    \/ records # <<>> /\ Recent.action = action /\ IsError(Recent)
    \/ /\ action.kind = "search_text"
       /\ \E k \in DOMAIN records : records[k].action = action /\ ~IsError(records[k])
    \/ /\ action.kind = "list_files"
       /\ \E k \in DOMAIN records : records[k].action.kind = "list_files"
    \/ /\ action.kind = "read_file"
       /\ \E k \in DOMAIN records :
            /\ records[k].action = action /\ ~IsError(records[k])
            /\ \A m \in k + 1 .. Len(records) :
                  /\ ~(records[m].action = action /\ ~IsError(records[m]))
                  /\ ~(records[m].says = "updated" /\ records[m].action.file = action.file)

\* is_test_path of a file
IsReadOnly(f) == repo[f].rank = 1

Recorded(kind) == Having(records, LAMBDA r : r.action.kind = kind)
Mapped(s, Op(_)) == [k \in DOMAIN s |-> Op(s[k])]

\* read_files of the directive: every path of a read_file, whatever came of it.
ReadFiles == Distinct(Mapped(Recorded("read_file"), LAMBDA r : r.action.file))

\* Mutant: the results of the last observation only.
UnreadOfTheLast ==
    Having(Distinct(Recent.names), LAMBDA f : ~Contains(ReadFiles, f) /\ ~IsReadOnly(f))

\* unread_evidence_paths
UnreadEvidence ==
    Having(Distinct(FlattenSeq(Mapped(records, LAMBDA r : r.names))),
              LAMBDA f : ~Contains(ReadFiles, f) /\ ~IsReadOnly(f))

\* _recovery_directive
RecoveryDirective ==
    LET editable == Having(ReadFiles, LAMBDA f : ~IsReadOnly(f))
    IN  [says    |-> "directive",
         patched |-> \E k \in DOMAIN records : records[k].says = "updated",
         read    |-> FirstOf(editable, NamedReads),
         tests   |-> IF editable = <<>> THEN FirstOf(ReadFiles, NamedReads) ELSE <<>>,
         used    |-> FirstOf(Distinct(Mapped(Recorded("search_text"), LAMBDA r : r.action.query)),
                            NamedQueries),
         unread  |-> FirstOf(UnreadEvidence, NamedUnread)]

\* _EVIDENCE_PATH takes a path without white space, _EVIDENCE_MATCH the path before a line
\* number if it is of a few kinds of file.
IsShown(line, as) == as \in repo[line.file].shows

\* The paths and candidates of an answer, then the files of its lines.
Evidence(lines) ==
    LET paths   == Having(lines, LAMBDA line : /\ \/ line.says = "candidate"
                                                  \/ line.says = "match" /\ line.line = 0
                                               /\ IsShown(line, "path"))
        matches == Having(lines, LAMBDA line : /\ line.says = "match" /\ line.line > 0
                                               /\ IsShown(line, "match"))
    IN  [k \in DOMAIN paths |-> paths[k].file] \o [k \in DOMAIN matches |-> matches[k].file]

\* The paths that difflib suggests when nothing is found: any; here at most one.
Suggested(lines) ==
    {<<>>} \cup {<<f>> : f \in {g \in DOMAIN repo : lines = NothingFound /\ "path" \in repo[g].shows}}

\* record
Record(action, says, names) ==
    records' = Append(records, [action |-> action, says |-> says, names |-> names])

\* A refused action is recorded as a tool error; the second in a row says more.
Refuse(action) ==
    /\ BaseRejection(action)
    /\ refusals' = refusals + 1
    /\ said' = IF refusals > 0 THEN RecoveryDirective ELSE [says |-> "refused"]
    /\ Record(action, "error", <<>>)

\* What is not a tool error ends the row of refusals.
Answered(action, says, names, observation) ==
    /\ ~BaseRejection(action)
    /\ refusals' = 0
    /\ said' = observation
    /\ Record(action, says, names)

\* A tool error does not: a file that cannot be decoded, a command that ran out of time, an
\* edit that does not match.
ToolError(action) ==
    /\ ~BaseRejection(action)
    /\ said' = [says |-> "error"]
    /\ Record(action, "error", <<>>)
    /\ UNCHANGED refusals

\* One step of the policy.
Act(action) ==
    \/ Refuse(action)
    \/ /\ action.kind = "search_text"
       /\ \E order \in Orders :
             LET lines == ContainerSearch(repo, action.query, order)
             IN  \E suggested \in Suggested(lines) :
                    Answered(action, "answer", suggested \o Evidence(lines),
                             [says |-> "found", lines |-> lines])
    \/ /\ action.kind = "read_file" /\ repo[action.file].readable
       /\ Answered(action, "answer", <<>>, [says |-> "content"])
    \/ /\ action.kind = "replace_text" /\ ~IsReadOnly(action.file)
       /\ \E k \in DOMAIN records :
             ~IsError(records[k])
             /\ records[k].action = [kind |-> "read_file", file |-> action.file]
       /\ Answered(action, "updated", <<>>, [says |-> "updated"])
    \/ action.kind = "list_files" /\ Answered(action, "answer", <<>>, [says |-> "files"])
    \/ action.kind # "list_files" /\ ToolError(action)

\* An episode on a repository, or the calls of Observations one by one.
GuidedInit ==
    /\ Init
    /\ records = <<>>
    /\ refusals = 0

Explores ==
    /\ repo \in Explored /\ Len(records) < MaxRecords
    /\ call \in {NoCall, [kind |-> "guided"]}
    /\ call' = [kind |-> "guided"]
    /\ \E action \in GuidedActions : Act(action)
    /\ UNCHANGED <<content, repo>>

GuidedNext ==
    \/ records = <<>> /\ Next /\ UNCHANGED guard
    \/ Explores
    \/ Len(records) = MaxRecords /\ UNCHANGED guidedVars

GuidedSpec == GuidedInit /\ [][GuidedNext]_guidedVars

----------------------------------------------------------------------------
\* The best match of a search of the episode, as the answer printed it.
BestMatches ==
    {Head(Collect(repo, records[k].action.query.whole)) :
        k \in {k \in DOMAIN records :
                  /\ records[k].action.kind = "search_text" /\ ~IsError(records[k])
                  /\ Collect(repo, records[k].action.query.whole) # <<>>}}

SentOnTo(file) ==
    \/ Contains(said.read \o said.unread, file)
    \/ Len(said.read) = NamedReads
    \/ Len(said.unread) = NamedUnread

\* unread_evidence_paths: a stalled policy "is usually holding its next move in an
\* observation it already has".  A second refusal in a row names the implementation file
\* that is the best match of a search of the episode, as read or as not read, however the
\* search trimmed its answer and whatever else was done since, unless its path is of a form
\* the patterns pass over, or as many others are named as ever are.
StalledPolicyIsSentOn ==
    said.says = "directive" =>
        \A best \in BestMatches :
            repo[best.file].rank = 0 /\ IsShown(best, IF best.line = 0 THEN "path" ELSE "match")
                => SentOnTo(best.file)

----------------------------------------------------------------------------
(* What does not hold.                                                     *)

\* "the file of a content match": only of the kinds _EVIDENCE_MATCH lists, which leaves out a
\* template or a source file of another language.
EveryStalledPolicyIsSentOn ==
    said.says = "directive" =>
        \A best \in BestMatches : repo[best.file].rank = 0 => SentOnTo(best.file)

\* _base_rejection: "Counting a failed read here told the policy it already had a file it
\* never received".  A file that the directive calls read was returned by a read.
ReadFilesWereReturned ==
    said.says = "directive" =>
        \A f \in ToSet(said.read) : \E k \in DOMAIN records :
            records[k].action = [kind |-> "read_file", file |-> f] /\ ~IsError(records[k])
=============================================================================
