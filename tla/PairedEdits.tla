----------------------------- MODULE PairedEdits -----------------------------
(***************************************************************************)
(* paired_edit_evaluate beside the programs it takes its input from: the   *)
(* teacher's own edits are replayed before any model is loaded, then the   *)
(* base model and, with the adapter merged into it, the same model each    *)
(* generate one edit per context.  An edit is judged in two sessions of    *)
(* the remote worker: as it is, and before the teacher's remaining steps.  *)
(***************************************************************************)
EXTENDS SFTPipeline

CONSTANTS
    Contexts,    \* the edit contexts, in order: [state, sequence, target, needed]
    Worths,      \* what a generated edit may be worth
    Required,    \* source trajectories the protocol requires
    MaxLost      \* bound: requests to the worker, and edits in its container, that fail

ASSUME PairedAssumption ==
    /\ Worths \subseteq {"unparsed", "refused", "wrong", "partial", "complete"}
    /\ {MaxLost, Required} \subseteq Nat

VARIABLES
    evaluation,  \* the evaluation process, and the lines it appended to the generation files
    paired       \* its report.json

pairedVars == <<pipelineVars, evaluation, paired>>

Conditions == {"clean-base", "p2-step12-adapter"}
Protocols  == {"immediate", "with-teacher-suffix"}

\* The weights on disk, as far as a hash tells them apart.
Weights   == [whole |-> output.weights = "whole", rows |-> output.adapter]
NoWeights == [whole |-> FALSE, rows |-> <<>>]

\* sha: the weights hashed at the start; merged: those in the model; controls: whether each
\* control passed; entries: what was generated, by condition; lost: how many requests or edits failed.
NoEvaluation == [pc |-> "off", sha |-> NoWeights, merged |-> NoWeights, controls |-> <<>>,
                 entries |-> [c \in Conditions |-> <<>>], lost |-> 0]
NoPaired     == [complete |-> FALSE, gate |-> FALSE, sha |-> NoWeights,
                 conditions |-> [c \in Conditions |-> <<>>]]

----------------------------------------------------------------------------
(* One session: execute.                                                   *)

\* The edit changes the file, whatever it is good for.
Applies(worth) == worth \in {"wrong", "partial", "complete"}

\* With the edit, and with it alone or the teacher's remaining steps after it, the tests pass.
Good(worth) == worth \in {"partial", "complete"}

\* The verifier accepts the repository at the end of the session.  A suffix may repair a
\* context without the edit it followed.
Repairs(context, worth, protocol) ==
    \/ worth = "complete"
    \/ protocol = "with-teacher-suffix" /\ (worth = "partial" \/ (~Applies(worth) /\ ~context.needed))

\* What may fail: the session's creation or replayed prefix, the request of the edit, a step
\* of the suffix, the forced verifier run, and the finalize of a session no verifier ended.
\* Or the edit fails in the container, before ("exec") or after it changed the file ("late"):
\* the worker answers with a tool error, and the session goes on.  A step of the suffix that
\* fails there spoils the session, like "suffix", or makes no difference.
Losable(context, worth, protocol) ==
    {"none", "reset"}
    \cup (IF worth = "unparsed" THEN {} ELSE {"first"})
    \cup (IF Applies(worth) THEN {"exec", "late"} ELSE {})
    \cup (IF protocol = "immediate" THEN {"verifier"} ELSE {"suffix"})
    \cup (IF Repairs(context, worth, protocol) THEN {} ELSE {"verifier", "finalize"})

\* Requests whose failure no handler of execute catches.
Fatal == {"reset", "finalize"}

\* What keeps an edit that applies from being reported as applied.
Unapplied == {"first", "exec", "late"}

\* first_edit_applied, and strict_success of the one audit line.  After a failed request the
\* client has no session, and writes no audit line.
Executed(context, worth, protocol, lost) ==
    [applied |-> Applies(worth) /\ lost \notin Unapplied,
     strict  |-> \/ lost \in {"none", "late"} /\ Repairs(context, worth, protocol)
                 \/ lost = "exec" /\ Repairs(context, "refused", protocol)]

\* Mutant: the suffix alone decides.
SemanticBySuffix(immediate, hybrid) == hybrid.strict

\* semantic_success
SemanticSuccess(immediate, hybrid) == immediate.applied /\ hybrid.strict

----------------------------------------------------------------------------
(* The evaluation.                                                         *)

\* _teacher_steps: every context is a step of a recorded, strict trajectory.
TeacherRefused ==
    \/ Len(RecordedTrajectories) # Required
    \/ \E c \in Range(Contexts) : \A t \in Range(RecordedTrajectories) :
          ~(t.state = c.state /\ t.strict /\ c.sequence < Len(t.steps)
              /\ t.steps[c.sequence + 1] = c.target)

\* The directory is new, the teacher's steps are found, and the weights are hashed.
BeginEvaluation ==
    /\ evaluation.pc = "off" /\ output.weights # "none" /\ ~TeacherRefused
    /\ evaluation' = [evaluation EXCEPT !.pc = "teacher", !.sha = Weights]
    /\ paired' = [NoPaired EXCEPT !.sha = Weights]

Aborted == [evaluation EXCEPT !.pc = "raised"]

Failed(losses) == evaluation.lost + Cardinality({p \in {1, 2} : losses[p] # "none"})

\* The two sessions of one edit, with the requests that fail in them.
Losses(context, worth) ==
    {losses \in Losable(context, worth, "immediate") \X Losable(context, worth, "with-teacher-suffix") :
        /\ losses[1] \in Fatal => losses[2] = "none"
        /\ Failed(losses) <= MaxLost}

\* The teacher's edit: an observation that is missing, or not the recorded one, raises.
Control ==
    /\ evaluation.pc = "teacher" /\ Len(evaluation.controls) < Len(Contexts)
    /\ LET context == Contexts[Len(evaluation.controls) + 1]
       IN  \E worth \in {w \in Worths : Good(w)} : \E losses \in Losses(context, worth) :
              evaluation' =
                  IF losses[1] \in Fatal \cup Unapplied \/ losses[2] \in Fatal \cup Unapplied
                  THEN Aborted
                  ELSE [evaluation EXCEPT
                          !.lost = Failed(losses),
                          !.controls = Append(@,
                              Executed(context, worth, "with-teacher-suffix", losses[2]).strict)]
    /\ UNCHANGED paired

\* 7/7 target edits apply and 7/7 suffix trials are strict.
GatePassed == \A i \in DOMAIN Contexts : evaluation.controls[i]

\* The gate, and the base model is loaded.
Gate ==
    /\ evaluation.pc = "teacher" /\ Len(evaluation.controls) = Len(Contexts)
    /\ evaluation' = IF GatePassed THEN [evaluation EXCEPT !.pc = "clean-base"] ELSE Aborted
    /\ paired' = [paired EXCEPT !.gate = GatePassed]

\* One context of run_condition; the checkpoint after it writes the report as it was.
Generate(condition) ==
    /\ evaluation.pc = condition /\ Len(evaluation.entries[condition]) < Len(Contexts)
    /\ LET context == Contexts[Len(evaluation.entries[condition]) + 1]
       IN  \E worth \in Worths : \E losses \in Losses(context, worth) :
              LET immediate == Executed(context, worth, "immediate", losses[1])
                  hybrid    == Executed(context, worth, "with-teacher-suffix", losses[2])
              IN  evaluation' =
                      IF losses[1] \in Fatal \/ losses[2] \in Fatal THEN Aborted
                      ELSE [evaluation EXCEPT
                              !.lost = Failed(losses),
                              !.entries[condition] = Append(@,
                                  [good |-> Good(worth), semantic |-> SemanticSuccess(immediate, hybrid),
                                   alone |-> losses[2] = "exec"])]
    /\ UNCHANGED paired

\* The condition is reported, and the adapter merged into the model; torn weights raise.
Merge ==
    /\ evaluation.pc = "clean-base" /\ Len(evaluation.entries["clean-base"]) = Len(Contexts)
    /\ paired' = [paired EXCEPT !.conditions["clean-base"] = evaluation.entries["clean-base"]]
    /\ evaluation' = IF Weights.whole
                     THEN [evaluation EXCEPT !.pc = "p2-step12-adapter", !.merged = Weights]
                     ELSE Aborted

\* Mutant: the weights are not hashed again.
UnchangedAnyway == TRUE

\* adapter_unchanged
AdapterUnchanged == evaluation.sha = Weights

Compare ==
    /\ evaluation.pc = "p2-step12-adapter"
    /\ Len(evaluation.entries["p2-step12-adapter"]) = Len(Contexts)
    /\ IF AdapterUnchanged
       THEN /\ paired' = [paired EXCEPT !.complete = TRUE,
                              !.conditions["p2-step12-adapter"] = evaluation.entries["p2-step12-adapter"]]
            /\ evaluation' = [evaluation EXCEPT !.pc = "done"]
       ELSE evaluation' = Aborted /\ UNCHANGED paired

Evaluating ==
    \/ BeginEvaluation \/ Control \/ Gate \/ Merge \/ Compare
    \/ \E condition \in Conditions : Generate(condition)

PairedInit == PipelineInit /\ evaluation = NoEvaluation /\ paired = NoPaired

PairedNext ==
    \/ PipelineNext /\ UNCHANGED <<evaluation, paired>>
    \/ Evaluating /\ UNCHANGED pipelineVars

PairedSpec == PairedInit /\ [][PairedNext]_pairedVars

----------------------------------------------------------------------------
\* A complete report is about the adapter whose hash it states, although a trainer may
\* still be saving it when the evaluation starts: the weights merged before the second
\* condition are those hashed before the first control.
ComparedWeightsAreNamed == paired.complete => evaluation.merged = paired.sha

\* A semantic success is the edit's own: not one of a suffix that repairs without it, unless
\* the edit failed in the container of the second session alone, and not found where the
\* teacher's own edits failed.
SuccessesAreEarned ==
    \A c \in Conditions : \A i \in DOMAIN evaluation.entries[c] :
        evaluation.entries[c][i].semantic =>
            /\ evaluation.entries[c][i].good \/ evaluation.entries[c][i].alone
            /\ \A k \in DOMAIN Contexts : evaluation.controls[k]

\* The same of every success, which does not hold: that the edit applied is read from the
\* first session only.
EverySuccessIsEarned ==
    \A c \in Conditions : \A i \in DOMAIN evaluation.entries[c] :
        evaluation.entries[c][i].semantic => evaluation.entries[c][i].good

\* The manifest's definition of semantic success, read the other way, which does not hold:
\* a request that failed counts against the model.
FailuresAreTheModels ==
    paired.complete =>
        \A c \in Conditions : \A i \in DOMAIN paired.conditions[c] :
            paired.conditions[c][i].good => paired.conditions[c][i].semantic

\* What was generated is in the report of the checkpoint after it, which does not hold.
CheckpointsAreCurrent ==
    \A c \in Conditions : evaluation.pc = c => paired.conditions[c] = evaluation.entries[c]
=============================================================================
