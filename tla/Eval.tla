--------------------------------- MODULE Eval ---------------------------------
(***************************************************************************)
(* The evaluation harness of core/src/orchestrator/eval.rs: a suite runs   *)
(* every task with every approach some times over, each trial in a fresh   *)
(* copy of the task's repository, and scores the tree it leaves.           *)
(*                                                                         *)
(* A tree is what the score looks at: whether it solves the task, the test *)
(* it is judged by, and the manifest its commands are detected from.       *)
(* Workers write what they like and may commit it (nothing forbids them    *)
(* Git).                                                                   *)
(***************************************************************************)
EXTENDS Evidence, FiniteSets

CONSTANTS
  Tasks,       \* the tasks, in order
  Protected,   \* those whose test is a protected path
  VerifyOf,    \* the labels for which a task gives a command
  Approaches,  \* the approaches, in order
  TrialCount,  \* trials of each
  MaxChanges   \* bound on the edits and commits of a trial

ASSUME SuiteAssumption ==
  /\ Tasks \in Seq(STRING)
  /\ Approaches \in Seq({"solo", "conduct", "conduct-no-grounding", "conduct-cross-family"})
  /\ {TrialCount, MaxChanges} \subseteq Nat

VARIABLES
  suite,     \* where the suite is
  nth,       \* the trial it is at, from 0
  copy,      \* the tree of this trial
  head,      \* what the last commit of its repository has of it
  gated,     \* the labels of the commands its pipeline ran
  claim,     \* pipeline_ok
  results,
  budget     \* edits the approach still may make

trialVars == <<copy, head, gated, claim, budget>>
evalVars == <<suite, nth, results, trialVars>>

Copies == [solved : BOOLEAN, test : {"baseline", "weak", "deleted"}, manifest : BOOLEAN]
Starter == [solved |-> FALSE, test |-> "baseline", manifest |-> TRUE]

(* run_suite: task by task, approach by approach, trial by trial. *)
Matrix == Len(Tasks) * Len(Approaches) * TrialCount
TaskOf(n) == Tasks[n \div (Len(Approaches) * TrialCount) + 1]
ApproachOf(n) == Approaches[((n \div TrialCount) % Len(Approaches)) + 1]

EvalInit ==
  /\ suite = "next" /\ nth = 0 /\ copy = Starter /\ head = Starter
  /\ gated = {} /\ claim = FALSE /\ results = <<>> /\ budget = MaxChanges
-----------------------------------------------------------------------------
(* run_trial: the starter repository is copied and committed; an error     *)
(* there ends the suite without a report.  Its directory goes with it.     *)
FreshTrial ==
  /\ copy' = Starter /\ head' = Starter
  /\ gated' = {} /\ claim' = FALSE /\ budget' = MaxChanges

PrepareTrial ==
  /\ suite = "next" /\ nth < Matrix
  /\ \/ suite' = "running"
     \/ suite' = "aborted"
  /\ UNCHANGED <<nth, results, trialVars>>

(* run_approach: workers edit and commit. *)
WorkerEdits ==
  /\ suite = "running" /\ budget > 0
  /\ \E f \in {"solved", "test", "manifest"}, t \in Copies : copy' = [copy EXCEPT ![f] = t[f]]
  /\ copy' # copy
  /\ budget' = budget - 1
  /\ UNCHANGED <<suite, nth, head, gated, claim, results>>

WorkerCommits ==
  /\ suite = "running" /\ budget > 0
  /\ head' = copy /\ budget' = budget - 1
  /\ UNCHANGED <<suite, nth, copy, gated, claim, results>>

MarkersOf(tree) == IF tree.manifest THEN {"Cargo.toml"} ELSE {}
LabelsOf(commands) == {commands[n].label : n \in DOMAIN commands}

(* run_conduct verifies each attempt, with the commands it is given and    *)
(* those it detects.  Without grounding it is given none.                  *)
GateLabels(approach, task) == IF approach = "conduct-no-grounding" THEN {} ELSE VerifyOf[task]

PipelineVerifies ==
  /\ suite = "running" /\ ApproachOf(nth) # "solo"
  /\ gated' = gated \cup
       LabelsOf(Resolved(GateLabels(ApproachOf(nth), TaskOf(nth)), MarkersOf(copy)))
  /\ gated' # gated
  /\ UNCHANGED <<suite, nth, copy, head, claim, results, budget>>

(* It ends, well or not: an error is a fail and not the end of the suite.  *)
ApproachEnds ==
  /\ suite = "running" /\ suite' = "restoring"
  /\ claim' \in BOOLEAN
  /\ UNCHANGED <<nth, copy, head, gated, results, budget>>

(* Mutant of Restored: only a test that was deleted is restored. *)
RestoredDeleted(tree) == IF tree.test = "deleted" THEN [tree EXCEPT !.test = head.test] ELSE tree

(* restore_protected: git checkout HEAD, which knows only what was         *)
(* committed; when it fails the suite ends.                                *)
Restored(tree) == IF TaskOf(nth) \in Protected THEN [tree EXCEPT !.test = head.test] ELSE tree

Restore ==
  /\ suite = "restoring"
  /\ suite' = IF TaskOf(nth) \in Protected /\ head.test = "deleted" THEN "aborted" ELSE "scoring"
  /\ copy' = Restored(copy)
  /\ UNCHANGED <<nth, head, gated, claim, results, budget>>

(* The score: run_verify in the tree as it is now.  Tests pass if the tree *)
(* solves the task or they no longer say so.                               *)
Judges(tree) == tree.test = "baseline"
OutcomeOf(label, tree) ==
  IF label = "test" /\ Judges(tree) /\ ~tree.solved THEN {"failed"} ELSE CommandOutcomes

Score ==
  LET commands == Resolved(VerifyOf[TaskOf(nth)], MarkersOf(copy)) IN
  /\ suite = "scoring" /\ suite' = "next" /\ nth' = nth + 1
  /\ \E outcome \in [DOMAIN commands -> CommandOutcomes] :
       /\ \A n \in DOMAIN commands : outcome[n] \in OutcomeOf(commands[n].label, copy)
       /\ results' = Append(results,
            [task |-> TaskOf(nth), approach |-> ApproachOf(nth), pipelineOk |-> claim,
             success |-> VerifyPassed(commands, outcome), verifyRan |-> VerifyRan(commands),
             solved |-> copy.solved, committed |-> head # Starter])
  /\ FreshTrial

(* aggregate: one cell for each task and approach. *)
ReportSuite ==
  /\ suite = "next" /\ nth = Matrix
  /\ suite' = "reported"
  /\ UNCHANGED <<nth, results, trialVars>>

Trials(task, approach) ==
  {n \in DOMAIN results : results[n].task = task /\ results[n].approach = approach}
Cell(task, approach) ==
  LET ns == Trials(task, approach)
      passes == {n \in ns : results[n].success}
  IN  [passed |-> Cardinality(passes), total |-> Cardinality(ns),
       unscored |-> Cardinality({n \in ns : ~results[n].verifyRan}),
       stable |-> passes \in {{}, ns}]

EvalNext ==
  \/ PrepareTrial \/ WorkerEdits \/ WorkerCommits \/ PipelineVerifies \/ ApproachEnds
  \/ Restore \/ Score \/ ReportSuite

EvalSpec == EvalInit /\ [][EvalNext]_evalVars
-----------------------------------------------------------------------------
(* What a cell is owed: the trials of every task and approach of its name. *)
Due(task, approach) ==
  {i \in DOMAIN Tasks : Tasks[i] = task}
    \X {j \in DOMAIN Approaches : Approaches[j] = approach} \X (1 .. TrialCount)

(* Tasks whose test is protected and has a command of its own, if the task *)
(* gives any: one that only gives a build passes by it when the manifest   *)
(* is gone, from which the test would be detected.                         *)
Guarded == {t \in Protected : VerifyOf[t] = {} \/ "test" \in VerifyOf[t]}

(* The score is earned: whatever an approach claims of itself, edits or    *)
(* deletes, a cell counts as passed only trials of a tree that solves the  *)
(* task by the test of the baseline, for a guarded task and an approach    *)
(* that did not commit; and it counts every trial.                         *)
ScoreIsEarned ==
  suite = "reported" =>
    \A t \in DOMAIN Tasks, a \in DOMAIN Approaches :
      LET cell == Cell(Tasks[t], Approaches[a])
          unearned == {n \in Trials(Tasks[t], Approaches[a]) :
                         ~results[n].solved /\ ~results[n].committed}
      IN  /\ cell.total = Cardinality(Due(Tasks[t], Approaches[a]))
          /\ Tasks[t] \in Guarded =>
               cell.passed + Cardinality(unearned) <= cell.total

(* eval.rs: without grounding the "internal build/test gate" is disabled.  *)
UngroundedRunsNothing ==
  (suite = "running" /\ ApproachOf(nth) = "conduct-no-grounding") => gated = {}
================================================================================
