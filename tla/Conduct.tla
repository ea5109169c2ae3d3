------------------------------- MODULE Conduct -------------------------------
(***************************************************************************)
(* run_conduct of core/src/orchestrator/conduct.rs: the conductor/worker   *)
(* loop.  A conductor model decomposes the task into a plan, the plan is   *)
(* layered into waves, and every subtask goes through up to three attempts *)
(* of worker, verifier, supervisor, conductor evaluation, reviewer and     *)
(* arbiter.  A plan that failed may be replaced a bounded number of times. *)
(*                                                                         *)
(* A call to a role is a step whose outcome the role chooses: what its     *)
(* reply parses to, or "unavailable" when run_with_failover found no rung  *)
(* of its ladder that works (module Failover).  The working tree is an     *)
(* abstract value that only workers change.  Prompts, feedback texts and   *)
(* the fallback list are left out.                                         *)
(***************************************************************************)
EXTENDS Topology, FiniteSets

CONSTANTS
  Plans,          \* the non-empty plans a conductor reply can parse to
  Trees,          \* contents of the working tree, as capture_changes sees them
  HasSupervisor,  \* deps.supervisor.is_some()
  HasReviewer,    \* deps.reviewer.is_some()
  HasArbiter,     \* deps.arbiter.is_some()
  HasBudget,      \* deps.budget.is_some()
  MaxReplans,     \* deps.max_replans
  FreshIds        \* the conductor obeys "never reuse a completed or skipped id"

SubtaskRec == [id : Nat, deps : SUBSET Nat]

ASSUME PlansAssumption ==
  \A p \in Plans : p \in Seq(SubtaskRec) /\ p # <<>>
ASSUME FlagsAssumption ==
  {HasSupervisor, HasReviewer, HasArbiter, HasBudget, FreshIds} \subseteq BOOLEAN
ASSUME MaxReplansAssumption == MaxReplans \in Nat

MAX_REWORKS == 2

VARIABLES
  pc,            \* the step of the loop the run is at
  plan,          \* the current plan
  rank, wave,    \* its layering (waves)
  cur,           \* index of the subtask being worked on
  attempt,       \* attempt_num
  fingerprints,  \* diff + verify result of the earlier attempts of this subtask
  stalled,       \* this attempt reproduced an earlier one
  tree,          \* contents of the working tree
  verify,        \* result of the last run_verify, "stale" once a worker ran again
  last,          \* the last element of attempts
  entries,       \* subtask_entries of all passes; pass and idx stand for the order
  completed,     \* ids accepted in any pass
  halted,        \* halted.is_some()
  failed,        \* the failure kept for the report
  replans_used,
  elapsed,       \* run_start.elapsed() >= budget
  lateCalls      \* history: worker calls started after the budget had elapsed

planVars == <<plan, rank, wave>>
attemptVars == <<attempt, fingerprints, stalled, last>>
treeVars == <<tree, verify>>
resultVars == <<entries, completed, halted, failed>>
clockVars == <<elapsed, lateCalls>>
vars == <<pc, planVars, cur, attemptVars, treeVars, resultVars, replans_used,
          clockVars>>

NoAttempt == [decision |-> "none", verify |-> "none", review |-> "none"]
NoFailure == [why |-> "none", idx |-> 0]

Statuses == {"completed", "failed", "skipped", "halted"}
Whys == {"none", "invalid_plan", "budget", "skipped", "worker", "eval_fail",
         "exhausted", "stalled", "review", "arbiter", "replan"}
AttemptRec ==
  [decision : {"none", "accept", "rework", "fail"},
   verify   : {"none", "not_run", "passed", "failed"},
   review   : {"none", "clean", "critical", "unparseable", "unavailable"}]
EntryRec ==
  [pass : Nat, idx : Nat, id : Nat, status : Statuses, attempt : AttemptRec,
   arbiter : {"none", "ship", "fail", "unavailable"}]

SubtaskSteps == {"work", "verify", "supervise", "evaluate", "review", "arbitrate"}
InSubtask == pc \in SubtaskSteps

TypeOK ==
  /\ pc \in {"decompose", "layer", "next", "passEnd", "replan", "done", "aborted"}
             \cup SubtaskSteps
  /\ plan \in Plans \cup {<<>>}
  /\ rank \in [DOMAIN plan -> Nat]
  /\ wave \in Nat
  /\ cur \in Nat
  /\ InSubtask => cur \in DOMAIN plan
  /\ attempt \in 0 .. MAX_REWORKS
  /\ fingerprints \subseteq Trees \X {"not_run", "passed", "failed"}
  /\ stalled \in BOOLEAN
  /\ tree \in Trees
  /\ verify \in {"stale", "not_run", "passed", "failed"}
  /\ last \in AttemptRec
  /\ entries \subseteq EntryRec
  /\ completed \subseteq Nat
  /\ halted \in BOOLEAN
  /\ failed \in [why : Whys, idx : Nat]
  /\ replans_used \in 0 .. MaxReplans
  /\ elapsed \in BOOLEAN
  /\ lateCalls \in Nat

Init ==
  /\ pc = "decompose"
  /\ plan = <<>> /\ rank = NoRank(<<>>) /\ wave = 0
  /\ cur = 0
  /\ attempt = 0 /\ fingerprints = {} /\ stalled = FALSE /\ last = NoAttempt
  /\ tree \in Trees /\ verify = "not_run"
  /\ entries = {} /\ completed = {} /\ halted = FALSE /\ failed = NoFailure
  /\ replans_used = 0
  /\ elapsed = FALSE /\ lateCalls = 0
-----------------------------------------------------------------------------
(* The entries of the current pass and what they leave to do. *)
PassEntries == {e \in entries : e.pass = replans_used}
EntryOf(i, status) == \E e \in PassEntries : e.idx = i /\ e.status = status
Visited(i) == \E e \in PassEntries : e.idx = i
Remaining == {i \in DOMAIN plan : ~Visited(i)}

(* The order of the run: wave by wave, within a wave in plan order. *)
Before(i, j) == rank[i] < rank[j] \/ (rank[i] = rank[j] /\ i < j)

(* Mutant of FirstFailure: the last failure wins. *)
LastFailure(why, i) == [why |-> why, idx |-> i]

(* `if failed.is_none() { failed = Some(..) }` *)
FirstFailure(why, i) ==
  IF failed = NoFailure THEN [why |-> why, idx |-> i] ELSE failed

Entry(i, status, att, arb) ==
  [pass |-> replans_used, idx |-> i, id |-> plan[i].id, status |-> status,
   attempt |-> att, arbiter |-> arb]

(* The locals of one subtask go out of scope when its iteration ends. *)
LeaveSubtask ==
  /\ cur' = 0
  /\ attempt' = 0 /\ fingerprints' = {} /\ stalled' = FALSE /\ last' = NoAttempt

(* Mutants: a completed id is not pushed; a failure is not kept. *)
CompleteUnrecorded(att, arb) ==
  /\ entries' = entries \cup {Entry(cur, "completed", att, arb)}
  /\ pc' = "next"
  /\ LeaveSubtask
  /\ UNCHANGED <<completed, halted, failed>>

FailSilently(why, att, arb) ==
  /\ entries' = entries \cup {Entry(cur, "failed", att, arb)}
  /\ pc' = "next"
  /\ LeaveSubtask
  /\ UNCHANGED <<completed, halted, failed>>

(* The ways a subtask ends: an entry is recorded and the run moves on. *)
Complete(att, arb) ==
  /\ completed' = completed \cup {plan[cur].id}
  /\ entries' = entries \cup {Entry(cur, "completed", att, arb)}
  /\ pc' = "next"
  /\ LeaveSubtask
  /\ UNCHANGED <<halted, failed>>

FailSubtask(why, att, arb) ==
  /\ failed' = FirstFailure(why, cur)
  /\ entries' = entries \cup {Entry(cur, "failed", att, arb)}
  /\ pc' = "next"
  /\ LeaveSubtask
  /\ UNCHANGED <<halted, completed>>

(* The attempt is recorded and the same subtask goes on: to a gate, or to  *)
(* another round.                                                          *)
Proceed(att, step) ==
  /\ last' = att
  /\ pc' = step
  /\ UNCHANGED <<cur, attempt, fingerprints, stalled, resultVars>>

Retry(att) ==
  /\ last' = att
  /\ attempt' = attempt + 1
  /\ stalled' = FALSE
  /\ pc' = "work"
  /\ UNCHANGED <<cur, fingerprints, resultVars>>

(* A `?`: the run returns Err and no outcome. *)
Abort ==
  /\ pc' = "aborted"
  /\ UNCHANGED <<cur, attemptVars, resultVars>>
-----------------------------------------------------------------------------
(* Step 1: the first plan.  No usable plan is an error of the run. *)
Decompose ==
  /\ pc = "decompose"
  /\ \/ /\ pc' = "aborted"
        /\ UNCHANGED planVars
     \/ \E p \in Plans :
          /\ plan' = p /\ rank' = NoRank(p) /\ wave' = 0
          /\ pc' = "layer"
  /\ UNCHANGED <<cur, attemptVars, treeVars, resultVars, replans_used, clockVars>>

(* topology::plan_waves, one wave per step; an error fails the run. *)
PlaceReady ==
  /\ pc = "layer"
  /\ ~BadEdges(plan, completed)
  /\ Ready(plan, completed, rank) # {}
  /\ rank' = PlaceWave(rank, Ready(plan, completed, rank), wave + 1)
  /\ wave' = wave + 1
  /\ UNCHANGED <<pc, plan, cur, attemptVars, treeVars, resultVars, replans_used,
                 clockVars>>

Layered ==
  /\ pc = "layer"
  /\ ~BadEdges(plan, completed)
  /\ AllPlaced(rank)
  /\ pc' = "next"
  /\ UNCHANGED <<planVars, cur, attemptVars, treeVars, resultVars, replans_used,
                 clockVars>>

(* Mutant of InvalidPlan: the run ends without a word. *)
InvalidPlanIgnored ==
  /\ pc = "layer"
  /\ \/ BadEdges(plan, completed)
     \/ ~AllPlaced(rank) /\ Ready(plan, completed, rank) = {}
  /\ pc' = "done"
  /\ UNCHANGED <<planVars, cur, attemptVars, treeVars, resultVars, replans_used,
                 clockVars>>

InvalidPlan ==
  /\ pc = "layer"
  /\ \/ BadEdges(plan, completed)
     \/ ~AllPlaced(rank) /\ Ready(plan, completed, rank) = {}
  /\ failed' = [why |-> "invalid_plan", idx |-> 0]
  /\ pc' = "done"
  /\ UNCHANGED <<planVars, cur, attemptVars, treeVars, entries, completed, halted,
                 replans_used, clockVars>>
-----------------------------------------------------------------------------
(* The top of the dispatch loop, for the first subtask without an entry:   *)
(* the budget check ends the pass, a subtask with an unmet prerequisite is *)
(* skipped, any other goes to work.                                        *)
(* Mutant of Unmet: a dependent of a failed subtask is not held back. *)
UnmetNever(i) == {}

NextUp(i) == i \in Remaining /\ \A j \in Remaining \ {i} : Before(i, j)
Unmet(i) == {d \in plan[i].deps : d \notin completed}

(* Mutants: the skip leaves the wave loop; it leaves no entry; a subtask   *)
(* is dispatched past the budget.                                          *)
SkipLeaves(i) ==
  /\ pc = "next"
  /\ NextUp(i)
  /\ ~elapsed
  /\ Unmet(i) # {}
  /\ failed' = FirstFailure("skipped", i)
  /\ entries' = entries \cup {Entry(i, "skipped", NoAttempt, "none")}
  /\ pc' = "passEnd"
  /\ UNCHANGED <<planVars, cur, attemptVars, treeVars, completed, halted,
                 replans_used, clockVars>>

SkipUnrecorded(i) ==
  /\ pc = "next"
  /\ NextUp(i)
  /\ ~elapsed
  /\ Unmet(i) # {}
  /\ failed' = FirstFailure("skipped", i)
  /\ UNCHANGED <<pc, planVars, cur, attemptVars, treeVars, entries, completed, halted,
                 replans_used, clockVars>>

DispatchLate(i) ==
  /\ pc = "next"
  /\ NextUp(i)
  /\ Unmet(i) = {}
  /\ cur' = i
  /\ pc' = "work"
  /\ UNCHANGED <<planVars, attemptVars, treeVars, resultVars, replans_used, clockVars>>

OverBudget ==
  /\ pc = "next"
  /\ Remaining # {}
  /\ elapsed
  /\ failed' = [why |-> "budget", idx |-> 0]
  /\ pc' = "passEnd"
  /\ UNCHANGED <<planVars, cur, attemptVars, treeVars, entries, completed, halted,
                 replans_used, clockVars>>

Skip(i) ==
  /\ pc = "next"
  /\ NextUp(i)
  /\ ~elapsed
  /\ Unmet(i) # {}
  /\ failed' = FirstFailure("skipped", i)
  /\ entries' = entries \cup {Entry(i, "skipped", NoAttempt, "none")}
  /\ UNCHANGED <<pc, planVars, cur, attemptVars, treeVars, completed, halted,
                 replans_used, clockVars>>

Dispatch(i) ==
  /\ pc = "next"
  /\ NextUp(i)
  /\ ~elapsed
  /\ Unmet(i) = {}
  /\ cur' = i
  /\ pc' = "work"
  /\ UNCHANGED <<planVars, attemptVars, treeVars, resultVars, replans_used, clockVars>>

AllVisited ==
  /\ pc = "next"
  /\ Remaining = {}
  /\ pc' = "passEnd"
  /\ UNCHANGED <<planVars, cur, attemptVars, treeVars, resultVars, replans_used,
                 clockVars>>

(* A round: route to a worker, which edits the tree.  When all its rungs   *)
(* fail the edits of the failed rungs stay, and the attempt counts.        *)
WorkerFails ==
  LET att == [decision |-> "rework", verify |-> "not_run", review |-> "none"]
  IN  \/ attempt >= MAX_REWORKS /\ FailSubtask("worker", att, "none")
      \/ attempt < MAX_REWORKS /\ Retry(att)

Work ==
  /\ pc = "work"
  /\ \/ Abort /\ UNCHANGED <<treeVars, lateCalls>>
     \/ /\ tree' \in Trees
        /\ verify' = "stale"
        /\ lateCalls' = IF elapsed THEN lateCalls + 1 ELSE lateCalls
        /\ WorkerFails \/ Proceed(last, "verify")
  /\ UNCHANGED <<planVars, replans_used, elapsed>>

(* capture_changes, whose failure fails the run, then run_verify and the   *)
(* stagnation fingerprint of the diff and its result.                      *)
Verify ==
  /\ pc = "verify"
  /\ \/ Abort /\ UNCHANGED verify
     \/ /\ verify' \in {"not_run", "passed", "failed"}
        /\ stalled' = (<<tree, verify'>> \in fingerprints)
        /\ fingerprints' = fingerprints \cup {<<tree, verify'>>}
        /\ pc' = "supervise"
        /\ UNCHANGED <<cur, attempt, last, resultVars>>
  /\ UNCHANGED <<planVars, tree, replans_used, clockVars>>

(* The supervisor may halt the run; any other verdict, an unparseable one  *)
(* and its absence only add a note.                                        *)
Supervise ==
  /\ pc = "supervise"
  /\ \/ /\ HasSupervisor
        /\ halted' = TRUE
        /\ entries' = entries \cup {Entry(cur, "halted", last, "none")}
        /\ pc' = "passEnd"
        /\ LeaveSubtask
        /\ UNCHANGED <<completed, failed>>
     \/ Proceed(last, "evaluate")
  /\ UNCHANGED <<planVars, treeVars, replans_used, clockVars>>

(* Mutant of Grounded: the conductor has the last word. *)
Ungrounded(decision) == decision

(* The grounding rule: a failed build or test overrides an accept. *)
Grounded(decision) ==
  IF verify = "failed" /\ decision = "accept" THEN "rework" ELSE decision

(* The conductor's evaluation; an unparseable one is a rework, and a       *)
(* rework fails the subtask when it is exhausted or stalled.               *)
ActOn(decision) ==
  LET att == [decision |-> decision, verify |-> verify, review |-> "none"]
      over == attempt >= MAX_REWORKS \/ stalled
  IN  \/ decision = "accept" /\ HasReviewer /\ Proceed(att, "review")
      \/ decision = "accept" /\ ~HasReviewer /\ Complete(att, "none")
      \/ decision = "fail" /\ FailSubtask("eval_fail", att, "none")
      \/ decision = "rework" /\ over
           /\ FailSubtask(IF stalled THEN "stalled" ELSE "exhausted", att, "none")
      \/ decision = "rework" /\ ~over /\ Retry(att)

Evaluate ==
  /\ pc = "evaluate"
  /\ Abort \/ \E reply \in {"accept", "rework", "fail"} : ActOn(Grounded(reply))
  /\ UNCHANGED <<planVars, treeVars, replans_used, clockVars>>

(* run_review_gate: an unavailable reviewer degrades to accept; a critical *)
(* finding or an unparseable review blocks, and an exhausted subtask then  *)
(* goes to the arbiter.                                                    *)
Blocks(review) == review \in {"critical", "unparseable"}

Reviewed(review) ==
  LET att == [last EXCEPT !.review = review]
      exhausted == attempt >= MAX_REWORKS
  IN  \/ ~Blocks(review) /\ Complete(att, "none")
      \/ Blocks(review) /\ ~exhausted /\ Retry(att)
      \/ Blocks(review) /\ exhausted /\ HasArbiter /\ Proceed(att, "arbitrate")
      \/ Blocks(review) /\ exhausted /\ ~HasArbiter /\ FailSubtask("review", att, "none")

Review ==
  /\ pc = "review"
  /\ \E review \in {"clean", "critical", "unparseable", "unavailable"} : Reviewed(review)
  /\ UNCHANGED <<planVars, treeVars, replans_used, clockVars>>

(* The arbiter decides an exhausted subtask and fails closed: an           *)
(* unparseable verdict is a fail.                                          *)
Arbitrate ==
  /\ pc = "arbitrate"
  /\ \/ Complete(last, "ship")
     \/ \E verdict \in {"fail", "unavailable"} : FailSubtask("arbiter", last, verdict)
  /\ UNCHANGED <<planVars, treeVars, replans_used, clockVars>>
-----------------------------------------------------------------------------
(* After the waves: stop, or take the failure as the reason to replan. *)
PassEnd ==
  /\ pc = "passEnd"
  /\ IF halted \/ failed = NoFailure \/ replans_used >= MaxReplans \/ elapsed
       THEN pc' = "done" /\ UNCHANGED <<failed, replans_used>>
       ELSE /\ failed' = NoFailure
            /\ replans_used' = replans_used + 1
            /\ pc' = "replan"
  /\ UNCHANGED <<planVars, cur, attemptVars, treeVars, entries, completed, halted,
                 clockVars>>

(* The replan prompt asks for fresh ids; nothing checks that the reply has *)
(* them, so FreshIds is an assumption on the conductor model.              *)
UsedIds == completed \cup {e.id : e \in {x \in entries : x.status = "skipped"}}
Obeys(p) == FreshIds => IdsOf(p) \cap UsedIds = {}

Replan ==
  /\ pc = "replan"
  /\ \/ \E p \in Plans :
          /\ Obeys(p)
          /\ plan' = p /\ rank' = NoRank(p) /\ wave' = 0
          /\ pc' = "layer"
          /\ UNCHANGED failed
     \/ /\ failed' = [why |-> "replan", idx |-> 0]
        /\ pc' = "done"
        /\ UNCHANGED planVars
  /\ UNCHANGED <<cur, attemptVars, treeVars, entries, completed, halted,
                 replans_used, clockVars>>

(* The wall clock passes the budget at any moment of the run. *)
BudgetElapses ==
  /\ HasBudget
  /\ ~elapsed
  /\ pc \notin {"done", "aborted"}
  /\ elapsed' = TRUE
  /\ UNCHANGED <<pc, planVars, cur, attemptVars, treeVars, resultVars,
                 replans_used, lateCalls>>

Run ==
  \/ Decompose \/ PlaceReady \/ Layered \/ InvalidPlan
  \/ OverBudget \/ (\E i \in Remaining : Skip(i) \/ Dispatch(i)) \/ AllVisited
  \/ Work \/ Verify \/ Supervise \/ Evaluate \/ Review \/ Arbitrate
  \/ PassEnd \/ Replan

Next == Run \/ BudgetElapses

(* Every role call ends, by its reply or by its timeout, and the runtime   *)
(* polls the run again when it does.                                       *)
Spec == Init /\ [][Next]_vars /\ WF_vars(Run)
-----------------------------------------------------------------------------
Finished == pc \in {"done", "aborted"}
Success == pc = "done" /\ failed = NoFailure /\ ~halted

(* A run that reports success leaves a tree that went through the verifier *)
(* after the last worker touched it, and did not fail there.  Edits of     *)
(* failed attempts and of abandoned subtasks stay in the tree, so this     *)
(* spans subtasks and replans.                                             *)
SuccessIsVerified == Success => verify \in {"passed", "not_run"}

(* No subtask is reported as completed on a red build or against a         *)
(* blocking review, unless the arbiter shipped it after the last rework;   *)
(* the arbiter cannot overrule the build (the grounding rule, run_review_  *)
(* gate).                                                                  *)
CompletedIsGrounded ==
  \A e \in entries : e.status = "completed" =>
    /\ e.attempt.decision = "accept"
    /\ e.attempt.verify \in {"passed", "not_run"}
    /\ Blocks(e.attempt.review) => e.arbiter = "ship"
    /\ HasReviewer => e.attempt.review # "none"

(* The report agrees with the transcript: a run without a failure and      *)
(* without a halt has completed every subtask of the plan it ended with,   *)
(* and a run that completed all of them reports no failure.                *)
OutcomeMatchesEntries ==
  pc = "done" =>
    (Success <=> \A i \in DOMAIN plan : EntryOf(i, "completed"))

(* Exactly one entry per subtask and pass, at whichever of the many        *)
(* terminal sites the subtask ends, and `completed` holds just the ids of  *)
(* the completed entries.                                                  *)
OneEntryEach ==
  /\ \A e, f \in entries : e.pass = f.pass /\ e.idx = f.idx => e = f
  /\ completed = {e.id : e \in {x \in entries : x.status = "completed"}}

(* The report and the transcript are one story. *)
ReportMatchesEntries == OutcomeMatchesEntries /\ OneEntryEach

(* Failure isolation: a subtask is skipped only when one of its own        *)
(* prerequisites failed or was skipped in the same pass, and a run that    *)
(* was not stopped leaves no subtask unvisited.                            *)
SkipHasCause ==
  \A e \in PassEntries : e.status = "skipped" =>
    \E j \in DOMAIN plan :
      /\ plan[j].id \in plan[e.idx].deps
      /\ EntryOf(j, "failed") \/ EntryOf(j, "skipped")

NobodyForgotten ==
  pc = "passEnd" /\ ~halted /\ failed.why # "budget" => Remaining = {}

(* conduct.rs, at the skip: "the upstream failure that caused this skip    *)
(* already set `failed`": the fallback that names the skip never fires.    *)
SkipFindsFailure == failed.why # "skipped"

(* A skip is always explained, in the transcript and in the report. *)
SkipIsExplained == SkipHasCause /\ SkipFindsFailure

(* The failure kept for the report is the root cause: it belongs to a      *)
(* failed subtask, and every subtask before that one was completed.        *)
RootCauseKept ==
  failed.idx # 0 =>
    /\ EntryOf(failed.idx, "failed")
    /\ \A e \in PassEntries : Before(e.idx, failed.idx) => e.status = "completed"

(* The prerequisites of a subtask in work were completed: a prerequisite   *)
(* in the same plan was completed by this plan.  Conduct relies on the     *)
(* fresh ids the replan prompt asks for.                                   *)
DepsCompleteFirst ==
  InSubtask =>
    \A j \in DOMAIN plan :
      plan[j].id \in plan[cur].deps => EntryOf(j, "completed")

(* The budget is checked between subtasks only: once it has elapsed at     *)
(* most the attempts of one subtask still start.                           *)
OverrunBounded == lateCalls <= MAX_REWORKS + 1

(* `failed` is FIRST-WINS: within a pass a failure is never replaced. *)
FailedFirstWins ==
  [][failed # NoFailure /\ pc # "passEnd" => failed' = failed]_vars

(* What was shipped stays shipped, a halt is final, and a finished run     *)
(* does not move: a replan starts from the work of the passes before it.   *)
NothingUnshipped ==
  [][/\ completed \subseteq completed' /\ entries \subseteq entries'
     /\ halted => halted' /\ pc' \notin {"work", "replan"}
     /\ Finished => UNCHANGED vars]_vars

(* Every run ends, whatever the roles answer. *)
Terminates == <>Finished
-----------------------------------------------------------------------------
(* Conduct implements EditCheckShip: pieces of work are the subtasks of    *)
(* the passes.                                                             *)
Phase ==
  IF pc = "aborted" THEN "aborted"
  ELSE IF pc # "done" THEN "running"
  ELSE IF halted THEN "halted"
  ELSE IF failed # NoFailure THEN "failed" ELSE "success"

Shipped ==
  {<<e.pass, e.idx>> : e \in {x \in entries : x.status = "completed"}}

Contract == INSTANCE EditCheckShip
  WITH phase <- Phase, trusted <- verify \in {"passed", "not_run"},
       shipped <- Shipped

ShipsOnlyChecked == Contract!Init /\ [][Contract!Next]_(Contract!vars)
=============================================================================
