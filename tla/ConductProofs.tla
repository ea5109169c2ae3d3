---------------------------- MODULE ConductProofs ----------------------------
(***************************************************************************)
(* Safety of the conductor/worker loop for every set of plans, every tree, *)
(* every configuration of gates, any number of replans and any budget.     *)
(***************************************************************************)
EXTENDS Conduct, FiniteSetTheorems, TLAPS

Sound == verify \in {"passed", "not_run"}
Unhurt == failed = NoFailure /\ ~halted

(* While waves are visited the layering is complete; it never breaks a     *)
(* dependency that is still open.                                          *)
LayerInv ==
  /\ \A i \in DOMAIN plan : rank[i] <= wave
  /\ pc \in {"next", "passEnd"} \cup SubtaskSteps => AllPlaced(rank)
  /\ \A i \in DOMAIN plan : rank[i] # Unplaced =>
       \A d \in plan[i].deps :
         \/ d \in completed
         \/ \E j \in DOMAIN plan :
              plan[j].id = d /\ rank[j] # Unplaced /\ rank[j] < rank[i]

(* The subtask in work has no entry yet and is first among those that      *)
(* have none.                                                              *)
CurInv ==
  InSubtask => /\ cur \in Remaining
               /\ \A j \in Remaining \ {cur} : Before(cur, j)

(* Entries belong to passes begun, one per subtask; the ids of completed   *)
(* ones are in completed.                                                  *)
EntryInv ==
  /\ \A e \in entries : e.pass <= replans_used
  /\ pc \in {"decompose", "layer", "replan"} => PassEntries = {}
  /\ pc = "replan" => replans_used > 0
  /\ \A e \in PassEntries : e.idx \in DOMAIN plan /\ e.id = plan[e.idx].id
  /\ \A e, f \in entries : e.pass = f.pass /\ e.idx = f.idx => e = f
  /\ \A e \in entries : e.status = "completed" => e.id \in completed

(* A pass without a failure and without a halt has completed whatever it   *)
(* visited, and its last edit was checked.                                 *)
UnhurtInv ==
  /\ pc \in {"decompose", "layer"} => Unhurt
  /\ pc = "replan" => Unhurt
  /\ Unhurt => \A e \in PassEntries : e.status = "completed"
  /\ Unhurt /\ pc \in {"passEnd", "done"} => Remaining = {} /\ plan # <<>>
  /\ Unhurt /\ pc \in {"next", "passEnd", "done"} /\ PassEntries # {} => Sound

(* A failure or a halt shows in the entries of the pass. *)
HurtInv ==
  /\ ~Unhurt /\ pc # "aborted" =>
       \/ \E e \in PassEntries : e.status # "completed"
       \/ pc \in {"passEnd", "done"} /\ Remaining # {}
  /\ pc \notin {"decompose", "aborted"} => plan # <<>>
  /\ halted => pc \in {"passEnd", "done"}

(* What each gate may take for granted about the attempt it looks at. *)
GateInv ==
  /\ pc \in {"supervise", "evaluate"} => verify # "stale"
  /\ pc \in {"review", "arbitrate"} =>
       Sound /\ HasReviewer /\ last.decision = "accept" /\ last.verify = verify
  /\ pc = "arbitrate" => last.review # "none"

IInv ==
  /\ TypeOK /\ LayerInv /\ CurInv /\ EntryInv /\ UnhurtInv /\ HurtInv
  /\ GateInv /\ CompletedIsGrounded /\ SkipFindsFailure
-----------------------------------------------------------------------------
(* A plan is a non-empty sequence of subtasks with natural ids. *)
LEMMA PlanFacts ==
  ASSUME TypeOK, NEW i \in DOMAIN plan
  PROVE  plan[i].id \in Nat /\ i \in Nat /\ plan \in Plans
<1>1. plan \in Plans
  BY DEF TypeOK
<1>2. plan \in Seq(SubtaskRec)
  BY <1>1, PlansAssumption
<1>3. DOMAIN plan = 1 .. Len(plan) /\ Len(plan) \in Nat
  BY <1>2
<1>4. plan[i] \in SubtaskRec /\ i \in Nat
  BY <1>2, <1>3
<1> QED
  BY <1>1, <1>4 DEF SubtaskRec

LEMMA EntryTyped ==
  ASSUME TypeOK, NEW i \in DOMAIN plan, NEW status \in Statuses,
         NEW att \in AttemptRec, NEW arb \in {"none", "ship", "fail", "unavailable"}
  PROVE  Entry(i, status, att, arb) \in EntryRec
<1>1. replans_used \in Nat
  BY MaxReplansAssumption DEF TypeOK
<1> QED
  BY <1>1, PlanFacts DEF Entry, EntryRec

LEMMA InitTypeOK == Init => TypeOK
<1> SUFFICES ASSUME Init PROVE TypeOK
  OBVIOUS
<1>1. rank \in [DOMAIN plan -> Nat]
  BY DEF Init, NoRank, Unplaced
<1>2. last \in AttemptRec /\ failed \in [why : Whys, idx : Nat]
  BY DEF Init, NoAttempt, NoFailure, AttemptRec, Whys
<1>3. replans_used \in 0 .. MaxReplans
  BY MaxReplansAssumption DEF Init
<1>4. stalled \in BOOLEAN /\ halted \in BOOLEAN /\ elapsed \in BOOLEAN
  BY Zenon DEF Init
<1> QED
  BY <1>1, <1>2, <1>3, <1>4 DEF Init, TypeOK, InSubtask, SubtaskSteps, MAX_REWORKS

(* The ways an iteration goes on keep the types; the steps below only have *)
(* to provide the typed attempt.                                           *)
LEMMA CompleteTypeOK ==
  ASSUME TypeOK, InSubtask, NEW att \in AttemptRec, NEW arb \in {"none", "ship"},
         Complete(att, arb)
  PROVE  /\ completed' \subseteq Nat /\ entries' \subseteq EntryRec
         /\ pc' = "next" /\ attempt' = 0 /\ fingerprints' = {} /\ stalled' \in BOOLEAN
         /\ last' = NoAttempt /\ cur' = 0 /\ halted' = halted /\ failed' = failed
<1>1. cur \in DOMAIN plan
  BY DEF TypeOK
<1>2. plan[cur].id \in Nat /\ Entry(cur, "completed", att, arb) \in EntryRec
  BY <1>1, PlanFacts, EntryTyped DEF Statuses
<1>3. stalled' \in BOOLEAN
  BY Zenon DEF Complete, LeaveSubtask
<1> QED
  BY <1>2, <1>3 DEF Complete, LeaveSubtask, TypeOK

FailedTyped ==
  /\ failed' \in [why : Whys, idx : Nat] /\ entries' \subseteq EntryRec
  /\ pc' = "next" /\ attempt' = 0 /\ fingerprints' = {} /\ stalled' \in BOOLEAN
  /\ last' = NoAttempt /\ cur' = 0 /\ halted' = halted /\ completed' = completed

LEMMA FailTypeOK ==
  ASSUME TypeOK, InSubtask, NEW why \in Whys, NEW att \in AttemptRec,
         NEW arb \in {"none", "fail", "unavailable"}, FailSubtask(why, att, arb)
  PROVE  FailedTyped
<1>1. cur \in DOMAIN plan /\ cur \in Nat
  BY DEF TypeOK
<1>2. Entry(cur, "failed", att, arb) \in EntryRec
  BY <1>1, EntryTyped DEF Statuses
<1>3. FirstFailure(why, cur) \in [why : Whys, idx : Nat]
  BY <1>1 DEF FirstFailure, TypeOK
<1>4. stalled' \in BOOLEAN
  BY Zenon DEF FailSubtask, LeaveSubtask
<1> QED
  BY <1>2, <1>3, <1>4 DEF FailSubtask, LeaveSubtask, TypeOK, FailedTyped

LEMMA FailedKeepsTypes ==
  ASSUME TypeOK, FailedTyped, UNCHANGED <<planVars, treeVars, replans_used, clockVars>>
  PROVE  TypeOK'
<1>1. last' \in AttemptRec /\ attempt' \in 0 .. MAX_REWORKS
  BY DEF FailedTyped, NoAttempt, AttemptRec, MAX_REWORKS
<1> QED
  BY <1>1 DEF FailedTyped, TypeOK, InSubtask, SubtaskSteps, planVars, treeVars, clockVars

LEMMA RetryTypeOK ==
  ASSUME TypeOK, InSubtask, NEW att \in AttemptRec, attempt < MAX_REWORKS, Retry(att)
  PROVE  /\ pc' = "work" /\ attempt' \in 0 .. MAX_REWORKS /\ stalled' \in BOOLEAN
         /\ last' \in AttemptRec /\ cur' = cur /\ fingerprints' = fingerprints
         /\ UNCHANGED resultVars
<1>1. stalled' \in BOOLEAN
  BY Zenon DEF Retry
<1>2. attempt' \in 0 .. MAX_REWORKS
  BY DEF Retry, TypeOK, MAX_REWORKS
<1> QED
  BY <1>1, <1>2 DEF Retry

(* The verifier ran for the current tree before anybody looks at it. *)
Checked == pc \in {"supervise", "evaluate"} => verify # "stale"

LEMMA StepTypeOK == TypeOK /\ Checked /\ [Next]_vars => TypeOK'
<1> SUFFICES ASSUME TypeOK, Checked, [Next]_vars PROVE TypeOK'
  OBVIOUS
<1> USE DEF planVars, attemptVars, treeVars, resultVars, clockVars, InSubtask,
            SubtaskSteps, MAX_REWORKS
<1>a. NoAttempt \in AttemptRec
  BY DEF NoAttempt, AttemptRec
<1>1. CASE Decompose
  BY <1>1, PlansAssumption DEF Decompose, TypeOK, NoRank, Unplaced
<1>2. CASE PlaceReady
  BY <1>2 DEF PlaceReady, PlaceWave, TypeOK
<1>3. CASE Layered
  BY <1>3 DEF Layered, TypeOK
<1>4. CASE InvalidPlan
  BY <1>4 DEF InvalidPlan, TypeOK, Whys
<1>5. CASE OverBudget
  BY <1>5 DEF OverBudget, TypeOK, Whys
<1>6. ASSUME NEW i \in Remaining, Skip(i)
      PROVE  TypeOK'
  <2>1. i \in DOMAIN plan /\ i \in Nat
    BY PlanFacts DEF Remaining
  <2>2. Entry(i, "skipped", NoAttempt, "none") \in EntryRec
    BY <2>1, <1>a, EntryTyped DEF Statuses
  <2>3. FirstFailure("skipped", i) \in [why : Whys, idx : Nat]
    BY <2>1 DEF FirstFailure, TypeOK, Whys
  <2> QED
    BY <1>6, <2>2, <2>3 DEF Skip, TypeOK
<1>7. ASSUME NEW i \in Remaining, Dispatch(i)
      PROVE  TypeOK'
  <2>1. i \in DOMAIN plan /\ i \in Nat
    BY PlanFacts DEF Remaining
  <2> QED
    BY <1>7, <2>1 DEF Dispatch, TypeOK
<1>8. CASE AllVisited
  BY <1>8 DEF AllVisited, TypeOK
<1>9. CASE Work
  <2>1. lateCalls' \in Nat
    BY <1>9 DEF Work, TypeOK
  <2>2. CASE Abort /\ UNCHANGED treeVars
    BY <1>9, <2>1, <2>2 DEF Work, Abort, TypeOK
  <2>3. CASE WorkerFails /\ tree' \in Trees /\ verify' = "stale"
    <3> DEFINE att == [decision |-> "rework", verify |-> "not_run", review |-> "none"]
    <3>1. att \in AttemptRec
      BY DEF AttemptRec
    <3>2. CASE FailSubtask("worker", att, "none")
      <4>1. "worker" \in Whys
        BY DEF Whys
      <4>2. FailedTyped
        BY <1>9, <3>1, <3>2, <4>1, FailTypeOK DEF Work
      <4> QED
        BY <1>9, <2>1, <2>3, <4>2, <1>a DEF Work, FailedTyped, TypeOK
    <3>3. CASE attempt < MAX_REWORKS /\ Retry(att)
      BY <1>9, <2>1, <2>3, <3>1, <3>3, RetryTypeOK DEF Work, TypeOK
    <3> QED
      BY <2>3, <3>2, <3>3 DEF WorkerFails
  <2>4. CASE Proceed(last, "verify") /\ tree' \in Trees /\ verify' = "stale"
    BY <1>9, <2>1, <2>4 DEF Work, Proceed, TypeOK
  <2> QED
    BY <1>9, <2>2, <2>3, <2>4 DEF Work
<1>10. CASE Verify
  <2>1. CASE Abort /\ UNCHANGED verify
    BY <1>10, <2>1 DEF Verify, Abort, TypeOK
  <2>2. CASE /\ verify' \in {"not_run", "passed", "failed"}
             /\ stalled' = (<<tree, verify'>> \in fingerprints)
             /\ fingerprints' = fingerprints \cup {<<tree, verify'>>}
             /\ pc' = "supervise"
             /\ UNCHANGED <<cur, attempt, last, resultVars>>
    <3>1. stalled' \in BOOLEAN
      <4>1. (<<tree, verify'>> \in fingerprints) \in BOOLEAN
        OBVIOUS
      <4> QED
        BY <2>2, <4>1, Zenon
    <3>2. fingerprints' \subseteq Trees \X {"not_run", "passed", "failed"}
      BY <2>2 DEF TypeOK
    <3>3. UNCHANGED <<planVars, tree, replans_used, clockVars>> /\ pc = "verify"
      BY <1>10 DEF Verify
    <3>4. /\ verify' \in {"stale", "not_run", "passed", "failed"}
          /\ UNCHANGED <<cur, attempt, last, resultVars>> /\ pc' = "supervise"
      BY <2>2
    <3> QED
      BY <3>1, <3>2, <3>3, <3>4 DEF TypeOK
  <2> QED
    BY <1>10, <2>1, <2>2 DEF Verify
<1>11. CASE Supervise
  <2>1. CASE Proceed(last, "evaluate")
    BY <1>11, <2>1 DEF Supervise, Proceed, TypeOK
  <2>2. CASE /\ halted' = TRUE /\ pc' = "passEnd" /\ LeaveSubtask
             /\ entries' = entries \cup {Entry(cur, "halted", last, "none")}
             /\ UNCHANGED <<completed, failed>>
    <3>1. Entry(cur, "halted", last, "none") \in EntryRec
      BY <1>11, EntryTyped DEF Supervise, TypeOK, Statuses
    <3>2. /\ entries' \subseteq EntryRec /\ last' \in AttemptRec
          /\ attempt' = 0 /\ fingerprints' = {} /\ cur' = 0 /\ pc' = "passEnd"
          /\ completed' = completed /\ failed' = failed
      BY <2>2, <3>1, <1>a DEF LeaveSubtask, TypeOK
    <3>3. stalled' \in BOOLEAN /\ halted' \in BOOLEAN
      BY <2>2, Zenon DEF LeaveSubtask
    <3>4. UNCHANGED <<planVars, treeVars, replans_used, clockVars>>
      BY <1>11 DEF Supervise
    <3> QED
      BY <3>2, <3>3, <3>4 DEF TypeOK
  <2> QED
    BY <1>11, <2>1, <2>2 DEF Supervise
<1>12. CASE Evaluate
  <2>1. CASE Abort
    BY <1>12, <2>1 DEF Evaluate, Abort, TypeOK
  <2>2. ASSUME NEW d \in {"accept", "rework", "fail"}, ActOn(d)
        PROVE  TypeOK'
    <3> DEFINE att == [decision |-> d, verify |-> verify, review |-> "none"]
    <3>1. UNCHANGED <<planVars, treeVars, replans_used, clockVars>> /\ pc = "evaluate"
      BY <1>12 DEF Evaluate
    <3>2. att \in AttemptRec
      BY <3>1 DEF AttemptRec, TypeOK, Checked
    <3>3. CASE Proceed(att, "review")
      BY <3>1, <3>2, <3>3 DEF Proceed, TypeOK
    <3>4. CASE Complete(att, "none")
      BY <3>1, <3>2, <3>4, <1>a, CompleteTypeOK DEF TypeOK
    <3>5. ASSUME NEW reason \in {"eval_fail", "stalled", "exhausted"},
                 FailSubtask(reason, att, "none")
          PROVE  TypeOK'
      <4>1. reason \in Whys
        BY DEF Whys
      <4>2. FailedTyped
        BY <3>1, <3>2, <3>5, <4>1, FailTypeOK
      <4> QED
        BY <3>1, <4>2, FailedKeepsTypes
    <3>6. CASE attempt < MAX_REWORKS /\ Retry(att)
      BY <3>1, <3>2, <3>6, RetryTypeOK DEF TypeOK
    <3>7. CASE FailSubtask(IF stalled THEN "stalled" ELSE "exhausted", att, "none")
      BY <3>5, <3>7
    <3>8. attempt >= MAX_REWORKS \/ attempt < MAX_REWORKS
      BY DEF TypeOK
    <3> QED
      BY <2>2, <3>3, <3>4, <3>5, <3>6, <3>7, <3>8, Zenon DEF ActOn
  <2> QED
    BY <1>12, <2>1, <2>2 DEF Evaluate, Grounded
<1>13. CASE Review
  <2>1. PICK r \in {"clean", "critical", "unparseable", "unavailable"} : Reviewed(r)
    BY <1>13 DEF Review
  <2> DEFINE att == [last EXCEPT !.review = r]
  <2>2. UNCHANGED <<planVars, treeVars, replans_used, clockVars>> /\ pc = "review"
    BY <1>13 DEF Review
  <2>3. att \in AttemptRec
    BY DEF AttemptRec, TypeOK
  <2>4. CASE Complete(att, "none")
    BY <2>2, <2>3, <2>4, <1>a, CompleteTypeOK DEF TypeOK
  <2>5. CASE attempt < MAX_REWORKS /\ Retry(att)
    BY <2>2, <2>3, <2>5, RetryTypeOK DEF TypeOK
  <2>6. CASE Proceed(att, "arbitrate")
    BY <2>2, <2>3, <2>6 DEF Proceed, TypeOK
  <2>7. CASE FailSubtask("review", att, "none")
    <3>1. "review" \in Whys
      BY DEF Whys
    <3>2. FailedTyped
      BY <2>2, <2>3, <2>7, <3>1, FailTypeOK
    <3> QED
      BY <2>2, <3>2, FailedKeepsTypes
  <2> QED
    BY <2>1, <2>4, <2>5, <2>6, <2>7 DEF Reviewed, TypeOK
<1>14. CASE Arbitrate
  <2>1. UNCHANGED <<planVars, treeVars, replans_used, clockVars>> /\ pc = "arbitrate"
        /\ last \in AttemptRec
    BY <1>14 DEF Arbitrate, TypeOK
  <2>2. CASE Complete(last, "ship")
    BY <2>1, <2>2, <1>a, CompleteTypeOK DEF TypeOK
  <2>3. ASSUME NEW v \in {"fail", "unavailable"}, FailSubtask("arbiter", last, v)
        PROVE  TypeOK'
    <3>1. "arbiter" \in Whys
      BY DEF Whys
    <3>2. FailedTyped
      BY <2>1, <2>3, <3>1, FailTypeOK
    <3> QED
      BY <2>1, <3>2, FailedKeepsTypes
  <2> QED
    BY <1>14, <2>2, <2>3 DEF Arbitrate
<1>15. CASE PassEnd
  <2>1. CASE pc' = "done" /\ UNCHANGED <<failed, replans_used>>
    BY <1>15, <2>1 DEF PassEnd, TypeOK
  <2>2. CASE /\ replans_used < MaxReplans /\ replans_used' = replans_used + 1
             /\ failed' = NoFailure /\ pc' = "replan"
    <3>1. replans_used' \in 0 .. MaxReplans
      BY <2>2, MaxReplansAssumption DEF TypeOK
    <3>2. failed' \in [why : Whys, idx : Nat]
      BY <2>2 DEF NoFailure, Whys
    <3> QED
      BY <1>15, <2>2, <3>1, <3>2 DEF PassEnd, TypeOK
  <2>3. replans_used >= MaxReplans \/ replans_used < MaxReplans
    BY MaxReplansAssumption DEF TypeOK
  <2> QED
    BY <1>15, <2>1, <2>2, <2>3, Zenon DEF PassEnd
<1>16. CASE Replan
  <2>1. CASE \E p \in Plans : /\ plan' = p /\ rank' = NoRank(p) /\ wave' = 0
                              /\ pc' = "layer" /\ UNCHANGED failed
    BY <1>16, <2>1 DEF Replan, TypeOK, NoRank, Unplaced
  <2>2. CASE /\ failed' = [why |-> "replan", idx |-> 0] /\ pc' = "done"
             /\ UNCHANGED planVars
    BY <1>16, <2>2 DEF Replan, TypeOK, Whys
  <2> QED
    BY <1>16, <2>1, <2>2 DEF Replan
<1>17. CASE BudgetElapses
  BY <1>17 DEF BudgetElapses, TypeOK
<1>18. CASE UNCHANGED vars
  BY <1>18 DEF vars, TypeOK
<1> QED
  BY <1>1, <1>2, <1>3, <1>4, <1>5, <1>6, <1>7, <1>8, <1>9, <1>10, <1>11, <1>12, <1>13,
     <1>14, <1>15, <1>16, <1>17, <1>18 DEF Next, Run
-----------------------------------------------------------------------------
(* The six steps of an attempt change the results of the run in four ways  *)
(* only; the rest of the proof looks at these instead of the steps.        *)
NewEntry(e, status) ==
  /\ e \in EntryRec
  /\ e.pass = replans_used /\ e.idx = cur /\ e.id = plan[cur].id
  /\ e.status = status
  /\ entries' = entries \cup {e}

Grounds(e) ==
  /\ e.attempt.decision = "accept"
  /\ e.attempt.verify \in {"passed", "not_run"}
  /\ Blocks(e.attempt.review) => e.arbiter = "ship"
  /\ HasReviewer => e.attempt.review # "none"

GoesOn ==
  /\ pc' \in SubtaskSteps \cup {"aborted"}
  /\ cur' = cur
  /\ UNCHANGED resultVars

Completes ==
  /\ pc' = "next"
  /\ \E e : NewEntry(e, "completed") /\ Grounds(e)
  /\ completed' = completed \cup {plan[cur].id}
  /\ UNCHANGED <<halted, failed, verify>>
  /\ Sound

Fails ==
  /\ pc' = "next"
  /\ \E e : NewEntry(e, "failed")
  /\ \E why \in Whys \ {"none", "skipped"} : failed' = FirstFailure(why, cur)
  /\ UNCHANGED <<completed, halted>>

Halts ==
  /\ pc' = "passEnd"
  /\ \E e : NewEntry(e, "halted")
  /\ halted' = TRUE
  /\ UNCHANGED <<completed, failed>>

AttemptStep ==
  /\ InSubtask
  /\ UNCHANGED <<planVars, replans_used>>
  /\ GoesOn \/ Completes \/ Fails \/ Halts

LEMMA CompleteShape ==
  ASSUME TypeOK, InSubtask, Sound, UNCHANGED verify,
         NEW att \in AttemptRec, NEW arb \in {"none", "ship"}, Complete(att, arb),
         att.decision = "accept", att.verify \in {"passed", "not_run"},
         Blocks(att.review) => arb = "ship", HasReviewer => att.review # "none"
  PROVE  Completes
<1> DEFINE e == Entry(cur, "completed", att, arb)
<1>1. cur \in DOMAIN plan
  BY DEF TypeOK
<1>2. e \in EntryRec
  BY <1>1, EntryTyped DEF Statuses
<1>3. NewEntry(e, "completed") /\ Grounds(e)
  BY <1>2 DEF NewEntry, Grounds, Entry, Complete
<1> QED
  BY <1>3 DEF Complete, Completes

LEMMA FailShape ==
  ASSUME TypeOK, InSubtask, NEW why \in Whys \ {"none", "skipped"},
         NEW att \in AttemptRec, NEW arb \in {"none", "fail", "unavailable"},
         FailSubtask(why, att, arb)
  PROVE  Fails
<1> DEFINE e == Entry(cur, "failed", att, arb)
<1>1. cur \in DOMAIN plan
  BY DEF TypeOK
<1>2. e \in EntryRec
  BY <1>1, EntryTyped DEF Statuses
<1>3. NewEntry(e, "failed")
  BY <1>2 DEF NewEntry, Entry, FailSubtask
<1> QED
  BY <1>3 DEF FailSubtask, Fails

LEMMA ProceedShape ==
  ASSUME NEW att, NEW step \in SubtaskSteps, Proceed(att, step) \/ Retry(att) \/ Abort
  PROVE  GoesOn
BY DEF Proceed, Retry, Abort, GoesOn, SubtaskSteps

LEMMA AttemptShape ==
  ASSUME TypeOK, GateInv, Work \/ Verify \/ Supervise \/ Evaluate \/ Review \/ Arbitrate
  PROVE  AttemptStep
<1>1. UNCHANGED <<planVars, replans_used>> /\ InSubtask
  BY DEF Work, Verify, Supervise, Evaluate, Review, Arbitrate, InSubtask, SubtaskSteps,
         planVars
<1>2. CASE Work
  <2> DEFINE att == [decision |-> "rework", verify |-> "not_run", review |-> "none"]
  <2>1. CASE FailSubtask("worker", att, "none")
    <3>1. "worker" \in Whys \ {"none", "skipped"} /\ att \in AttemptRec
      BY DEF Whys, AttemptRec
    <3>2. Fails
      BY <1>1, <2>1, <3>1, FailShape
    <3> QED
      BY <1>1, <3>2 DEF AttemptStep
  <2>2. CASE Abort \/ Retry(att) \/ Proceed(last, "verify")
    <3>1. GoesOn
      BY <2>2, ProceedShape DEF SubtaskSteps
    <3> QED
      BY <1>1, <3>1 DEF AttemptStep
  <2> QED
    BY <1>2, <2>1, <2>2 DEF Work, WorkerFails
<1>3. CASE Verify
  <2>1. GoesOn
    BY <1>3 DEF Verify, Abort, GoesOn, SubtaskSteps, resultVars
  <2> QED
    BY <1>1, <2>1 DEF AttemptStep
<1>4. CASE Supervise
  <2>1. CASE Proceed(last, "evaluate")
    <3>1. GoesOn
      BY <2>1, ProceedShape DEF SubtaskSteps
    <3> QED
      BY <1>1, <3>1 DEF AttemptStep
  <2>2. CASE /\ halted' = TRUE /\ pc' = "passEnd" /\ UNCHANGED <<completed, failed>>
             /\ entries' = entries \cup {Entry(cur, "halted", last, "none")}
    <3> DEFINE e == Entry(cur, "halted", last, "none")
    <3>1. e \in EntryRec
      BY <1>1, EntryTyped DEF TypeOK, Statuses
    <3>2. NewEntry(e, "halted")
      BY <2>2, <3>1 DEF NewEntry, Entry
    <3>3. Halts
      BY <2>2, <3>2 DEF Halts
    <3> QED
      BY <1>1, <3>3 DEF AttemptStep
  <2> QED
    BY <1>4, <2>1, <2>2 DEF Supervise
<1>5. CASE Evaluate
  <2>1. CASE Abort
    <3>1. GoesOn
      BY <2>1, ProceedShape DEF SubtaskSteps
    <3> QED
      BY <1>1, <3>1 DEF AttemptStep
  <2>2. ASSUME NEW reply \in {"accept", "rework", "fail"}, ActOn(Grounded(reply))
        PROVE  AttemptStep
    <3> DEFINE d == Grounded(reply)
               att == [decision |-> d, verify |-> verify, review |-> "none"]
    <3>1. d \in {"accept", "rework", "fail"} /\ (d = "accept" => verify # "failed")
      BY DEF Grounded
    <3>2. verify \in {"not_run", "passed", "failed"} /\ UNCHANGED verify
      BY <1>5 DEF Evaluate, TypeOK, GateInv, treeVars
    <3>3. att \in AttemptRec
      BY <3>1, <3>2 DEF AttemptRec
    <3>4. CASE Proceed(att, "review") \/ Retry(att)
      <4>1. GoesOn
        BY <3>4, ProceedShape DEF SubtaskSteps
      <4> QED
        BY <1>1, <4>1 DEF AttemptStep
    <3>5. CASE d = "accept" /\ ~HasReviewer /\ Complete(att, "none")
      <4>1. Completes
        BY <1>1, <3>1, <3>2, <3>3, <3>5, CompleteShape DEF Sound, Blocks
      <4> QED
        BY <1>1, <4>1 DEF AttemptStep
    <3>6. ASSUME NEW reason \in {"eval_fail", "stalled", "exhausted"},
                 FailSubtask(reason, att, "none")
          PROVE  AttemptStep
      <4>1. reason \in Whys \ {"none", "skipped"}
        BY DEF Whys
      <4>2. Fails
        BY <1>1, <3>3, <3>6, <4>1, FailShape
      <4> QED
        BY <1>1, <4>2 DEF AttemptStep
    <3>7. CASE FailSubtask(IF stalled THEN "stalled" ELSE "exhausted", att, "none")
      BY <3>6, <3>7
    <3> QED
      BY <2>2, <3>4, <3>5, <3>6, <3>7, Zenon DEF ActOn
  <2> QED
    BY <1>5, <2>1, <2>2 DEF Evaluate
<1>6. CASE Review
  <2>1. PICK r \in {"clean", "critical", "unparseable", "unavailable"} : Reviewed(r)
    BY <1>6 DEF Review
  <2> DEFINE att == [last EXCEPT !.review = r]
  <2>2. /\ Sound /\ HasReviewer /\ UNCHANGED verify
        /\ last.decision = "accept" /\ last.verify \in {"passed", "not_run"}
    BY <1>6 DEF Review, GateInv, Sound, treeVars
  <2>3. /\ att \in AttemptRec /\ att.review = r
        /\ att.decision = last.decision /\ att.verify = last.verify
    BY DEF AttemptRec, TypeOK
  <2>4. CASE Retry(att) \/ Proceed(att, "arbitrate")
    <3>1. GoesOn
      BY <2>4, ProceedShape DEF SubtaskSteps
    <3> QED
      BY <1>1, <3>1 DEF AttemptStep
  <2>5. CASE ~Blocks(r) /\ Complete(att, "none")
    <3>1. Completes
      BY <1>1, <2>2, <2>3, <2>5, CompleteShape
    <3> QED
      BY <1>1, <3>1 DEF AttemptStep
  <2>6. CASE FailSubtask("review", att, "none")
    <3>1. "review" \in Whys \ {"none", "skipped"}
      BY DEF Whys
    <3>2. Fails
      BY <1>1, <2>3, <2>6, <3>1, FailShape
    <3> QED
      BY <1>1, <3>2 DEF AttemptStep
  <2> QED
    BY <2>1, <2>4, <2>5, <2>6, Zenon DEF Reviewed
<1>7. CASE Arbitrate
  <2>1. /\ Sound /\ UNCHANGED verify /\ last \in AttemptRec /\ last.review # "none"
        /\ last.decision = "accept" /\ last.verify \in {"passed", "not_run"}
    BY <1>7 DEF Arbitrate, GateInv, Sound, TypeOK, treeVars
  <2>2. CASE Complete(last, "ship")
    <3>1. Completes
      BY <1>1, <2>1, <2>2, CompleteShape
    <3> QED
      BY <1>1, <3>1 DEF AttemptStep
  <2>3. ASSUME NEW v \in {"fail", "unavailable"}, FailSubtask("arbiter", last, v)
        PROVE  AttemptStep
    <3>1. "arbiter" \in Whys \ {"none", "skipped"}
      BY DEF Whys
    <3>2. Fails
      BY <1>1, <2>1, <2>3, <3>1, FailShape
    <3> QED
      BY <1>1, <3>2 DEF AttemptStep
  <2> QED
    BY <1>7, <2>2, <2>3 DEF Arbitrate
<1> QED
  BY <1>2, <1>3, <1>4, <1>5, <1>6, <1>7
-----------------------------------------------------------------------------
LEMMA StepGateInv == TypeOK /\ GateInv /\ [Next]_vars => GateInv'
<1> SUFFICES ASSUME TypeOK, GateInv, [Next]_vars PROVE GateInv'
  OBVIOUS
<1> USE DEF GateInv, Sound
<1>1. CASE pc' \notin {"supervise", "evaluate", "review", "arbitrate"}
  BY <1>1
<1>2. CASE Verify
  BY <1>2 DEF Verify, Abort
<1>3. CASE Supervise
  BY <1>3 DEF Supervise, Proceed, treeVars
<1>4. CASE Evaluate
  <2>1. CASE Abort
    BY <1>1, <2>1 DEF Abort
  <2>2. ASSUME NEW reply \in {"accept", "rework", "fail"}, ActOn(Grounded(reply))
        PROVE  GateInv'
    <3> DEFINE d == Grounded(reply)
               att == [decision |-> d, verify |-> verify, review |-> "none"]
    <3>1. d = "accept" => verify # "failed"
      BY DEF Grounded
    <3>2. verify \in {"not_run", "passed", "failed"} /\ verify' = verify
      BY <1>4 DEF Evaluate, TypeOK, treeVars
    <3>3. CASE d = "accept" /\ HasReviewer /\ Proceed(att, "review")
      BY <3>1, <3>2, <3>3 DEF Proceed
    <3>4. CASE pc' \in {"next", "work"}
      BY <1>1, <3>4
    <3> QED
      BY <2>2, <3>3, <3>4 DEF ActOn, Complete, FailSubtask, Retry
  <2> QED
    BY <1>4, <2>1, <2>2 DEF Evaluate
<1>5. CASE Review
  <2>1. PICK r \in {"clean", "critical", "unparseable", "unavailable"} : Reviewed(r)
    BY <1>5 DEF Review
  <2> DEFINE att == [last EXCEPT !.review = r]
  <2>2. /\ att.review = r /\ att.decision = last.decision /\ att.verify = last.verify
        /\ verify' = verify /\ pc = "review"
    BY <1>5 DEF AttemptRec, TypeOK, Review, treeVars
  <2>3. CASE Proceed(att, "arbitrate")
    BY <2>2, <2>3 DEF Proceed
  <2>4. CASE pc' \in {"next", "work"}
    BY <1>1, <2>4
  <2> QED
    BY <2>1, <2>3, <2>4 DEF Reviewed, Complete, FailSubtask, Retry
<1>6. CASE BudgetElapses \/ UNCHANGED vars
  BY <1>6 DEF BudgetElapses, vars, attemptVars, treeVars
<1>7. CASE Work
  BY <1>7, <1>1 DEF Work, WorkerFails, Proceed, Retry, FailSubtask, Abort
<1>8. CASE Arbitrate
  BY <1>8, <1>1 DEF Arbitrate, Complete, FailSubtask
<1>9. CASE \/ Decompose \/ PlaceReady \/ Layered \/ InvalidPlan \/ OverBudget \/ AllVisited
           \/ (\E i \in Remaining : Skip(i) \/ Dispatch(i)) \/ PassEnd \/ Replan
  BY <1>9, <1>1 DEF Decompose, PlaceReady, Layered, InvalidPlan, OverBudget, AllVisited,
     Skip, Dispatch, PassEnd, Replan
<1> QED
  BY <1>2, <1>3, <1>4, <1>5, <1>6, <1>7, <1>8, <1>9 DEF Next, Run

LEMMA StepLayerInv == IInv /\ [Next]_vars => LayerInv'
<1> SUFFICES ASSUME IInv, [Next]_vars PROVE LayerInv'
  OBVIOUS
<1> USE DEF planVars, resultVars, Unplaced
<1>0. TypeOK /\ LayerInv /\ GateInv
  BY DEF IInv
<1>1. CASE Decompose
  BY <1>0, <1>1 DEF Decompose, LayerInv, NoRank, SubtaskSteps
<1>2. CASE PlaceReady
  <2> DEFINE R == Ready(plan, completed, rank)
  <2>1. /\ rank' = [i \in DOMAIN rank |-> IF i \in R THEN wave + 1 ELSE rank[i]]
        /\ wave' = wave + 1 /\ plan' = plan /\ completed' = completed
        /\ pc = "layer" /\ pc' = "layer"
    BY <1>2 DEF PlaceReady, PlaceWave
  <2>2. DOMAIN rank = DOMAIN plan /\ wave \in Nat
        /\ \A i \in DOMAIN plan : rank[i] \in Nat /\ rank[i] <= wave
    BY <1>0 DEF TypeOK, LayerInv
  <2>3. ASSUME NEW i \in DOMAIN plan
        PROVE  rank'[i] <= wave'
    BY <2>1, <2>2
  <2>4. ASSUME NEW i \in DOMAIN plan, rank'[i] # Unplaced,
               NEW d \in plan[i].deps, d \notin completed
        PROVE  \E j \in DOMAIN plan :
                 plan[j].id = d /\ rank'[j] # Unplaced /\ rank'[j] < rank'[i]
    <3>1. CASE i \in R
      <4>1. PICK j \in DOMAIN plan : rank[j] # Unplaced /\ plan[j].id = d
        BY <2>4, <3>1 DEF Ready
      <4>2. j \notin R
        BY <4>1 DEF Ready
      <4>3. rank'[j] = rank[j] /\ rank'[i] = wave + 1
        BY <2>1, <2>2, <3>1, <4>2
      <4> QED
        BY <2>2, <4>1, <4>3
    <3>2. CASE i \notin R
      <4>1. rank'[i] = rank[i]
        BY <2>1, <2>2, <3>2
      <4>2. PICK j \in DOMAIN plan :
              plan[j].id = d /\ rank[j] # Unplaced /\ rank[j] < rank[i]
        BY <1>0, <2>4, <4>1 DEF LayerInv
      <4>3. j \notin R
        BY <4>2 DEF Ready
      <4>4. rank'[j] = rank[j]
        BY <2>1, <2>2, <4>3
      <4> QED
        BY <4>1, <4>2, <4>4
    <3> QED
      BY <3>1, <3>2
  <2>5. pc' \notin {"next", "passEnd"} \cup SubtaskSteps
    BY <2>1 DEF SubtaskSteps
  <2> QED
    BY <2>1, <2>3, <2>4, <2>5 DEF LayerInv
<1>3. CASE Layered
  BY <1>0, <1>3 DEF Layered, LayerInv, AllPlaced
<1>4. CASE Replan
  BY <1>0, <1>4 DEF Replan, LayerInv, NoRank, SubtaskSteps
<1>5. CASE /\ UNCHANGED planVars
           /\ completed \subseteq completed'
           /\ pc \in {"next", "passEnd"} \cup SubtaskSteps
                \/ pc' \notin {"next", "passEnd"} \cup SubtaskSteps
  BY <1>0, <1>5 DEF LayerInv, AllPlaced
<1>6. CASE AttemptStep
  BY <1>5, <1>6 DEF AttemptStep, GoesOn, Completes, Fails, Halts, InSubtask
<1>7. CASE \/ InvalidPlan \/ OverBudget \/ AllVisited \/ PassEnd
           \/ (\E i \in Remaining : Skip(i) \/ Dispatch(i))
           \/ BudgetElapses \/ UNCHANGED vars
  BY <1>5, <1>7 DEF InvalidPlan, OverBudget, AllVisited, PassEnd, Skip, Dispatch,
     BudgetElapses, vars, SubtaskSteps
<1> QED
  BY <1>0, <1>1, <1>2, <1>3, <1>4, <1>6, <1>7, AttemptShape DEF Next, Run

LEMMA StepCurInv == IInv /\ [Next]_vars => CurInv'
<1> SUFFICES ASSUME IInv, [Next]_vars PROVE CurInv'
  OBVIOUS
<1> USE DEF planVars, resultVars, InSubtask
<1>0. TypeOK /\ CurInv /\ GateInv
  BY DEF IInv
<1>1. CASE pc' \notin SubtaskSteps
  BY <1>1 DEF CurInv
<1>2. ASSUME NEW i \in Remaining, Dispatch(i)
      PROVE  CurInv'
  BY <1>2 DEF Dispatch, NextUp, CurInv, Remaining, Visited, PassEntries, Before
<1>3. CASE /\ UNCHANGED <<planVars, cur, entries, replans_used>> /\ InSubtask
  BY <1>0, <1>3 DEF CurInv, Remaining, Visited, PassEntries, Before
<1>4. CASE AttemptStep
  BY <1>1, <1>3, <1>4 DEF AttemptStep, GoesOn, Completes, Fails, Halts, SubtaskSteps
<1>5. CASE BudgetElapses \/ UNCHANGED vars
  BY <1>1, <1>3, <1>5 DEF BudgetElapses, vars
<1>6. CASE \/ Decompose \/ PlaceReady \/ Layered \/ InvalidPlan \/ OverBudget \/ AllVisited
           \/ (\E i \in Remaining : Skip(i)) \/ PassEnd \/ Replan
  BY <1>1, <1>6 DEF Decompose, PlaceReady, Layered, InvalidPlan, OverBudget, AllVisited,
     Skip, PassEnd, Replan, SubtaskSteps
<1> QED
  BY <1>0, <1>2, <1>4, <1>5, <1>6, AttemptShape DEF Next, Run
-----------------------------------------------------------------------------
(* A step records an entry for subtask i of the current pass. *)
Records(i, e) ==
  /\ e.pass = replans_used /\ e.idx = i /\ e.id = plan[i].id
  /\ entries' = entries \cup {e}
  /\ UNCHANGED <<plan, rank, wave, replans_used>>

(* The entry is the only new one of the pass, and i is no longer open. *)
LEMMA RecordFacts ==
  ASSUME EntryInv, NEW i, NEW e, Records(i, e)
  PROVE  PassEntries' = PassEntries \cup {e} /\ Remaining' = Remaining \ {i}
<1>1. PassEntries' = PassEntries \cup {e}
  BY DEF Records, PassEntries
<1>2. \A j : Visited(j)' <=> Visited(j) \/ j = i
  BY <1>1 DEF Visited, Records
<1>3. plan' = plan
  BY DEF Records
<1>4. Remaining' = Remaining \ {i}
  BY <1>2, <1>3 DEF Remaining
<1> QED
  BY <1>1, <1>4

(* It keeps the book-keeping of the entries. *)
LEMMA RecordEntryInv ==
  ASSUME TypeOK, EntryInv, NEW i \in Remaining, NEW e, Records(i, e),
         pc' \notin {"decompose", "layer", "replan"}, completed \subseteq completed',
         e.status = "completed" => e.id \in completed'
  PROVE  EntryInv'
<1>1. PassEntries' = PassEntries \cup {e}
  BY RecordFacts
<1>2. i \in DOMAIN plan /\ \A f \in PassEntries : f.idx # i
  BY DEF Remaining, Visited
<1>3. replans_used \in Nat /\ replans_used' = replans_used /\ plan' = plan
  BY MaxReplansAssumption DEF Records, TypeOK
<1>4. \A f \in entries' : f.pass <= replans_used'
  BY <1>3 DEF Records, EntryInv
<1>5. \A f \in PassEntries' : f.idx \in DOMAIN plan' /\ f.id = plan'[f.idx].id
  BY <1>1, <1>2, <1>3 DEF EntryInv, Records
<1>6. \A f, g \in entries' : f.pass = g.pass /\ f.idx = g.idx => f = g
  BY <1>2 DEF EntryInv, Records, PassEntries
<1>7. \A f \in entries' : f.status = "completed" => f.id \in completed'
  BY DEF EntryInv, Records
<1> QED
  BY <1>4, <1>5, <1>6, <1>7 DEF EntryInv

(* The steps of an attempt that end it record an entry for cur. *)
LEMMA AttemptRecords ==
  ASSUME AttemptStep, ~GoesOn
  PROVE  /\ pc' \in {"next", "passEnd"}
         /\ completed \subseteq completed'
         /\ \E e \in EntryRec :
              Records(cur, e) /\ (e.status = "completed" => e.id \in completed')
<1> USE DEF AttemptStep, NewEntry, Records, planVars
<1>1. CASE Completes
  BY <1>1 DEF Completes
<1>2. CASE Fails
  BY <1>2 DEF Fails
<1>3. CASE Halts
  BY <1>3 DEF Halts
<1> QED
  BY <1>1, <1>2, <1>3

LEMMA StepEntryInv == IInv /\ [Next]_vars => EntryInv'
<1> SUFFICES ASSUME IInv, [Next]_vars PROVE EntryInv'
  OBVIOUS
<1> USE DEF planVars, resultVars
<1>0. TypeOK /\ EntryInv /\ GateInv /\ CurInv
  BY DEF IInv
<1>1. CASE /\ UNCHANGED <<entries, completed, replans_used>>
           /\ \/ PassEntries = {}
              \/ plan' = plan /\ pc' \notin {"decompose", "layer", "replan"}
           /\ pc' = "replan" => pc = "replan"
  BY <1>0, <1>1 DEF EntryInv, PassEntries
<1>2. CASE Decompose \/ PlaceReady \/ Layered \/ InvalidPlan \/ Replan
  <2>1. PassEntries = {}
    BY <1>0, <1>2 DEF EntryInv, Decompose, PlaceReady, Layered, InvalidPlan, Replan
  <2>2. UNCHANGED <<entries, completed, replans_used>> /\ pc' # "replan"
    BY <1>2 DEF Decompose, PlaceReady, Layered, InvalidPlan, Replan
  <2> QED
    BY <1>1, <2>1, <2>2
<1>3. CASE OverBudget \/ AllVisited \/ (\E i \in Remaining : Dispatch(i))
  BY <1>1, <1>3 DEF OverBudget, AllVisited, Dispatch
<1>4. ASSUME NEW i \in Remaining, Skip(i)
      PROVE  EntryInv'
  <2> DEFINE e == Entry(i, "skipped", NoAttempt, "none")
  <2>1. Records(i, e) /\ pc' = "next" /\ completed' = completed /\ e.status = "skipped"
    BY <1>4 DEF Skip, Records, Entry
  <2> HIDE DEF e
  <2> QED
    BY <1>0, <2>1, RecordEntryInv
<1>5. CASE AttemptStep
  <2>1. CASE GoesOn
    BY <1>1, <1>5, <2>1 DEF GoesOn, AttemptStep, SubtaskSteps
  <2>2. CASE ~GoesOn
    <3>1. PICK e \in EntryRec : Records(cur, e) /\ (e.status = "completed" => e.id \in completed')
      BY <1>5, <2>2, AttemptRecords
    <3>2. pc' \in {"next", "passEnd"} /\ completed \subseteq completed'
      BY <1>5, <2>2, AttemptRecords
    <3>3. cur \in Remaining
      BY <1>0, <1>5 DEF CurInv, AttemptStep
    <3> QED
      BY <1>0, <3>1, <3>2, <3>3, RecordEntryInv
  <2> QED
    BY <2>1, <2>2
<1>6. CASE PassEnd
  <2>1. CASE pc' = "done" /\ UNCHANGED replans_used
    BY <1>1, <1>6, <2>1 DEF PassEnd
  <2>2. CASE pc' = "replan" /\ replans_used' = replans_used + 1
    <3>1. replans_used \in Nat
      BY <1>0, MaxReplansAssumption DEF TypeOK
    <3>2. \A e \in entries : e.pass <= replans_used /\ e.pass \in Nat
      BY <1>0 DEF EntryInv, TypeOK, EntryRec
    <3>3. PassEntries' = {} /\ replans_used' > 0 /\ \A e \in entries : e.pass <= replans_used'
      BY <1>6, <2>2, <3>1, <3>2 DEF PassEnd, PassEntries
    <3> QED
      BY <1>0, <1>6, <2>2, <3>3 DEF EntryInv, PassEnd
  <2> QED
    BY <1>6, <2>1, <2>2 DEF PassEnd
<1>7. CASE BudgetElapses \/ UNCHANGED vars
  BY <1>0, <1>7 DEF BudgetElapses, vars, EntryInv, PassEntries
<1> QED
  BY <1>0, <1>2, <1>3, <1>4, <1>5, <1>6, <1>7, AttemptShape DEF Next, Run
-----------------------------------------------------------------------------
LEMMA FirstFailureFacts ==
  ASSUME NEW why \in Whys \ {"none"}, NEW i
  PROVE  /\ FirstFailure(why, i) # NoFailure
         /\ failed # NoFailure => FirstFailure(why, i) = failed
         /\ FirstFailure(why, i).why = why \/ FirstFailure(why, i) = failed
BY DEF FirstFailure, NoFailure

(* An attempt that ends leaves a failure, a halt, or a completed entry.    *)
LEMMA AttemptResult ==
  ASSUME TypeOK, EntryInv, AttemptStep, ~GoesOn
  PROVE  \/ /\ pc' = "next" /\ Sound' /\ UNCHANGED <<failed, halted>>
            /\ \E e : /\ PassEntries' = PassEntries \cup {e}
                      /\ e.status = "completed"
         \/ /\ ~Unhurt' /\ pc' \in {"next", "passEnd"}
            /\ halted' => halted \/ pc' = "passEnd"
            /\ \E e \in PassEntries' : e.status # "completed"
<1> USE DEF AttemptStep, NewEntry, planVars
<1>0. ASSUME NEW e, NEW status, NewEntry(e, status)
      PROVE  PassEntries' = PassEntries \cup {e}
  BY <1>0 DEF PassEntries
<1>1. CASE Completes
  <2>1. PICK e : NewEntry(e, "completed")
    BY <1>1 DEF Completes
  <2>2. PassEntries' = PassEntries \cup {e} /\ e.status = "completed"
    BY <1>0, <2>1
  <2> QED
    BY <1>1, <2>2 DEF Completes, Sound
<1>2. CASE Fails
  <2>1. PICK e : NewEntry(e, "failed")
    BY <1>2 DEF Fails
  <2>2. e \in PassEntries' /\ e.status # "completed"
    BY <1>0, <2>1
  <2>3. failed' # NoFailure
    BY <1>2, FirstFailureFacts DEF Fails
  <2> QED
    BY <1>2, <2>2, <2>3 DEF Fails, Unhurt, NoFailure
<1>3. CASE Halts
  <2>1. PICK e : NewEntry(e, "halted")
    BY <1>3 DEF Halts
  <2>2. e \in PassEntries' /\ e.status # "completed"
    BY <1>0, <2>1
  <2>3. ~Unhurt' /\ pc' = "passEnd"
    BY <1>3 DEF Halts, Unhurt
  <2> QED
    BY <2>2, <2>3
<1> QED
  BY <1>1, <1>2, <1>3

LEMMA StepUnhurtInv == IInv /\ [Next]_vars => UnhurtInv'
<1> SUFFICES ASSUME IInv, [Next]_vars PROVE UnhurtInv'
  OBVIOUS
<1> USE DEF planVars, resultVars
<1>0. TypeOK /\ EntryInv /\ GateInv /\ UnhurtInv /\ HurtInv
  BY DEF IInv
<1>1. CASE ~Unhurt' /\ pc' \notin {"decompose", "layer", "replan"}
  BY <1>1 DEF UnhurtInv
<1>2. CASE Unhurt' /\ PassEntries' = {} /\ pc' \notin {"passEnd", "done"}
  BY <1>2 DEF UnhurtInv
<1>3. CASE UNCHANGED <<failed, halted, PassEntries>> /\ pc' \in SubtaskSteps \cup {"aborted"}
  BY <1>0, <1>3 DEF UnhurtInv, Unhurt, SubtaskSteps, NoFailure
<1>4. CASE /\ UNCHANGED <<failed, halted, PassEntries, Remaining, plan, verify>>
           /\ \/ pc' = pc
              \/ /\ pc \in {"next", "passEnd"} /\ pc' \in {"passEnd", "done"}
                 /\ Remaining = {} /\ plan # <<>>
  BY <1>0, <1>4 DEF UnhurtInv, Unhurt, NoFailure, Sound
<1>5. CASE Decompose \/ PlaceReady \/ Layered
  <2>1. PassEntries = {} /\ Unhurt
    BY <1>0, <1>5 DEF EntryInv, UnhurtInv, Decompose, PlaceReady, Layered
  <2>2. PassEntries' = {} /\ Unhurt' /\ pc' \notin {"passEnd", "done"}
    BY <1>5, <2>1 DEF Decompose, PlaceReady, Layered, PassEntries, Unhurt, NoFailure
  <2> QED
    BY <1>2, <2>2
<1>6. CASE InvalidPlan \/ OverBudget
  BY <1>1, <1>6 DEF InvalidPlan, OverBudget, Unhurt, NoFailure
<1>7. ASSUME NEW i \in Remaining, Skip(i)
      PROVE  UnhurtInv'
  <2>1. "skipped" \in Whys \ {"none"}
    BY DEF Whys
  <2>2. failed' # NoFailure /\ pc' = "next"
    BY <1>7, <2>1, FirstFailureFacts DEF Skip
  <2> QED
    BY <1>1, <2>2 DEF Unhurt, NoFailure
<1>8. ASSUME NEW i \in Remaining, Dispatch(i)
      PROVE  UnhurtInv'
  BY <1>3, <1>8 DEF Dispatch, PassEntries, SubtaskSteps
<1>9. CASE AllVisited
  <2>1. Remaining = {} /\ plan # <<>>
    BY <1>0, <1>9 DEF AllVisited, HurtInv
  <2>2. UNCHANGED <<failed, halted, PassEntries, Remaining, plan, verify>>
    BY <1>9 DEF AllVisited, PassEntries, Remaining, Visited, treeVars
  <2>3. pc = "next" /\ pc' = "passEnd"
    BY <1>9 DEF AllVisited
  <2> QED
    BY <1>4, <2>1, <2>2, <2>3
<1>10. CASE AttemptStep
  <2>1. CASE GoesOn
    BY <1>3, <1>10, <2>1 DEF GoesOn, AttemptStep, PassEntries
  <2>2. CASE ~GoesOn /\ Unhurt'
    <3>1. PICK e : PassEntries' = PassEntries \cup {e} /\ e.status = "completed"
      BY <1>0, <1>10, <2>2, AttemptResult
    <3>2. pc' = "next" /\ Sound' /\ Unhurt
      BY <1>0, <1>10, <2>2, AttemptResult DEF Unhurt, NoFailure
    <3> QED
      BY <1>0, <3>1, <3>2 DEF UnhurtInv
  <2>3. CASE ~GoesOn /\ ~Unhurt'
    <3>1. pc' \in {"next", "passEnd"}
      BY <1>10, <2>3, AttemptRecords
    <3> QED
      BY <1>1, <2>3, <3>1
  <2> QED
    BY <2>1, <2>2, <2>3
<1>11. CASE PassEnd
  <2>1. CASE pc' = "done" /\ UNCHANGED <<failed, replans_used>>
    <3>1. UNCHANGED <<failed, halted, PassEntries, Remaining, plan, verify>>
      BY <1>11, <2>1 DEF PassEnd, PassEntries, Remaining, Visited, treeVars
    <3>2. CASE Unhurt
      BY <1>0, <1>4, <1>11, <2>1, <3>1, <3>2 DEF UnhurtInv, PassEnd
    <3>3. CASE ~Unhurt
      BY <1>1, <2>1, <3>1, <3>3 DEF Unhurt, NoFailure
    <3> QED
      BY <3>2, <3>3
  <2>2. CASE pc' = "replan" /\ failed' = NoFailure
    <3>1. PassEntries' = {}
      BY <2>2, StepEntryInv DEF EntryInv
    <3>2. ~halted /\ halted' = halted
      BY <1>11, <2>2 DEF PassEnd
    <3> QED
      BY <1>2, <2>2, <3>1, <3>2 DEF Unhurt, NoFailure
  <2> QED
    BY <1>11, <2>1, <2>2 DEF PassEnd
<1>12. CASE Replan
  <2>1. PassEntries = {} /\ Unhurt
    BY <1>0, <1>12 DEF EntryInv, UnhurtInv, Replan
  <2>2. CASE pc' = "layer" /\ UNCHANGED failed
    <3>1. PassEntries' = {} /\ Unhurt'
      BY <1>12, <2>1, <2>2 DEF Replan, PassEntries, Unhurt, NoFailure
    <3> QED
      BY <1>2, <2>2, <3>1
  <2>3. CASE pc' = "done" /\ failed' = [why |-> "replan", idx |-> 0]
    BY <1>1, <2>3 DEF Unhurt, NoFailure
  <2> QED
    BY <1>12, <2>2, <2>3 DEF Replan
<1>13. CASE BudgetElapses \/ UNCHANGED vars
  <2>1. UNCHANGED <<pc, failed, halted, PassEntries, Remaining, plan, verify>>
    BY <1>13 DEF BudgetElapses, vars, PassEntries, Remaining, Visited, treeVars
  <2> QED
    BY <1>4, <2>1
<1> QED
  BY <1>0, <1>5, <1>6, <1>7, <1>8, <1>9, <1>10, <1>11, <1>12, <1>13, AttemptShape
     DEF Next, Run

(* A pass that has no entry yet has everything left to do. *)
LEMMA NothingDone ==
  ASSUME TypeOK, plan # <<>>, PassEntries = {}
  PROVE  Remaining # {}
<1>1. plan \in Seq(SubtaskRec)
  BY PlansAssumption DEF TypeOK
<1>2. 1 \in DOMAIN plan
  BY <1>1
<1> QED
  BY <1>2 DEF Remaining, Visited

LEMMA StepHurtInv == IInv /\ [Next]_vars => HurtInv'
<1> SUFFICES ASSUME IInv, [Next]_vars PROVE HurtInv'
  OBVIOUS
<1> USE DEF planVars, resultVars
<1>0. TypeOK /\ EntryInv /\ GateInv /\ UnhurtInv /\ HurtInv
  BY DEF IInv
<1>1. CASE /\ UNCHANGED <<failed, halted, PassEntries, Remaining, plan>>
           /\ \/ pc' = pc
              \/ pc' = "aborted" /\ ~halted
              \/ pc \in SubtaskSteps \cup {"next"} /\ pc' \in SubtaskSteps \cup {"passEnd"}
              \/ pc = "passEnd" /\ pc' = "done"
  BY <1>0, <1>1 DEF HurtInv, Unhurt, NoFailure, SubtaskSteps
<1>2. CASE Decompose \/ PlaceReady \/ Layered
  <2>1. Unhurt /\ Unhurt'
    BY <1>0, <1>2 DEF UnhurtInv, Decompose, PlaceReady, Layered, Unhurt, NoFailure
  <2>2. pc' \in {"decompose", "aborted"} \/ plan' # <<>>
    BY <1>0, <1>2, PlansAssumption DEF HurtInv, Decompose, PlaceReady, Layered
  <2> QED
    BY <2>1, <2>2 DEF HurtInv, Unhurt
<1>3. CASE InvalidPlan
  <2>1. PassEntries = {} /\ plan # <<>> /\ ~halted
    BY <1>0, <1>3 DEF EntryInv, HurtInv, InvalidPlan
  <2>2. Remaining # {} /\ Remaining' = Remaining /\ plan' = plan
    BY <1>0, <1>3, <2>1, NothingDone DEF InvalidPlan, Remaining, Visited, PassEntries
  <2> QED
    BY <1>3, <2>1, <2>2 DEF InvalidPlan, HurtInv
<1>4. CASE OverBudget
  <2>1. Remaining' = Remaining /\ Remaining # {} /\ plan' = plan /\ plan # <<>>
    BY <1>0, <1>4 DEF OverBudget, Remaining, Visited, PassEntries, HurtInv
  <2> QED
    BY <1>4, <2>1 DEF OverBudget, HurtInv
<1>5. ASSUME NEW i \in Remaining, Skip(i)
      PROVE  HurtInv'
  <2> DEFINE e == Entry(i, "skipped", NoAttempt, "none")
  <2>1. Records(i, e) /\ e.status # "completed"
    BY <1>5 DEF Skip, Records, Entry
  <2>2. e \in PassEntries'
    BY <1>0, <2>1, RecordFacts
  <2> HIDE DEF e
  <2>3. pc' = "next" /\ pc = "next" /\ plan' = plan /\ halted' = halted
    BY <1>5 DEF Skip
  <2> QED
    BY <1>0, <2>1, <2>2, <2>3 DEF HurtInv
<1>6. ASSUME NEW i \in Remaining, Dispatch(i)
      PROVE  HurtInv'
  <2>1. UNCHANGED <<failed, halted, PassEntries, Remaining, plan>>
    BY <1>6 DEF Dispatch, PassEntries, Remaining, Visited
  <2> QED
    BY <1>1, <1>6, <2>1 DEF Dispatch, SubtaskSteps
<1>7. CASE AllVisited
  <2>1. UNCHANGED <<failed, halted, PassEntries, Remaining, plan>>
    BY <1>7 DEF AllVisited, PassEntries, Remaining, Visited
  <2> QED
    BY <1>1, <1>7, <2>1 DEF AllVisited
<1>8. CASE AttemptStep
  <2>0. plan' = plan /\ plan # <<>> /\ ~halted
    BY <1>0, <1>8 DEF AttemptStep, HurtInv, InSubtask, SubtaskSteps
  <2>1. CASE GoesOn
    <3>1. UNCHANGED <<failed, halted, PassEntries, Remaining, plan>>
      BY <1>8, <2>1 DEF GoesOn, AttemptStep, PassEntries, Remaining, Visited
    <3> QED
      BY <1>1, <1>8, <2>0, <2>1, <3>1 DEF GoesOn, AttemptStep, InSubtask
  <2>2. CASE ~GoesOn /\ Unhurt'
    BY <2>0, <2>2 DEF HurtInv, Unhurt
  <2>3. CASE ~GoesOn /\ ~Unhurt'
    <3>1. CASE /\ \E e \in PassEntries' : e.status # "completed"
               /\ halted' => halted \/ pc' = "passEnd"
      BY <2>0, <3>1 DEF HurtInv
    <3>2. CASE /\ UNCHANGED <<failed, halted>>
               /\ \E e : PassEntries' = PassEntries \cup {e}
      <4>1. ~Unhurt /\ pc \in SubtaskSteps
        BY <1>8, <2>3, <3>2 DEF Unhurt, NoFailure, AttemptStep, InSubtask
      <4>2. \E e \in PassEntries : e.status # "completed"
        BY <1>0, <4>1 DEF HurtInv, SubtaskSteps
      <4> QED
        BY <2>0, <3>2, <4>2 DEF HurtInv
    <3> QED
      BY <1>0, <1>8, <2>3, <3>1, <3>2, AttemptResult
  <2> QED
    BY <2>1, <2>2, <2>3
<1>9. CASE PassEnd
  <2>1. CASE pc' = "done" /\ UNCHANGED <<failed, replans_used>>
    <3>1. UNCHANGED <<failed, halted, PassEntries, Remaining, plan>>
      BY <1>9, <2>1 DEF PassEnd, PassEntries, Remaining, Visited
    <3> QED
      BY <1>1, <1>9, <2>1, <3>1 DEF PassEnd
  <2>2. CASE pc' = "replan" /\ failed' = NoFailure
    <3>1. ~halted' /\ plan' = plan /\ plan # <<>>
      BY <1>0, <1>9, <2>2 DEF PassEnd, HurtInv
    <3>2. Unhurt'
      BY <2>2, <3>1 DEF Unhurt, NoFailure
    <3> QED
      BY <3>1, <3>2 DEF HurtInv
  <2> QED
    BY <1>9, <2>1, <2>2 DEF PassEnd
<1>10. CASE Replan
  <2>1. PassEntries = {} /\ plan # <<>> /\ Unhurt
    BY <1>0, <1>10 DEF EntryInv, HurtInv, UnhurtInv, Replan
  <2>2. CASE pc' = "layer" /\ UNCHANGED failed /\ plan' \in Plans
    <3>1. Unhurt' /\ plan' # <<>>
      BY <1>10, <2>1, <2>2, PlansAssumption DEF Replan, Unhurt, NoFailure
    <3> QED
      BY <3>1 DEF HurtInv, Unhurt
  <2>3. CASE pc' = "done" /\ UNCHANGED planVars
    <3>1. Remaining' = Remaining /\ Remaining # {}
      BY <1>0, <1>10, <2>1, <2>3, NothingDone DEF Replan, Remaining, Visited, PassEntries
    <3>2. plan' = plan /\ ~halted'
      BY <1>10, <2>1, <2>3 DEF Replan, Unhurt
    <3> QED
      BY <2>1, <2>3, <3>1, <3>2 DEF HurtInv
  <2> QED
    BY <1>10, <2>2, <2>3 DEF Replan
<1>11. CASE BudgetElapses \/ UNCHANGED vars
  <2>1. UNCHANGED <<pc, failed, halted, PassEntries, Remaining, plan>>
    BY <1>11 DEF BudgetElapses, vars, PassEntries, Remaining, Visited
  <2> QED
    BY <1>1, <2>1
<1> QED
  BY <1>0, <1>2, <1>3, <1>4, <1>5, <1>6, <1>7, <1>8, <1>9, <1>10, <1>11, AttemptShape
     DEF Next, Run

LEMMA StepGrounded == IInv /\ [Next]_vars => CompletedIsGrounded'
<1> SUFFICES ASSUME IInv, [Next]_vars PROVE CompletedIsGrounded'
  OBVIOUS
<1> USE DEF planVars, resultVars
<1>0. TypeOK /\ GateInv /\ CompletedIsGrounded
  BY DEF IInv
<1>1. CASE \/ UNCHANGED entries
           \/ \E e : entries' = entries \cup {e} /\ (e.status = "completed" => Grounds(e))
  BY <1>0, <1>1 DEF CompletedIsGrounded, Grounds, Blocks
<1>2. ASSUME NEW i \in Remaining, Skip(i)
      PROVE  CompletedIsGrounded'
  <2> DEFINE e == Entry(i, "skipped", NoAttempt, "none")
  <2>1. entries' = entries \cup {e} /\ e.status # "completed"
    BY <1>2 DEF Skip, Entry
  <2> QED
    BY <1>1, <2>1
<1>3. CASE AttemptStep
  BY <1>1, <1>3 DEF AttemptStep, GoesOn, Completes, Fails, Halts, NewEntry
<1>4. CASE \/ Decompose \/ PlaceReady \/ Layered \/ InvalidPlan \/ OverBudget \/ AllVisited
           \/ (\E i \in Remaining : Dispatch(i)) \/ PassEnd \/ Replan
           \/ BudgetElapses \/ UNCHANGED vars
  <2>1. UNCHANGED entries
    BY <1>4 DEF Decompose, PlaceReady, Layered, InvalidPlan, OverBudget, AllVisited,
       Dispatch, PassEnd, Replan, BudgetElapses, vars
  <2> QED
    BY <1>1, <2>1
<1> QED
  BY <1>0, <1>2, <1>3, <1>4, AttemptShape DEF Next, Run

(* A prerequisite that is not completed was visited before, in the same    *)
(* pass, and did not complete: its failure is already kept.                *)
LEMMA SkipNeedsFailure ==
  ASSUME IInv, NEW i \in Remaining, Skip(i)
  PROVE  failed # NoFailure
<1> SUFFICES ASSUME failed = NoFailure PROVE FALSE
  OBVIOUS
<1>0. TypeOK /\ LayerInv /\ EntryInv /\ UnhurtInv /\ HurtInv
  BY DEF IInv
<1>1. pc = "next" /\ NextUp(i) /\ i \in DOMAIN plan
  BY DEF Skip, Remaining
<1>2. Unhurt
  BY <1>0, <1>1 DEF HurtInv, Unhurt
<1>3. PICK d \in plan[i].deps : d \notin completed
  BY DEF Skip, Unmet
<1>4. PICK j \in DOMAIN plan : plan[j].id = d /\ rank[j] < rank[i]
  <2>1. rank[i] # Unplaced
    BY <1>0, <1>1 DEF LayerInv, AllPlaced, TypeOK
  <2> QED
    BY <1>0, <1>1, <1>3, <2>1 DEF LayerInv
<1>5. rank[i] \in Nat /\ rank[j] \in Nat /\ ~Before(i, j) /\ j # i
  BY <1>0, <1>1, <1>4 DEF TypeOK, Before
<1>6. j \notin Remaining
  BY <1>1, <1>5 DEF NextUp
<1>7. PICK e \in PassEntries : e.idx = j
  BY <1>6 DEF Remaining, Visited
<1>8. e.id = d /\ e.status = "completed" /\ e \in entries
  BY <1>0, <1>2, <1>4, <1>7 DEF EntryInv, UnhurtInv, PassEntries
<1> QED
  BY <1>0, <1>3, <1>8 DEF EntryInv

LEMMA StepSkipFindsFailure == IInv /\ [Next]_vars => SkipFindsFailure'
<1> SUFFICES ASSUME IInv, [Next]_vars PROVE SkipFindsFailure'
  OBVIOUS
<1> USE DEF planVars, resultVars, SkipFindsFailure
<1>0. TypeOK /\ GateInv /\ SkipFindsFailure
  BY DEF IInv
<1>1. ASSUME NEW i \in Remaining, Skip(i)
      PROVE  SkipFindsFailure'
  <2>1. failed' = failed
    BY <1>1, SkipNeedsFailure DEF Skip, FirstFailure
  <2> QED
    BY <1>0, <2>1
<1>2. CASE AttemptStep
  <2>1. CASE Fails
    <3>1. PICK why \in Whys \ {"none", "skipped"} : failed' = FirstFailure(why, cur)
      BY <2>1 DEF Fails
    <3> QED
      BY <1>0, <3>1 DEF FirstFailure
  <2>2. CASE GoesOn \/ Completes \/ Halts
    BY <1>0, <2>2 DEF GoesOn, Completes, Halts
  <2> QED
    BY <1>2, <2>1, <2>2 DEF AttemptStep
<1>3. CASE InvalidPlan \/ OverBudget \/ PassEnd \/ Replan
  BY <1>0, <1>3 DEF InvalidPlan, OverBudget, PassEnd, Replan, NoFailure
<1>4. CASE \/ Decompose \/ PlaceReady \/ Layered \/ AllVisited
           \/ (\E i \in Remaining : Dispatch(i)) \/ BudgetElapses \/ UNCHANGED vars
  BY <1>0, <1>4 DEF Decompose, PlaceReady, Layered, AllVisited, Dispatch, BudgetElapses, vars
<1> QED
  BY <1>0, <1>1, <1>2, <1>3, <1>4, AttemptShape DEF Next, Run
-----------------------------------------------------------------------------
LEMMA InitIInv == Init => IInv
<1> SUFFICES ASSUME Init PROVE IInv
  OBVIOUS
<1>1. entries = {} /\ PassEntries = {}
  BY DEF Init, PassEntries
<1>2. LayerInv /\ CurInv /\ GateInv
  BY DEF Init, LayerInv, CurInv, GateInv, NoRank, Unplaced, InSubtask, SubtaskSteps
<1>3. EntryInv
  BY <1>1 DEF Init, EntryInv
<1>4. UnhurtInv /\ HurtInv
  BY <1>1 DEF Init, UnhurtInv, HurtInv, Unhurt
<1>5. CompletedIsGrounded /\ SkipFindsFailure
  BY <1>1 DEF Init, CompletedIsGrounded, SkipFindsFailure, NoFailure
<1> QED
  BY InitTypeOK, <1>2, <1>3, <1>4, <1>5 DEF IInv

LEMMA StepIInv == IInv /\ [Next]_vars => IInv'
<1> SUFFICES ASSUME IInv, [Next]_vars PROVE IInv'
  OBVIOUS
<1>1. TypeOK /\ GateInv /\ Checked
  BY DEF IInv, GateInv, Checked
<1>2. TypeOK' /\ GateInv'
  BY <1>1, StepTypeOK, StepGateInv
<1> QED
  BY <1>2, StepLayerInv, StepCurInv, StepEntryInv, StepUnhurtInv, StepHurtInv,
     StepGrounded, StepSkipFindsFailure DEF IInv

LEMMA Inductive == Spec => []IInv
BY InitIInv, StepIInv, PTL DEF Spec

(* Type correctness of the loop, for every plan and configuration. *)
THEOREM ConductTypeCorrect == Spec => []TypeOK
<1>1. IInv => TypeOK
  BY DEF IInv
<1> QED
  BY Inductive, <1>1, PTL

(* A subtask reported as completed was accepted on a build that did not    *)
(* fail, and past a blocking review only by the arbiter: no path of        *)
(* retries, halts, skips or replans gets around a gate that is configured. *)
THEOREM ConductGrounds == Spec => []CompletedIsGrounded
<1>1. IInv => CompletedIsGrounded
  BY DEF IInv
<1> QED
  BY Inductive, <1>1, PTL

(* "the upstream failure that caused this skip already set `failed`": the  *)
(* fallback at the skip is dead code, for every plan the layering accepts. *)
THEOREM ConductSkipFindsFailure == Spec => []SkipFindsFailure
<1>1. IInv => SkipFindsFailure
  BY DEF IInv
<1> QED
  BY Inductive, <1>1, PTL

(* A run that reports success leaves a tree the verifier saw and did not   *)
(* fail.                                                                   *)
THEOREM ConductSuccessIsVerified == Spec => []SuccessIsVerified
<1>1. IInv => SuccessIsVerified
  <2> SUFFICES ASSUME IInv, Success PROVE Sound
    BY DEF SuccessIsVerified, Sound
  <2>1. Unhurt /\ pc = "done" /\ UnhurtInv /\ TypeOK
    BY DEF Success, Unhurt, IInv
  <2>2. Remaining = {} /\ plan # <<>>
    BY <2>1 DEF UnhurtInv
  <2>3. PassEntries # {}
    BY <2>1, <2>2, NothingDone
  <2> QED
    BY <2>1, <2>3 DEF UnhurtInv
<1> QED
  BY Inductive, <1>1, PTL

(* The outcome and the entries of the last pass tell the same story.       *)
THEOREM ConductOutcomeMatches == Spec => []OutcomeMatchesEntries
<1>1. IInv => OutcomeMatchesEntries
  <2> SUFFICES ASSUME IInv, pc = "done"
               PROVE  Success <=> \A i \in DOMAIN plan : EntryOf(i, "completed")
    BY DEF OutcomeMatchesEntries
  <2>0. EntryInv /\ UnhurtInv /\ HurtInv
    BY DEF IInv
  <2>1. Success <=> Unhurt
    BY DEF Success, Unhurt
  <2>2. ASSUME Unhurt, NEW i \in DOMAIN plan
        PROVE  EntryOf(i, "completed")
    <3>1. Visited(i)
      BY <2>0, <2>2 DEF UnhurtInv, Remaining
    <3> QED
      BY <2>0, <2>2, <3>1 DEF UnhurtInv, Visited, EntryOf
  <2>3. ASSUME ~Unhurt
        PROVE  \E i \in DOMAIN plan : ~EntryOf(i, "completed")
    <3>1. CASE Remaining # {}
      BY <3>1 DEF Remaining, Visited, EntryOf
    <3>2. ASSUME NEW e \in PassEntries, e.status # "completed"
          PROVE  \E i \in DOMAIN plan : ~EntryOf(i, "completed")
      <4>1. e.idx \in DOMAIN plan
        BY <2>0 DEF EntryInv
      <4>2. \A f \in PassEntries : f.idx = e.idx => f = e
        BY <2>0 DEF EntryInv, PassEntries
      <4> QED
        BY <3>2, <4>1, <4>2 DEF EntryOf
    <3> QED
      BY <2>0, <2>3, <3>1, <3>2 DEF HurtInv
  <2> QED
    BY <2>1, <2>2, <2>3
<1> QED
  BY Inductive, <1>1, PTL
=============================================================================
