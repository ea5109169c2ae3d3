-------------------------- MODULE ConductPassProofs --------------------------
(***************************************************************************)
(* What a pass over a plan leaves behind: its order, its entries, the      *)
(* cause of its skips, the root cause it reports and its use of the        *)
(* budget, on top of the invariant of ConductProofs; and that the loop     *)
(* implements its contract.                                                *)
(***************************************************************************)
EXTENDS ConductProofs

Waves == {"next", "passEnd"} \cup SubtaskSteps

(* Subtasks are visited in wave order. *)
OrderInv ==
  pc \in Waves =>
    \A i \in DOMAIN plan \ Remaining, j \in Remaining : Before(i, j)

(* A halted entry halts the run; completed ids come from entries. *)
BookInv ==
  /\ \A e \in entries : e.status = "halted" => halted
  /\ \A d \in completed : \E e \in entries : e.status = "completed" /\ e.id = d

(* The subtask in work was dispatched with its prerequisites met; under    *)
(* fresh ids they were completed by this pass or are not in the plan.      *)
FreshInv ==
  /\ InSubtask => plan[cur].deps \subseteq completed
  /\ pc \in Waves => ~HasDuplicateId(plan)
  /\ pc = "decompose" => entries = {}
  /\ FreshIds /\ pc \in Waves \cup {"layer"} =>
       \A e \in entries : e.status = "completed" /\ e.pass # replans_used =>
         e.id \notin IdsOf(plan)

(* Whoever starts late was dispatched in time. *)
BudgetInv ==
  /\ ~elapsed => lateCalls = 0
  /\ pc = "work" => lateCalls <= attempt
  /\ pc \in SubtaskSteps \ {"work"} => lateCalls <= attempt + 1
  /\ lateCalls <= MAX_REWORKS + 1
  /\ ~HasBudget => ~elapsed
-----------------------------------------------------------------------------
LEMMA StepOrderInv == IInv /\ OrderInv /\ [Next]_vars => OrderInv'
<1> SUFFICES ASSUME IInv, OrderInv, [Next]_vars PROVE OrderInv'
  OBVIOUS
<1> USE DEF planVars, resultVars
<1>0. TypeOK /\ EntryInv /\ CurInv /\ GateInv
  BY DEF IInv
<1>1. ASSUME UNCHANGED <<plan, rank, entries, replans_used>>,
             pc \in Waves \/ pc' \notin Waves
      PROVE  OrderInv'
  BY <1>1 DEF OrderInv, Remaining, Visited, PassEntries, Before
<1>2. ASSUME NEW i \in Remaining, NEW e, Records(i, e), pc \in Waves,
             \A j \in Remaining \ {i} : Before(i, j)
      PROVE  OrderInv'
  <2>1. Remaining' = Remaining \ {i} /\ plan' = plan /\ rank' = rank
    BY <1>0, <1>2, RecordFacts DEF Records
  <2> QED
    BY <1>2, <2>1 DEF OrderInv, Before
<1>3. CASE Layered
  <2>1. Remaining' = DOMAIN plan'
    BY <1>0, <1>3 DEF Layered, EntryInv, Remaining, Visited, PassEntries
  <2> QED
    BY <2>1 DEF OrderInv
<1>4. ASSUME NEW i \in Remaining, Skip(i)
      PROVE  OrderInv'
  <2> DEFINE e == Entry(i, "skipped", NoAttempt, "none")
  <2>1. Records(i, e) /\ pc = "next"
    BY <1>4 DEF Skip, Records, Entry
  <2> HIDE DEF e
  <2> QED
    BY <1>2, <1>4, <2>1 DEF Skip, NextUp, Waves
<1>5. CASE AttemptStep
  <2>1. CASE GoesOn
    BY <1>1, <1>5, <2>1 DEF GoesOn, AttemptStep, Waves, InSubtask
  <2>2. CASE ~GoesOn
    <3>1. PICK e \in EntryRec : Records(cur, e)
      BY <1>5, <2>2, AttemptRecords
    <3> QED
      BY <1>0, <1>2, <1>5, <3>1 DEF CurInv, AttemptStep, Waves, InSubtask
  <2> QED
    BY <2>1, <2>2
<1>6. CASE OverBudget \/ AllVisited \/ (\E i \in Remaining : Dispatch(i))
  BY <1>1, <1>6 DEF OverBudget, AllVisited, Dispatch, Waves
<1>7. CASE Decompose \/ PlaceReady \/ InvalidPlan \/ PassEnd \/ Replan
  <2>1. pc' \notin Waves
    BY <1>7 DEF Decompose, PlaceReady, InvalidPlan, PassEnd, Replan, Waves, SubtaskSteps
  <2> QED
    BY <2>1 DEF OrderInv
<1>8. CASE BudgetElapses \/ UNCHANGED vars
  BY <1>1, <1>8 DEF BudgetElapses, vars
<1> QED
  BY <1>0, <1>3, <1>4, <1>5, <1>6, <1>7, <1>8, AttemptShape DEF Next, Run

LEMMA StepBookInv == IInv /\ BookInv /\ [Next]_vars => BookInv'
<1> SUFFICES ASSUME IInv, BookInv, [Next]_vars PROVE BookInv'
  OBVIOUS
<1> USE DEF planVars, resultVars
<1>0. TypeOK /\ GateInv
  BY DEF IInv
<1>1. ASSUME NEW i \in Remaining, Skip(i)
      PROVE  BookInv'
  <2>1. Entry(i, "skipped", NoAttempt, "none").status = "skipped"
    BY DEF Entry
  <2> QED
    BY <1>1, <2>1 DEF Skip, BookInv
<1>2. CASE AttemptStep
  <2>1. CASE GoesOn
    BY <2>1 DEF GoesOn, BookInv
  <2>2. CASE Completes
    BY <2>2 DEF Completes, NewEntry, BookInv
  <2>3. CASE Fails
    BY <2>3 DEF Fails, NewEntry, BookInv
  <2>4. CASE Halts
    BY <2>4 DEF Halts, NewEntry, BookInv
  <2> QED
    BY <1>2, <2>1, <2>2, <2>3, <2>4 DEF AttemptStep
<1>3. CASE \/ Decompose \/ PlaceReady \/ Layered \/ InvalidPlan \/ OverBudget \/ AllVisited
           \/ (\E i \in Remaining : Dispatch(i)) \/ PassEnd \/ Replan
           \/ BudgetElapses \/ UNCHANGED vars
  <2>1. UNCHANGED <<entries, completed, halted>>
    BY <1>3 DEF Decompose, PlaceReady, Layered, InvalidPlan, OverBudget, AllVisited, Dispatch,
       PassEnd, Replan, BudgetElapses, vars
  <2> QED
    BY <2>1 DEF BookInv
<1> QED
  BY <1>0, <1>1, <1>2, <1>3, AttemptShape DEF Next, Run

LEMMA StepNobodyForgotten ==
  NobodyForgotten /\ IInv /\ [Next]_vars => NobodyForgotten'
<1> SUFFICES ASSUME NobodyForgotten, IInv, [Next]_vars PROVE NobodyForgotten'
  OBVIOUS
<1> USE DEF planVars, resultVars, NobodyForgotten
<1>0. TypeOK /\ GateInv
  BY DEF IInv
<1>1. CASE OverBudget
  BY <1>1 DEF OverBudget
<1>2. CASE AllVisited
  BY <1>2 DEF AllVisited, Remaining, Visited, PassEntries
<1>3. CASE AttemptStep
  <2>1. pc' = "passEnd" => halted'
    BY <1>3 DEF AttemptStep, GoesOn, Completes, Fails, Halts, SubtaskSteps
  <2> QED
    BY <2>1
<1>4. CASE \/ Decompose \/ PlaceReady \/ Layered \/ InvalidPlan \/ PassEnd \/ Replan
           \/ (\E i \in Remaining : Skip(i) \/ Dispatch(i))
  BY <1>4 DEF Decompose, PlaceReady, Layered, InvalidPlan, PassEnd, Replan, Skip, Dispatch
<1>5. CASE BudgetElapses \/ UNCHANGED vars
  BY <1>5 DEF BudgetElapses, vars, Remaining, Visited, PassEntries
<1> QED
  BY <1>0, <1>1, <1>2, <1>3, <1>4, <1>5, AttemptShape DEF Next, Run

(* The prerequisite that kept a subtask from running has an entry: it was  *)
(* visited before and did not complete.                                    *)
LEMMA SkipFindsCause ==
  ASSUME IInv, BookInv, NEW i \in Remaining, Skip(i)
  PROVE  \E j \in DOMAIN plan :
           plan[j].id \in plan[i].deps /\ (EntryOf(j, "failed") \/ EntryOf(j, "skipped"))
<1>0. TypeOK /\ LayerInv /\ EntryInv /\ HurtInv
  BY DEF IInv
<1>1. pc = "next" /\ NextUp(i) /\ i \in DOMAIN plan /\ ~halted
  BY <1>0 DEF Skip, Remaining, HurtInv
<1>2. PICK d \in plan[i].deps : d \notin completed
  BY DEF Skip, Unmet
<1>3. PICK j \in DOMAIN plan : plan[j].id = d /\ rank[j] < rank[i]
  <2>1. rank[i] # Unplaced
    BY <1>0, <1>1 DEF LayerInv, AllPlaced, TypeOK
  <2> QED
    BY <1>0, <1>1, <1>2, <2>1 DEF LayerInv
<1>4. rank[i] \in Nat /\ rank[j] \in Nat /\ ~Before(i, j) /\ j # i
  BY <1>0, <1>1, <1>3 DEF TypeOK, Before
<1>5. j \notin Remaining
  BY <1>1, <1>4 DEF NextUp
<1>6. PICK e \in PassEntries : e.idx = j
  BY <1>5 DEF Remaining, Visited
<1>7. e \in entries /\ e.id = d /\ e.status \in Statuses
  BY <1>0, <1>3, <1>6 DEF EntryInv, PassEntries, TypeOK, EntryRec
<1>8. e.status # "completed" /\ e.status # "halted"
  BY <1>0, <1>1, <1>2, <1>7 DEF EntryInv, BookInv
<1> QED
  BY <1>2, <1>3, <1>6, <1>7, <1>8 DEF EntryOf, Statuses

LEMMA StepSkipHasCause ==
  IInv /\ BookInv /\ SkipHasCause /\ [Next]_vars => SkipHasCause'
<1> SUFFICES ASSUME IInv, BookInv, SkipHasCause, [Next]_vars PROVE SkipHasCause'
  OBVIOUS
<1> USE DEF planVars, resultVars
<1>0. TypeOK /\ EntryInv /\ GateInv
  BY DEF IInv
<1>1. ASSUME UNCHANGED <<plan, entries, replans_used>>
      PROVE  SkipHasCause'
  BY <1>1 DEF SkipHasCause, PassEntries, EntryOf
<1>2. ASSUME PassEntries' = {} PROVE SkipHasCause'
  BY <1>2 DEF SkipHasCause
<1>3. ASSUME NEW i, NEW e, Records(i, e),
             e.status = "skipped" =>
               \E j \in DOMAIN plan :
                 plan[j].id \in plan[i].deps /\ (EntryOf(j, "failed") \/ EntryOf(j, "skipped"))
      PROVE  SkipHasCause'
  <2>1. PassEntries' = PassEntries \cup {e} /\ plan' = plan /\ e.idx = i
    BY <1>0, <1>3, RecordFacts DEF Records
  <2>2. \A j, status : EntryOf(j, status) => EntryOf(j, status)'
    BY <2>1 DEF EntryOf
  <2> QED
    BY <1>3, <2>1, <2>2 DEF SkipHasCause
<1>4. ASSUME NEW i \in Remaining, Skip(i)
      PROVE  SkipHasCause'
  <2> DEFINE e == Entry(i, "skipped", NoAttempt, "none")
  <2>1. Records(i, e)
    BY <1>4 DEF Skip, Records, Entry
  <2> HIDE DEF e
  <2> QED
    BY <1>3, <1>4, <2>1, SkipFindsCause
<1>5. CASE AttemptStep
  <2>1. CASE GoesOn
    BY <1>1, <1>5, <2>1 DEF GoesOn, AttemptStep
  <2>2. ASSUME NEW e, NEW status \in {"completed", "failed", "halted"}, NewEntry(e, status)
        PROVE  SkipHasCause'
    BY <1>3, <1>5, <2>2 DEF NewEntry, Records, AttemptStep
  <2> QED
    BY <1>5, <2>1, <2>2 DEF AttemptStep, Completes, Fails, Halts
<1>6. CASE \/ Decompose \/ Replan
  <2>1. PassEntries = {} /\ UNCHANGED <<entries, replans_used>>
    BY <1>0, <1>6 DEF Decompose, Replan, EntryInv
  <2> QED
    BY <1>2, <2>1 DEF PassEntries
<1>7. CASE PassEnd
  <2>1. CASE UNCHANGED replans_used
    BY <1>1, <1>7, <2>1 DEF PassEnd
  <2>2. CASE replans_used' = replans_used + 1
    <3>1. \A e \in entries : e.pass <= replans_used /\ e.pass \in Nat
      BY <1>0 DEF EntryInv, TypeOK, EntryRec
    <3>2. replans_used \in Nat /\ entries' = entries
      BY <1>0, <1>7, MaxReplansAssumption DEF TypeOK, PassEnd
    <3>3. PassEntries' = {}
      BY <2>2, <3>1, <3>2 DEF PassEntries
    <3> QED
      BY <1>2, <3>3
  <2> QED
    BY <1>7, <2>1, <2>2 DEF PassEnd
<1>8. CASE \/ PlaceReady \/ Layered \/ InvalidPlan \/ OverBudget \/ AllVisited
           \/ (\E i \in Remaining : Dispatch(i)) \/ BudgetElapses \/ UNCHANGED vars
  BY <1>1, <1>8 DEF PlaceReady, Layered, InvalidPlan, OverBudget, AllVisited, Dispatch,
     BudgetElapses, vars
<1> QED
  BY <1>0, <1>4, <1>5, <1>6, <1>7, <1>8, AttemptShape DEF Next, Run

(* An entry for a subtask still open comes after the failure that is kept. *)
LEMMA RecordRootCause ==
  ASSUME IInv, OrderInv, RootCauseKept, pc \in Waves,
         NEW i \in Remaining, NEW e, Records(i, e), failed' = failed
  PROVE  RootCauseKept'
<1>0. TypeOK /\ EntryInv
  BY DEF IInv
<1> SUFFICES ASSUME failed.idx # 0
             PROVE  /\ EntryOf(failed.idx, "failed")'
                    /\ \A f \in PassEntries' :
                         Before(f.idx, failed.idx)' => f.status = "completed"
  BY DEF RootCauseKept
<1> DEFINE k == failed.idx
<1>1. PassEntries' = PassEntries \cup {e} /\ rank' = rank /\ e.idx = i /\ failed' = failed
  BY <1>0, RecordFacts DEF Records
<1>2. PICK f \in PassEntries : f.idx = k /\ f.status = "failed"
  BY DEF RootCauseKept, EntryOf
<1>3. k \in DOMAIN plan \ Remaining /\ i \in DOMAIN plan
  BY <1>0, <1>2 DEF EntryInv, Remaining, Visited
<1>4. Before(k, i) /\ k \in Nat /\ i \in Nat /\ rank[k] \in Nat /\ rank[i] \in Nat
  BY <1>0, <1>3, PlanFacts DEF OrderInv, TypeOK
<1>5. ~Before(i, k)
  BY <1>4 DEF Before
<1>6. \A g \in PassEntries : Before(g.idx, k) => g.status = "completed"
  BY DEF RootCauseKept
<1> HIDE DEF k
<1>7. \A g \in PassEntries \cup {e} : Before(g.idx, k) => g.status = "completed"
  BY <1>1, <1>5, <1>6
<1> QED
  BY <1>1, <1>2, <1>7 DEF EntryOf, Before, k

LEMMA StepRootCauseKept ==
  IInv /\ OrderInv /\ RootCauseKept /\ [Next]_vars => RootCauseKept'
<1> SUFFICES ASSUME IInv, OrderInv, RootCauseKept, [Next]_vars PROVE RootCauseKept'
  OBVIOUS
<1> USE DEF planVars, resultVars
<1>0. TypeOK /\ EntryInv /\ GateInv /\ UnhurtInv /\ HurtInv /\ CurInv
  BY DEF IInv
<1>1. ASSUME UNCHANGED <<rank, entries, replans_used, failed>>
      PROVE  RootCauseKept'
  BY <1>1 DEF RootCauseKept, PassEntries, EntryOf, Before
<1>2. ASSUME failed'.idx = 0 PROVE RootCauseKept'
  BY <1>2 DEF RootCauseKept
<1>3. ASSUME NEW i \in Remaining, Skip(i)
      PROVE  RootCauseKept'
  <2> DEFINE e == Entry(i, "skipped", NoAttempt, "none")
  <2>1. Records(i, e) /\ pc \in Waves
    BY <1>3 DEF Skip, Records, Entry, Waves
  <2>2. failed' = failed
    BY <1>3, SkipNeedsFailure DEF Skip, FirstFailure
  <2> HIDE DEF e
  <2> QED
    BY <2>1, <2>2, RecordRootCause
<1>4. CASE AttemptStep
  <2>0. cur \in Remaining /\ pc \in Waves /\ ~halted /\ pc # "aborted"
    BY <1>0, <1>4 DEF CurInv, HurtInv, AttemptStep, Waves, InSubtask, SubtaskSteps
  <2>1. CASE GoesOn
    BY <1>1, <1>4, <2>1 DEF GoesOn, AttemptStep
  <2>2. CASE ~GoesOn /\ failed' = failed
    <3>1. PICK e \in EntryRec : Records(cur, e)
      BY <1>4, <2>2, AttemptRecords
    <3> QED
      BY <2>0, <2>2, <3>1, RecordRootCause
  <2>3. CASE Fails /\ failed = NoFailure
    <3>1. PICK e : NewEntry(e, "failed")
      BY <2>3 DEF Fails
    <3>2. Records(cur, e) /\ e.status = "failed" /\ e.idx = cur
      BY <1>4, <3>1 DEF NewEntry, Records, AttemptStep
    <3>3. PassEntries' = PassEntries \cup {e} /\ rank' = rank
      BY <1>0, <3>2, RecordFacts DEF Records
    <3>4. failed'.idx = cur
      BY <2>3 DEF Fails, FirstFailure
    <3>5. \A f \in PassEntries : f.status = "completed"
      BY <1>0, <2>0, <2>3 DEF UnhurtInv, Unhurt
    <3>6. cur \in Nat /\ rank[cur] \in Nat
      BY <1>0, <2>0, PlanFacts DEF TypeOK, Remaining
    <3>7. ~Before(cur, cur)
      BY <3>6 DEF Before
    <3>8. \A f \in PassEntries' : Before(f.idx, cur) => f.status = "completed"
      BY <3>2, <3>3, <3>5, <3>7
    <3> QED
      BY <3>2, <3>3, <3>4, <3>8 DEF RootCauseKept, EntryOf, Before
  <2>4. Fails /\ failed # NoFailure => failed' = failed
    BY DEF Fails, FirstFailure
  <2> QED
    BY <1>4, <2>1, <2>2, <2>3, <2>4 DEF AttemptStep, Completes, Halts
<1>5. CASE Decompose \/ PlaceReady \/ Layered \/ Replan
  <2>1. failed = NoFailure
    BY <1>0, <1>5 DEF UnhurtInv, Unhurt, Decompose, PlaceReady, Layered, Replan
  <2> QED
    BY <1>2, <1>5, <2>1 DEF NoFailure, Decompose, PlaceReady, Layered, Replan
<1>6. CASE InvalidPlan \/ OverBudget
  BY <1>2, <1>6 DEF InvalidPlan, OverBudget
<1>7. CASE PassEnd
  BY <1>1, <1>2, <1>7 DEF PassEnd, NoFailure
<1>8. CASE AllVisited \/ (\E i \in Remaining : Dispatch(i)) \/ BudgetElapses \/ UNCHANGED vars
  BY <1>1, <1>8 DEF AllVisited, Dispatch, BudgetElapses, vars
<1> QED
  BY <1>0, <1>3, <1>4, <1>5, <1>6, <1>7, <1>8, AttemptShape DEF Next, Run
-----------------------------------------------------------------------------
LEMMA StepFreshInv == IInv /\ FreshInv /\ [Next]_vars => FreshInv'
<1> SUFFICES ASSUME IInv, FreshInv, [Next]_vars PROVE FreshInv'
  OBVIOUS
<1> USE DEF planVars, resultVars
<1>0. TypeOK /\ EntryInv /\ GateInv
  BY DEF IInv
<1>1. CASE /\ UNCHANGED <<plan, replans_used, entries, completed>>
           /\ pc' = pc /\ cur' = cur
  BY <1>1 DEF FreshInv, InSubtask
<1>2. ASSUME NEW i, NEW e, Records(i, e), pc \in Waves, pc' \in {"next", "passEnd"}
      PROVE  FreshInv'
  <2>1. ~HasDuplicateId(plan')
    BY <1>2 DEF FreshInv, Records
  <2>2. FreshIds => \A f \in entries' : f.status = "completed" /\ f.pass # replans_used' =>
                      f.id \notin IdsOf(plan')
    BY <1>2 DEF FreshInv, Records
  <2> QED
    BY <1>2, <2>1, <2>2 DEF FreshInv, InSubtask, SubtaskSteps
<1>3. CASE Decompose
  BY <1>3 DEF Decompose, FreshInv, InSubtask, SubtaskSteps, Waves
<1>4. CASE PlaceReady
  BY <1>4 DEF PlaceReady, FreshInv, InSubtask, SubtaskSteps, Waves
<1>5. CASE Layered
  BY <1>5 DEF Layered, BadEdges, FreshInv, InSubtask, SubtaskSteps, Waves
<1>6. CASE InvalidPlan \/ PassEnd
  <2>1. pc' \in {"done", "replan"}
    BY <1>6 DEF InvalidPlan, PassEnd
  <2> QED
    BY <2>1 DEF FreshInv, InSubtask, SubtaskSteps, Waves
<1>7. ASSUME NEW i \in Remaining, Skip(i)
      PROVE  FreshInv'
  <2> DEFINE e == Entry(i, "skipped", NoAttempt, "none")
  <2>1. Records(i, e) /\ pc \in Waves /\ pc' = "next"
    BY <1>7 DEF Skip, Records, Entry, Waves
  <2> HIDE DEF e
  <2> QED
    BY <1>2, <2>1
<1>8. ASSUME NEW i \in Remaining, Dispatch(i)
      PROVE  FreshInv'
  <2>1. plan[i].deps \subseteq completed
    BY <1>8 DEF Dispatch, Unmet
  <2> QED
    BY <1>8, <2>1 DEF Dispatch, FreshInv, Waves, SubtaskSteps
<1>9. CASE AttemptStep
  <2>1. CASE GoesOn
    <3>1. /\ UNCHANGED <<plan, replans_used, entries, completed, cur>>
          /\ InSubtask /\ pc \in Waves /\ pc' \notin {"decompose", "layer"}
      BY <1>9, <2>1 DEF GoesOn, AttemptStep, InSubtask, Waves, SubtaskSteps
    <3> QED
      BY <3>1 DEF FreshInv
  <2>2. CASE ~GoesOn
    <3>1. PICK e \in EntryRec : Records(cur, e)
      BY <1>9, <2>2, AttemptRecords
    <3>2. pc \in Waves /\ pc' \in {"next", "passEnd"}
      BY <1>9, <2>2, AttemptRecords DEF AttemptStep, InSubtask, Waves
    <3> QED
      BY <1>2, <3>1, <3>2
  <2> QED
    BY <2>1, <2>2
<1>10. CASE OverBudget \/ AllVisited
  <2>1. /\ UNCHANGED <<plan, replans_used, entries, completed>>
        /\ pc = "next" /\ pc' = "passEnd"
    BY <1>10 DEF OverBudget, AllVisited
  <2> QED
    BY <2>1 DEF FreshInv, InSubtask, SubtaskSteps, Waves
<1>11. CASE Replan
  <2>1. CASE pc' = "done"
    BY <2>1 DEF FreshInv, InSubtask, SubtaskSteps, Waves
  <2>2. CASE pc' = "layer" /\ Obeys(plan')
    <3>1. UNCHANGED <<entries, completed, replans_used>>
      BY <1>11 DEF Replan
    <3>2. FreshIds => \A e \in entries : e.status = "completed" => e.id \notin IdsOf(plan')
      BY <1>0, <2>2 DEF Obeys, UsedIds, EntryInv
    <3> QED
      BY <2>2, <3>1, <3>2 DEF FreshInv, InSubtask, SubtaskSteps, Waves
  <2> QED
    BY <1>11, <2>1, <2>2 DEF Replan
<1>12. CASE BudgetElapses \/ UNCHANGED vars
  BY <1>1, <1>12 DEF BudgetElapses, vars
<1> QED
  BY <1>0, <1>3, <1>4, <1>5, <1>6, <1>7, <1>8, <1>9, <1>10, <1>11, <1>12, AttemptShape
     DEF Next, Run

(* A prerequisite in the plan is completed; under fresh ids the entry that *)
(* says so is of this pass, and there is only one subtask it can mean.     *)
LEMMA FreshDeps ==
  ASSUME IInv, BookInv, FreshInv, FreshIds
  PROVE  DepsCompleteFirst
<1> SUFFICES ASSUME InSubtask, NEW j \in DOMAIN plan, plan[j].id \in plan[cur].deps
             PROVE  EntryOf(j, "completed")
  BY DEF DepsCompleteFirst
<1>1. pc \in Waves /\ ~HasDuplicateId(plan) /\ EntryInv
  BY DEF InSubtask, Waves, FreshInv, IInv
<1>2. PICK e \in entries : e.status = "completed" /\ e.id = plan[j].id
  BY DEF FreshInv, BookInv
<1>3. e \in PassEntries
  BY <1>1, <1>2 DEF FreshInv, PassEntries, IdsOf
<1>4. e.idx = j
  BY <1>1, <1>2, <1>3 DEF EntryInv, HasDuplicateId
<1> QED
  BY <1>2, <1>3, <1>4 DEF EntryOf
-----------------------------------------------------------------------------
(* How the steps after the worker move the round counter and the clock.    *)
LEMMA PaceShape ==
  ASSUME Verify \/ Supervise \/ Evaluate \/ Review \/ Arbitrate
  PROVE  /\ UNCHANGED clockVars /\ pc \in SubtaskSteps \ {"work"}
         /\ \/ pc' \in SubtaskSteps \ {"work"} /\ attempt' = attempt
            \/ pc' = "work" /\ attempt' = attempt + 1
            \/ pc' \notin SubtaskSteps
<1> USE DEF SubtaskSteps, Abort, Proceed, Retry, Complete, FailSubtask
<1>1. CASE Verify
  BY <1>1 DEF Verify
<1>2. CASE Supervise
  BY <1>2 DEF Supervise
<1>3. CASE Evaluate
  BY <1>3 DEF Evaluate, ActOn
<1>4. CASE Review
  BY <1>4 DEF Review, Reviewed
<1>5. CASE Arbitrate
  BY <1>5 DEF Arbitrate
<1> QED
  BY <1>1, <1>2, <1>3, <1>4, <1>5

LEMMA StepBudgetInv == IInv /\ BudgetInv /\ [Next]_vars => BudgetInv'
<1> SUFFICES ASSUME IInv, BudgetInv, [Next]_vars PROVE BudgetInv'
  OBVIOUS
<1> USE DEF clockVars, SubtaskSteps, MAX_REWORKS
<1>0. attempt \in 0 .. MAX_REWORKS /\ lateCalls \in Nat
  BY DEF IInv, TypeOK
<1>1. CASE UNCHANGED clockVars /\ pc' \notin SubtaskSteps
  BY <1>1 DEF BudgetInv
<1>2. CASE Work
  <2>1. /\ pc = "work" /\ elapsed' = elapsed
        /\ lateCalls' \in {lateCalls, lateCalls + 1} /\ (~elapsed => lateCalls' = lateCalls)
    BY <1>2 DEF Work
  <2>2. \/ pc' = "work" /\ attempt' = attempt + 1
        \/ pc' = "verify" /\ attempt' = attempt
        \/ pc' \in {"next", "aborted"}
    BY <1>2 DEF Work, Abort, WorkerFails, FailSubtask, Retry, Proceed
  <2> QED
    BY <1>0, <2>1, <2>2 DEF BudgetInv
<1>3. CASE Verify \/ Supervise \/ Evaluate \/ Review \/ Arbitrate
  BY <1>0, <1>3, PaceShape DEF BudgetInv
<1>4. ASSUME NEW i \in Remaining, Dispatch(i)
      PROVE  BudgetInv'
  BY <1>0, <1>4 DEF Dispatch, BudgetInv, attemptVars
<1>5. CASE BudgetElapses
  BY <1>0, <1>5 DEF BudgetElapses, BudgetInv, attemptVars
<1>6. CASE UNCHANGED vars
  BY <1>6 DEF vars, BudgetInv, attemptVars
<1>7. CASE \/ Decompose \/ PlaceReady \/ Layered \/ InvalidPlan \/ OverBudget \/ AllVisited
           \/ (\E i \in Remaining : Skip(i)) \/ PassEnd \/ Replan
  BY <1>1, <1>7 DEF Decompose, PlaceReady, Layered, InvalidPlan, OverBudget, AllVisited,
     Skip, PassEnd, Replan
<1> QED
  BY <1>2, <1>3, <1>4, <1>5, <1>6, <1>7 DEF Next, Run
-----------------------------------------------------------------------------
LEMMA StepNothingUnshipped ==
  IInv /\ [Next]_vars =>
    /\ completed \subseteq completed' /\ entries \subseteq entries'
    /\ halted => halted' /\ pc' \notin {"work", "replan"}
    /\ Finished => UNCHANGED vars
<1> SUFFICES ASSUME IInv, [Next]_vars
             PROVE  /\ completed \subseteq completed' /\ entries \subseteq entries'
                    /\ halted => halted' /\ pc' \notin {"work", "replan"}
                    /\ Finished => UNCHANGED vars
  OBVIOUS
<1> USE DEF resultVars
<1>0. TypeOK /\ GateInv /\ HurtInv
  BY DEF IInv
<1>1. CASE /\ completed \subseteq completed' /\ entries \subseteq entries'
           /\ pc \notin {"passEnd", "done", "aborted"}
  BY <1>0, <1>1 DEF HurtInv, Finished
<1>2. CASE PassEnd
  BY <1>2 DEF PassEnd, Finished
<1>3. CASE BudgetElapses
  BY <1>0, <1>3 DEF BudgetElapses, Finished, HurtInv
<1>4. CASE UNCHANGED vars
  BY <1>0, <1>4 DEF vars, HurtInv
<1>5. CASE AttemptStep
  BY <1>1, <1>5 DEF AttemptStep, GoesOn, Completes, Fails, Halts, NewEntry, InSubtask,
     SubtaskSteps
<1>6. CASE \/ Decompose \/ PlaceReady \/ Layered \/ InvalidPlan \/ OverBudget \/ AllVisited
           \/ (\E i \in Remaining : Skip(i) \/ Dispatch(i)) \/ Replan
  BY <1>1, <1>6 DEF Decompose, PlaceReady, Layered, InvalidPlan, OverBudget, AllVisited,
     Skip, Dispatch, Replan
<1> QED
  BY <1>0, <1>2, <1>3, <1>4, <1>5, <1>6, AttemptShape DEF Next, Run

(* Only the budget check replaces a failure. *)
LEMMA StepFailedFirstWins ==
  IInv /\ ~elapsed /\ [Next]_vars =>
    (failed # NoFailure /\ pc # "passEnd" => failed' = failed)
<1> SUFFICES ASSUME IInv, ~elapsed, [Next]_vars, failed # NoFailure, pc # "passEnd"
             PROVE  failed' = failed
  OBVIOUS
<1> USE DEF resultVars
<1>0. TypeOK /\ GateInv /\ UnhurtInv
  BY DEF IInv
<1>1. pc \notin {"decompose", "layer", "replan"}
  BY <1>0 DEF UnhurtInv, Unhurt
<1>2. CASE AttemptStep
  BY <1>2 DEF AttemptStep, GoesOn, Completes, Fails, Halts, FirstFailure
<1>3. CASE \E i \in Remaining : Skip(i) \/ Dispatch(i)
  BY <1>3 DEF Skip, Dispatch, FirstFailure
<1>4. CASE AllVisited \/ BudgetElapses \/ UNCHANGED vars
  BY <1>4 DEF AllVisited, BudgetElapses, vars
<1>5. ~(Decompose \/ PlaceReady \/ Layered \/ InvalidPlan \/ OverBudget \/ PassEnd \/ Replan)
  BY <1>1 DEF Decompose, PlaceReady, Layered, InvalidPlan, OverBudget, PassEnd, Replan
<1> QED
  BY <1>0, <1>2, <1>3, <1>4, <1>5, AttemptShape DEF Next, Run
-----------------------------------------------------------------------------
PassInv ==
  /\ IInv /\ OrderInv /\ BookInv /\ FreshInv /\ BudgetInv
  /\ NobodyForgotten /\ SkipHasCause /\ RootCauseKept

LEMMA InitPassInv == Init => PassInv
<1> SUFFICES ASSUME Init PROVE PassInv
  OBVIOUS
<1>1. IInv /\ entries = {} /\ completed = {} /\ PassEntries = {}
  BY InitIInv DEF Init, PassEntries
<1>2. OrderInv /\ BookInv /\ FreshInv
  BY <1>1 DEF Init, OrderInv, BookInv, FreshInv, InSubtask, Waves, SubtaskSteps
<1>3. BudgetInv /\ NobodyForgotten /\ SkipHasCause /\ RootCauseKept
  BY <1>1 DEF Init, BudgetInv, NobodyForgotten, SkipHasCause, RootCauseKept, NoFailure,
     SubtaskSteps, MAX_REWORKS
<1> QED
  BY <1>1, <1>2, <1>3 DEF PassInv

LEMMA StepPassInv == PassInv /\ [Next]_vars => PassInv'
BY StepIInv, StepOrderInv, StepBookInv, StepFreshInv, StepBudgetInv,
   StepNobodyForgotten, StepSkipHasCause, StepRootCauseKept DEF PassInv

LEMMA PassInductive == Spec => []PassInv
BY InitPassInv, StepPassInv, PTL DEF Spec

(* A pass that was neither halted nor over budget has visited every        *)
(* subtask of its plan: no `continue` or `break` of the wave loops loses   *)
(* one.                                                                    *)
THEOREM ConductForgetsNobody == Spec => []NobodyForgotten
<1>1. PassInv => NobodyForgotten
  BY DEF PassInv
<1> QED
  BY PassInductive, <1>1, PTL

(* A subtask is skipped only because one of its own prerequisites failed   *)
(* or was skipped in the same pass.                                        *)
THEOREM ConductSkipsWithCause == Spec => []SkipHasCause
<1>1. PassInv => SkipHasCause
  BY DEF PassInv
<1> QED
  BY PassInductive, <1>1, PTL

(* The failure the run reports is a root cause: everything before it in    *)
(* wave order was completed.                                               *)
THEOREM ConductKeepsRootCause == Spec => []RootCauseKept
<1>1. PassInv => RootCauseKept
  BY DEF PassInv
<1> QED
  BY PassInductive, <1>1, PTL

(* Every subtask has at most one entry in a pass, and `completed` is what  *)
(* the completed entries say.                                              *)
THEOREM ConductOneEntryEach == Spec => []OneEntryEach
<1>1. PassInv => OneEntryEach
  BY DEF PassInv, IInv, EntryInv, BookInv, OneEntryEach
<1> QED
  BY PassInductive, <1>1, PTL

(* A skip is explained in the transcript, by a prerequisite of its own,    *)
(* and in the report, by the failure that came before it.                  *)
THEOREM ConductExplainsSkips == Spec => []SkipIsExplained
  BY ConductSkipsWithCause, ConductSkipFindsFailure, PTL DEF SkipIsExplained

(* The report and the transcript are one story: a run succeeds exactly if  *)
(* every subtask of the plan it ended with has its one entry, completed.   *)
THEOREM ConductReportMatches == Spec => []ReportMatchesEntries
  BY ConductOutcomeMatches, ConductOneEntryEach, PTL DEF ReportMatchesEntries

(* Once the budget has elapsed the attempts of at most one subtask still   *)
(* start.                                                                  *)
THEOREM ConductOverrun == Spec => []OverrunBounded
<1>1. PassInv => OverrunBounded
  BY DEF PassInv, BudgetInv, OverrunBounded
<1> QED
  BY PassInductive, <1>1, PTL

(* With a conductor that never reuses an id, a subtask in work has had its *)
(* prerequisites completed, those of its own plan by this plan.            *)
THEOREM ConductDepsFirst ==
  ASSUME FreshIds
  PROVE  Spec => []DepsCompleteFirst
<1>1. PassInv => DepsCompleteFirst
  BY FreshDeps DEF PassInv
<1> QED
  BY PassInductive, <1>1, PTL

(* Accepted work stays accepted through failures and replans, a halt is    *)
(* final, and a finished run does not move.                                *)
THEOREM ConductKeepsWork == Spec => NothingUnshipped
<1>1. IInv /\ [Next]_vars =>
        [/\ completed \subseteq completed' /\ entries \subseteq entries'
         /\ halted => halted' /\ pc' \notin {"work", "replan"}
         /\ Finished => UNCHANGED vars]_vars
  BY StepNothingUnshipped
<1> QED
  BY Inductive, <1>1, PTL DEF Spec, NothingUnshipped

(* Without a budget the first failure of a pass is the one reported.       *)
THEOREM ConductFirstWins ==
  ASSUME ~HasBudget
  PROVE  Spec => FailedFirstWins
<1>1. PassInv => ~elapsed
  BY DEF PassInv, BudgetInv
<1>2. PassInv /\ [Next]_vars =>
        [failed # NoFailure /\ pc # "passEnd" => failed' = failed]_vars
  BY <1>1, StepFailedFirstWins DEF PassInv
<1> QED
  BY PassInductive, <1>2, PTL DEF Spec, FailedFirstWins
-----------------------------------------------------------------------------
(* What is left of a run: whether the budget may still elapse, the plans,  *)
(* the stages of a pass, its subtasks to place or to visit, the attempts   *)
(* of the one in work and the gates of an attempt.                         *)
BudgetLeft == IF elapsed THEN 0 ELSE 1
PlansLeft == IF pc = "decompose" THEN MaxReplans + 1 ELSE MaxReplans - replans_used
StagesLeft ==
  CASE pc \in {"decompose", "replan"} -> 4 [] pc = "layer" -> 3
    [] pc \in {"next"} \cup SubtaskSteps -> 2 [] pc = "passEnd" -> 1 [] OTHER -> 0
Open == IF pc = "layer" THEN {i \in DOMAIN plan : rank[i] = Unplaced} ELSE Remaining
AttemptsLeft == IF InSubtask THEN MAX_REWORKS - attempt ELSE MAX_REWORKS + 1
GatesLeft ==
  CASE pc = "work" -> 6 [] pc = "verify" -> 5 [] pc = "supervise" -> 4
    [] pc = "evaluate" -> 3 [] pc = "review" -> 2 [] pc = "arbitrate" -> 1 [] OTHER -> 0

RunLeft == <<BudgetLeft, PlansLeft, StagesLeft, Cardinality(Open), AttemptsLeft, GatesLeft>>
RunIsCounted == RunLeft \in [1 .. 6 -> Nat]

(* The first part that differs is lower. *)
Lower(after, before) ==
  \E n \in DOMAIN before :
    after[n] < before[n] /\ \A m \in 1 .. (n - 1) : after[m] = before[m]

LEMMA LowerAt ==
  ASSUME NEW n \in 1 .. 6, RunLeft'[n] < RunLeft[n],
         \A m \in 1 .. (n - 1) : RunLeft'[m] = RunLeft[m]
  PROVE  Lower(RunLeft', RunLeft)
<1>1. DOMAIN RunLeft = 1 .. 6
  BY DEF RunLeft
<1> QED
  BY <1>1 DEF Lower

LEMMA FewerPlans ==
  ASSUME BudgetLeft' = BudgetLeft, PlansLeft' < PlansLeft
  PROVE  Lower(RunLeft', RunLeft)
<1>1. RunLeft'[2] < RunLeft[2] /\ RunLeft'[1] = RunLeft[1]
  BY DEF RunLeft
<1> QED
  BY <1>1, LowerAt

LEMMA FewerStages ==
  ASSUME BudgetLeft' = BudgetLeft, PlansLeft' = PlansLeft, StagesLeft' < StagesLeft
  PROVE  Lower(RunLeft', RunLeft)
<1>1. RunLeft'[3] < RunLeft[3] /\ RunLeft'[1] = RunLeft[1] /\ RunLeft'[2] = RunLeft[2]
  BY DEF RunLeft
<1> QED
  BY <1>1, LowerAt

LEMMA PlanFinite == ASSUME TypeOK PROVE IsFiniteSet(DOMAIN plan)
<1>1. plan \in Seq(SubtaskRec) \/ plan = <<>>
  BY PlansAssumption DEF TypeOK
<1>2. DOMAIN plan = 1 .. Len(plan) /\ Len(plan) \in Nat
  BY <1>1
<1> QED
  BY <1>2, FS_Interval

LEMMA FewerOpen ==
  ASSUME TypeOK, BudgetLeft' = BudgetLeft, PlansLeft' = PlansLeft, StagesLeft' = StagesLeft,
         Open' \subseteq Open, Open' # Open
  PROVE  Lower(RunLeft', RunLeft)
<1>1. IsFiniteSet(Open)
  BY PlanFinite, FS_Subset DEF Open, Remaining
<1>2. Cardinality(Open') < Cardinality(Open)
  <2> HIDE DEF Open
  <2> QED
    BY <1>1, FS_Subset, FS_CardinalityType
<1>3. /\ RunLeft'[4] < RunLeft[4]
      /\ RunLeft'[1] = RunLeft[1] /\ RunLeft'[2] = RunLeft[2] /\ RunLeft'[3] = RunLeft[3]
  BY <1>2 DEF RunLeft
<1> QED
  BY <1>3, LowerAt

LEMMA FewerAttempts ==
  ASSUME BudgetLeft' = BudgetLeft, PlansLeft' = PlansLeft, StagesLeft' = StagesLeft,
         Open' = Open, AttemptsLeft' < AttemptsLeft
  PROVE  Lower(RunLeft', RunLeft)
<1>1. Cardinality(Open') = Cardinality(Open)
  OBVIOUS
<1>2. /\ RunLeft'[5] < RunLeft[5]
      /\ RunLeft'[1] = RunLeft[1] /\ RunLeft'[2] = RunLeft[2]
      /\ RunLeft'[3] = RunLeft[3] /\ RunLeft'[4] = RunLeft[4]
  BY <1>1 DEF RunLeft
<1> QED
  BY <1>2, LowerAt

LEMMA FewerGates ==
  ASSUME BudgetLeft' = BudgetLeft, PlansLeft' = PlansLeft, StagesLeft' = StagesLeft,
         Open' = Open, AttemptsLeft' = AttemptsLeft, GatesLeft' < GatesLeft
  PROVE  Lower(RunLeft', RunLeft)
<1>1. Cardinality(Open') = Cardinality(Open)
  OBVIOUS
<1>2. /\ RunLeft'[6] < RunLeft[6]
      /\ RunLeft'[1] = RunLeft[1] /\ RunLeft'[2] = RunLeft[2] /\ RunLeft'[3] = RunLeft[3]
      /\ RunLeft'[4] = RunLeft[4] /\ RunLeft'[5] = RunLeft[5]
  BY <1>1 DEF RunLeft
<1> QED
  BY <1>2, LowerAt

LEMMA RunTyped == TypeOK => RunIsCounted
<1> SUFFICES ASSUME TypeOK PROVE RunLeft \in [1 .. 6 -> Nat]
  BY DEF RunIsCounted
<1>1. BudgetLeft \in Nat /\ PlansLeft \in Nat /\ StagesLeft \in Nat
  BY MaxReplansAssumption DEF TypeOK, BudgetLeft, PlansLeft, StagesLeft
<1>2. Cardinality(Open) \in Nat
  BY PlanFinite, FS_Subset, FS_CardinalityType DEF Open, Remaining
<1>3. AttemptsLeft \in Nat /\ GatesLeft \in Nat
  BY DEF TypeOK, AttemptsLeft, GatesLeft, MAX_REWORKS
<1>4. DOMAIN RunLeft = 1 .. 6 /\ RunLeft = [n \in 1 .. 6 |-> RunLeft[n]]
  BY DEF RunLeft
<1>5. {RunLeft[1], RunLeft[2], RunLeft[3], RunLeft[4], RunLeft[5], RunLeft[6]} \subseteq Nat
  BY <1>1, <1>2, <1>3 DEF RunLeft
<1>6. \A n \in 1 .. 6 : RunLeft[n] \in Nat
  <2> HIDE DEF RunLeft
  <2> QED
    BY <1>5
<1> QED
  BY <1>4, <1>6

(* Gate by gate, or once more from the worker. *)
LEMMA RoundShape ==
  ASSUME Work \/ Verify \/ Supervise \/ Evaluate \/ Review \/ Arbitrate, pc' \in SubtaskSteps
  PROVE  \/ attempt' = attempt /\ GatesLeft' < GatesLeft
         \/ pc' = "work" /\ attempt' = attempt + 1
<1> USE DEF SubtaskSteps, Abort, Proceed, Retry, Complete, FailSubtask, GatesLeft
<1>1. CASE Work
  BY <1>1 DEF Work, WorkerFails
<1>2. CASE Verify
  BY <1>2 DEF Verify
<1>3. CASE Supervise
  BY <1>3 DEF Supervise
<1>4. CASE Evaluate
  BY <1>4 DEF Evaluate, ActOn
<1>5. CASE Review
  BY <1>5 DEF Review, Reviewed
<1>6. CASE Arbitrate
  BY <1>6 DEF Arbitrate
<1> QED
  BY <1>1, <1>2, <1>3, <1>4, <1>5, <1>6

LEMMA StepWindsDown == IInv /\ TypeOK' /\ Next => Lower(RunLeft', RunLeft)
<1> SUFFICES ASSUME IInv, TypeOK', Next PROVE Lower(RunLeft', RunLeft)
  OBVIOUS
<1>0. TypeOK /\ CurInv /\ EntryInv /\ GateInv /\ replans_used \in 0 .. MaxReplans /\ MaxReplans \in Nat
  BY MaxReplansAssumption DEF IInv, TypeOK
<1> DEFINE Gate == Work \/ Verify \/ Supervise \/ Evaluate \/ Review \/ Arbitrate
<1>1. CASE BudgetElapses
  <2>1. BudgetLeft' < BudgetLeft
    BY <1>1 DEF BudgetElapses, BudgetLeft
  <2>2. RunLeft'[1] < RunLeft[1]
    BY <2>1 DEF RunLeft
  <2> QED
    BY <2>2, LowerAt
<1>2. CASE Decompose
  <2>1. /\ pc = "decompose" /\ pc' \in {"layer", "aborted"}
        /\ replans_used' = replans_used /\ elapsed' = elapsed
    BY <1>2 DEF Decompose, clockVars
  <2>2. PlansLeft' < PlansLeft /\ BudgetLeft' = BudgetLeft
    BY <1>0, <2>1 DEF PlansLeft, BudgetLeft
  <2> QED
    BY <2>2, FewerPlans
<1>3. ASSUME pc # "decompose", pc' # "decompose", UNCHANGED <<replans_used, elapsed>>
      PROVE  PlansLeft' = PlansLeft /\ BudgetLeft' = BudgetLeft
  BY <1>3 DEF PlansLeft, BudgetLeft
<1>4. CASE PassEnd
  <2>1. CASE pc' = "done"
    <3>1. /\ pc = "passEnd" /\ UNCHANGED <<replans_used, elapsed>>
      BY <1>4, <2>1 DEF PassEnd, clockVars
    <3>2. StagesLeft' < StagesLeft
      BY <2>1, <3>1 DEF StagesLeft, SubtaskSteps
    <3> QED
      BY <1>3, <2>1, <3>1, <3>2, FewerStages
  <2>2. CASE pc' # "done"
    <3>1. /\ pc = "passEnd" /\ pc' = "replan"
          /\ replans_used' = replans_used + 1 /\ elapsed' = elapsed
      BY <1>4, <2>2 DEF PassEnd, clockVars
    <3>2. PlansLeft' < PlansLeft /\ BudgetLeft' = BudgetLeft
      BY <1>0, <3>1 DEF PlansLeft, BudgetLeft
    <3> QED
      BY <3>2, FewerPlans
  <2> QED
    BY <2>1, <2>2
<1>5. CASE Layered \/ InvalidPlan \/ OverBudget \/ AllVisited \/ Replan
  <2>1. /\ UNCHANGED <<replans_used, elapsed>>
        /\ \/ pc = "layer" /\ pc' \in {"next", "done"}
           \/ pc = "next" /\ pc' = "passEnd"
           \/ pc = "replan" /\ pc' \in {"layer", "done"}
    BY <1>5 DEF Layered, InvalidPlan, OverBudget, AllVisited, Replan, clockVars
  <2>2. StagesLeft' < StagesLeft
    BY <2>1 DEF StagesLeft, SubtaskSteps
  <2>3. PlansLeft' = PlansLeft /\ BudgetLeft' = BudgetLeft
    BY <1>3, <2>1
  <2> QED
    BY <2>2, <2>3, FewerStages
<1>6. CASE PlaceReady
  <2>1. /\ pc = "layer" /\ pc' = "layer" /\ plan' = plan /\ UNCHANGED <<replans_used, elapsed>>
        /\ Ready(plan, completed, rank) # {}
        /\ rank' = PlaceWave(rank, Ready(plan, completed, rank), wave + 1)
    BY <1>6 DEF PlaceReady, clockVars
  <2>2. wave + 1 # Unplaced /\ DOMAIN rank = DOMAIN plan
    BY <1>0 DEF TypeOK, Unplaced
  <2>3. PICK i : i \in Ready(plan, completed, rank)
    BY <2>1
  <2>4. /\ Open = {j \in DOMAIN plan : rank[j] = Unplaced}
        /\ Open' = {j \in DOMAIN plan : rank'[j] = Unplaced}
    BY <2>1 DEF Open
  <2>5. Open' \subseteq Open /\ i \in Open /\ i \notin Open'
    BY <2>1, <2>2, <2>3, <2>4 DEF PlaceWave, Ready
  <2>6. StagesLeft' = StagesLeft /\ PlansLeft' = PlansLeft /\ BudgetLeft' = BudgetLeft
    BY <1>3, <2>1 DEF StagesLeft
  <2> QED
    BY <1>0, <2>5, <2>6, FewerOpen
<1>7. ASSUME NEW i \in Remaining, NEW e, Records(i, e), UNCHANGED elapsed,
             pc \in {"next"} \cup SubtaskSteps, pc' = "next"
      PROVE  Lower(RunLeft', RunLeft)
  <2>1. Remaining' = Remaining \ {i} /\ replans_used' = replans_used
    BY <1>0, <1>7, RecordFacts DEF Records
  <2>2. Open = Remaining /\ Open' = Remaining'
    BY <1>7 DEF Open, SubtaskSteps
  <2>3. StagesLeft' = StagesLeft /\ PlansLeft' = PlansLeft /\ BudgetLeft' = BudgetLeft
    BY <1>3, <1>7, <2>1 DEF StagesLeft, SubtaskSteps
  <2> QED
    BY <1>0, <2>1, <2>2, <2>3, FewerOpen
<1>8. ASSUME NEW i \in Remaining, Skip(i)
      PROVE  Lower(RunLeft', RunLeft)
  <2> DEFINE e == Entry(i, "skipped", NoAttempt, "none")
  <2>1. Records(i, e) /\ pc = "next" /\ pc' = "next" /\ UNCHANGED elapsed
    BY <1>8 DEF Skip, Records, Entry, planVars, clockVars
  <2> HIDE DEF e
  <2> QED
    BY <1>7, <2>1
<1>9. ASSUME NEW i \in Remaining, Dispatch(i)
      PROVE  Lower(RunLeft', RunLeft)
  <2>1. /\ pc = "next" /\ pc' = "work" /\ UNCHANGED <<plan, entries, replans_used, elapsed, attempt>>
    BY <1>9 DEF Dispatch, planVars, resultVars, clockVars, attemptVars
  <2>2. Open' = Open
    BY <2>1 DEF Open, Remaining, Visited, PassEntries
  <2>3. AttemptsLeft' < AttemptsLeft
    BY <1>0, <2>1 DEF AttemptsLeft, InSubtask, SubtaskSteps, TypeOK, MAX_REWORKS
  <2>4. StagesLeft' = StagesLeft /\ PlansLeft' = PlansLeft /\ BudgetLeft' = BudgetLeft
    BY <1>3, <2>1 DEF StagesLeft, SubtaskSteps
  <2> QED
    BY <2>2, <2>3, <2>4, FewerAttempts
<1>10. CASE Gate
  <2>1. AttemptStep /\ UNCHANGED elapsed
    BY <1>0, <1>10, AttemptShape DEF Work, Verify, Supervise, Evaluate, Review, Arbitrate, clockVars
  <2>2. pc \in SubtaskSteps /\ UNCHANGED <<plan, replans_used>> /\ cur \in Remaining
    BY <1>0, <2>1 DEF AttemptStep, InSubtask, planVars, CurInv
  <2>3. CASE pc' \in {"aborted", "passEnd"}
    <3>1. StagesLeft' < StagesLeft
      BY <2>2, <2>3 DEF StagesLeft, SubtaskSteps
    <3>2. PlansLeft' = PlansLeft /\ BudgetLeft' = BudgetLeft
      BY <1>3, <2>1, <2>2, <2>3 DEF SubtaskSteps
    <3> QED
      BY <3>1, <3>2, FewerStages
  <2>4. CASE pc' \in SubtaskSteps
    <3>1. GoesOn
      BY <2>1, <2>4 DEF AttemptStep, Completes, Fails, Halts, SubtaskSteps
    <3>2. Open' = Open
      BY <2>2, <2>4, <3>1 DEF GoesOn, resultVars, Open, Remaining, Visited, PassEntries, SubtaskSteps
    <3>3. StagesLeft' = StagesLeft /\ PlansLeft' = PlansLeft /\ BudgetLeft' = BudgetLeft
      BY <1>3, <2>1, <2>2, <2>4 DEF StagesLeft, SubtaskSteps
    <3>4. CASE attempt' = attempt /\ GatesLeft' < GatesLeft
      <4>1. AttemptsLeft' = AttemptsLeft
        BY <2>2, <2>4, <3>4 DEF AttemptsLeft, InSubtask
      <4> QED
        BY <3>2, <3>3, <3>4, <4>1, FewerGates
    <3>5. CASE attempt' = attempt + 1
      <4>1. AttemptsLeft' < AttemptsLeft
        BY <1>0, <2>2, <2>4, <3>5 DEF AttemptsLeft, InSubtask, TypeOK, MAX_REWORKS
      <4> QED
        BY <3>2, <3>3, <4>1, FewerAttempts
    <3> QED
      BY <1>10, <2>4, <3>4, <3>5, RoundShape
  <2>5. CASE pc' = "next"
    <3>1. ~GoesOn
      BY <2>5 DEF GoesOn, SubtaskSteps
    <3>2. PICK e \in EntryRec : Records(cur, e)
      BY <2>1, <3>1, AttemptRecords
    <3> QED
      BY <1>7, <2>1, <2>2, <2>5, <3>2
  <2> QED
    BY <2>1, <2>3, <2>4, <2>5 DEF AttemptStep, GoesOn, Completes, Fails, Halts
<1> QED
  BY <1>1, <1>2, <1>4, <1>5, <1>6, <1>8, <1>9, <1>10 DEF Next, Run

(* Whatever the roles reply, every step of a run leaves less to do: a      *)
(* rework costs an attempt, a failure a subtask, a replacement an allowed  *)
(* replan, and nothing gives one of them back.  The nested loops of        *)
(* run_conduct have no cycle.                                              *)
ConductWindsDown == [][Lower(RunLeft', RunLeft) /\ RunIsCounted']_vars

THEOREM ConductEndsItsLoops == Spec => ConductWindsDown
<1>1. IInv => RunIsCounted /\ TypeOK
  BY RunTyped DEF IInv
<1>2. IInv /\ TypeOK' /\ RunIsCounted' /\ [Next]_vars
        => [Lower(RunLeft', RunLeft) /\ RunIsCounted']_vars
  BY StepWindsDown
<1> QED
  BY <1>1, <1>2, Inductive, PTL DEF Spec, ConductWindsDown
-----------------------------------------------------------------------------
(* The loop implements EditCheckShip: whatever plans, gates, retries,      *)
(* halts and replans do, work is shipped only from a checked tree, and     *)
(* success is reported only on one.                                        *)

(* The verifier looks at a tree that a worker has just edited. *)
EditedInv == pc = "verify" => verify = "stale"

LEMMA StepEditedInv == EditedInv /\ [Next]_vars => EditedInv'
<1> SUFFICES ASSUME EditedInv, [Next]_vars PROVE EditedInv'
  OBVIOUS
<1>1. CASE Work
  BY <1>1 DEF Work, Abort, WorkerFails, FailSubtask, Retry, Proceed, EditedInv
<1>2. CASE Verify
  BY <1>2 DEF Verify, Abort, EditedInv
<1>3. CASE Supervise
  BY <1>3 DEF Supervise, Proceed, EditedInv
<1>4. CASE Evaluate
  BY <1>4 DEF Evaluate, Abort, ActOn, Proceed, Complete, FailSubtask, Retry, EditedInv
<1>5. CASE Review
  BY <1>5 DEF Review, Reviewed, Proceed, Complete, FailSubtask, Retry, EditedInv
<1>6. CASE Arbitrate
  BY <1>6 DEF Arbitrate, Complete, FailSubtask, EditedInv
<1>7. CASE \/ Decompose \/ PlaceReady \/ Layered \/ InvalidPlan \/ OverBudget \/ AllVisited
           \/ (\E i \in Remaining : Skip(i) \/ Dispatch(i)) \/ PassEnd \/ Replan
  BY <1>7 DEF Decompose, PlaceReady, Layered, InvalidPlan, OverBudget, AllVisited,
     Skip, Dispatch, PassEnd, Replan, EditedInv
<1>8. CASE BudgetElapses \/ UNCHANGED vars
  BY <1>8 DEF BudgetElapses, vars, treeVars, EditedInv
<1> QED
  BY <1>1, <1>2, <1>3, <1>4, <1>5, <1>6, <1>7, <1>8 DEF Next, Run
-----------------------------------------------------------------------------
(* The pictures of the contract's actions in the vocabulary of the loop.   *)
Running == pc \notin {"done", "aborted"}

LEMMA MapIdle ==
  ASSUME Phase' = Phase, Shipped' = Shipped, verify' = verify
  PROVE  UNCHANGED Contract!vars
BY DEF Contract!vars

LEMMA MapEdit ==
  ASSUME Running, Running', verify' = "stale", Shipped' = Shipped
  PROVE  Contract!Edit
<1>1. Phase = "running" /\ Phase' = "running"
  BY DEF Running, Phase
<1>2. verify' \notin {"passed", "not_run"}
  OBVIOUS
<1> QED
  BY <1>1, <1>2 DEF Contract!Edit

LEMMA MapCheck ==
  ASSUME Running, Running', verify = "stale", Shipped' = Shipped
  PROVE  Contract!Check
<1>1. Phase = "running" /\ Phase' = "running"
  BY DEF Running, Phase
<1>2. (verify \in {"passed", "not_run"})' \in BOOLEAN
  OBVIOUS
<1> QED
  BY <1>1, <1>2 DEF Contract!Check

LEMMA MapShip ==
  ASSUME Running, Running', verify' = verify, Sound,
         NEW w, w \notin Shipped, Shipped' = Shipped \cup {w}
  PROVE  Contract!Ship
<1>1. Phase = "running" /\ Phase' = "running"
  BY DEF Running, Phase
<1> QED
  BY <1>1 DEF Contract!Ship, Sound

LEMMA MapStop ==
  ASSUME Running, Phase' \in {"failed", "halted", "aborted"},
         Shipped' = Shipped, verify' = verify
  PROVE  Contract!Stop
<1>1. Phase = "running"
  BY DEF Running, Phase
<1> QED
  BY <1>1 DEF Contract!Stop, Contract!Reports

LEMMA MapSucceed ==
  ASSUME Running, Phase' = "success", Sound, Shipped # {},
         Shipped' = Shipped, verify' = verify
  PROVE  Contract!Succeed
<1>1. Phase = "running"
  BY DEF Running, Phase
<1> QED
  BY <1>1 DEF Contract!Succeed, Sound
-----------------------------------------------------------------------------
LEMMA InitRefines == Init => Contract!Init
<1> SUFFICES ASSUME Init PROVE Contract!Init
  OBVIOUS
<1>1. Phase = "running" /\ Shipped = {} /\ verify \in {"passed", "not_run"}
  BY DEF Init, Phase, Shipped
<1> QED
  BY <1>1 DEF Contract!Init

(* An entry that is not completed ships nothing. *)
LEMMA EntriesShip ==
  ASSUME NEW e, entries' = entries \cup {e}
  PROVE  /\ e.status # "completed" => Shipped' = Shipped
         /\ e.status = "completed" => Shipped' = Shipped \cup {<<e.pass, e.idx>>}
BY DEF Shipped

LEMMA AttemptRefines ==
  ASSUME IInv, EditedInv,
         Work \/ Verify \/ Supervise \/ Evaluate \/ Review \/ Arbitrate
  PROVE  Contract!Next \/ UNCHANGED Contract!vars
<1>0. TypeOK /\ GateInv /\ CurInv /\ HurtInv
  BY DEF IInv
<1>1. AttemptStep /\ Running
  BY <1>0, AttemptShape DEF AttemptStep, InSubtask, SubtaskSteps, Running
<1>2. CASE Completes
  <2>1. PICK e : NewEntry(e, "completed")
    BY <1>2 DEF Completes
  <2>2. Shipped' = Shipped \cup {<<replans_used, cur>>}
    BY <2>1, EntriesShip DEF NewEntry
  <2>3. <<replans_used, cur>> \notin Shipped
    BY <1>0, <1>1 DEF CurInv, AttemptStep, Shipped, Remaining, Visited, PassEntries
  <2>4. Running' /\ Sound /\ verify' = verify
    BY <1>2 DEF Completes, Running
  <2> QED
    BY <1>1, <2>2, <2>3, <2>4, MapShip DEF Contract!Next
<1>3. CASE ~Completes
  <2>1. Shipped' = Shipped
    <3>1. CASE GoesOn
      BY <3>1 DEF GoesOn, resultVars, Shipped
    <3>2. CASE Fails
      BY <3>2, EntriesShip DEF Fails, NewEntry
    <3>3. CASE Halts
      BY <3>3, EntriesShip DEF Halts, NewEntry
    <3> QED
      BY <1>1, <1>3, <3>1, <3>2, <3>3 DEF AttemptStep
  <2>2. CASE pc' = "aborted" /\ verify' = verify
    <3>1. Phase' = "aborted"
      BY <2>2 DEF Phase
    <3> QED
      BY <1>1, <2>1, <2>2, <3>1, MapStop DEF Contract!Next
  <2>3. CASE Running' /\ verify' = verify
    <3>1. Phase' = Phase
      BY <1>1, <2>3 DEF Running, Phase
    <3> QED
      BY <2>1, <2>3, <3>1, MapIdle
  <2>4. CASE Work /\ ~Abort
    <3>1. verify' = "stale" /\ Running'
      BY <2>4 DEF Work, WorkerFails, FailSubtask, Retry, Proceed, Running
    <3> QED
      BY <1>1, <2>1, <3>1, MapEdit DEF Contract!Next
  <2>5. CASE Verify /\ ~Abort
    <3>1. verify = "stale" /\ Running'
      BY <2>5 DEF Verify, EditedInv, Running
    <3> QED
      BY <1>1, <2>1, <3>1, MapCheck DEF Contract!Next
  <2>6. CASE Supervise \/ Evaluate \/ Review \/ Arbitrate
    <3>1. verify' = verify
      BY <2>6 DEF Supervise, Evaluate, Review, Arbitrate, treeVars
    <3>2. pc' = "aborted" \/ Running'
      BY <1>1 DEF AttemptStep, GoesOn, Completes, Fails, Halts, SubtaskSteps, Running
    <3> QED
      BY <2>2, <2>3, <3>1, <3>2
  <2>7. (Work \/ Verify) /\ Abort => pc' = "aborted" /\ verify' = verify
    BY DEF Work, Verify, Abort, treeVars, WorkerFails, FailSubtask, Retry, Proceed
  <2> QED
    BY <2>2, <2>4, <2>5, <2>6, <2>7
<1> QED
  BY <1>2, <1>3

LEMMA StepRefines ==
  IInv /\ EditedInv /\ [Next]_vars => [Contract!Next]_(Contract!vars)
<1> SUFFICES ASSUME IInv, EditedInv, [Next]_vars
             PROVE  Contract!Next \/ UNCHANGED Contract!vars
  OBVIOUS
<1> USE DEF resultVars
<1>0. TypeOK /\ EntryInv /\ UnhurtInv /\ HurtInv
  BY DEF IInv
<1>1. ASSUME Running, Running', UNCHANGED <<verify, entries>>
      PROVE  Contract!Next \/ UNCHANGED Contract!vars
  <2>1. Phase' = Phase /\ Shipped' = Shipped
    BY <1>1 DEF Running, Phase, Shipped
  <2> QED
    BY <1>1, <2>1, MapIdle
<1>2. ASSUME Running, UNCHANGED <<verify, entries>>,
             \/ pc' = "aborted"
             \/ pc' = "done" /\ (failed' # NoFailure \/ halted')
      PROVE  Contract!Next \/ UNCHANGED Contract!vars
  <2>1. Phase' \in {"failed", "halted", "aborted"} /\ Shipped' = Shipped
    BY <1>2 DEF Phase, Shipped
  <2> QED
    BY <1>2, <2>1, MapStop DEF Contract!Next
<1>3. CASE Decompose
  BY <1>1, <1>2, <1>3 DEF Decompose, treeVars, Running
<1>4. CASE PlaceReady \/ Layered \/ OverBudget \/ AllVisited \/ (\E i \in Remaining : Dispatch(i))
  BY <1>1, <1>4 DEF PlaceReady, Layered, OverBudget, AllVisited, Dispatch, treeVars, Running
<1>5. CASE InvalidPlan
  BY <1>2, <1>5 DEF InvalidPlan, treeVars, Running, NoFailure
<1>6. ASSUME NEW i \in Remaining, Skip(i)
      PROVE  Contract!Next \/ UNCHANGED Contract!vars
  <2> DEFINE e == Entry(i, "skipped", NoAttempt, "none")
  <2>1. entries' = entries \cup {e} /\ e.status # "completed" /\ verify' = verify
    BY <1>6 DEF Skip, Entry, treeVars
  <2> HIDE DEF e
  <2>2. Shipped' = Shipped
    BY <2>1, EntriesShip
  <2>3. Phase' = Phase
    BY <1>6 DEF Skip, Phase
  <2> QED
    BY <2>1, <2>2, <2>3, MapIdle
<1>7. CASE PassEnd
  <2>1. CASE pc' = "replan"
    BY <1>1, <1>7, <2>1 DEF PassEnd, treeVars, Running
  <2>2. CASE pc' = "done" /\ ~Unhurt /\ UNCHANGED failed
    BY <1>2, <1>7, <2>2 DEF PassEnd, treeVars, Running, Unhurt
  <2>3. CASE pc' = "done" /\ Unhurt /\ UNCHANGED failed
    <3>1. Remaining = {} /\ plan # <<>>
      BY <1>0, <1>7, <2>3 DEF UnhurtInv, PassEnd
    <3>2. PICK e \in PassEntries : TRUE
      BY <1>0, <3>1, NothingDone
    <3>3. Sound /\ <<e.pass, e.idx>> \in Shipped
      BY <1>0, <1>7, <2>3, <3>2 DEF UnhurtInv, PassEnd, Shipped, PassEntries
    <3>4. Phase' = "success" /\ Shipped' = Shipped /\ verify' = verify
      BY <1>7, <2>3 DEF PassEnd, Unhurt, Phase, Shipped, treeVars
    <3>5. Running
      BY <1>7 DEF PassEnd, Running
    <3> QED
      BY <3>3, <3>4, <3>5, MapSucceed DEF Contract!Next
  <2> QED
    BY <1>7, <2>1, <2>2, <2>3 DEF PassEnd
<1>8. CASE Replan
  BY <1>1, <1>2, <1>8 DEF Replan, treeVars, Running, NoFailure
<1>9. CASE BudgetElapses \/ UNCHANGED vars
  <2>1. Phase' = Phase /\ Shipped' = Shipped /\ verify' = verify
    BY <1>9 DEF BudgetElapses, vars, treeVars, Phase, Shipped
  <2> QED
    BY <2>1, MapIdle
<1> QED
  BY <1>3, <1>4, <1>5, <1>6, <1>7, <1>8, <1>9, AttemptRefines DEF Next, Run

(* The loop implements its contract, for every plan, every configuration   *)
(* of gates and every sequence of replies.                                 *)
THEOREM ConductRefinesContract == Spec => ShipsOnlyChecked
<1>1. Init => EditedInv
  BY DEF Init, EditedInv
<1> QED
  BY <1>1, InitRefines, Inductive, StepEditedInv, StepRefines, PTL
     DEF Spec, ShipsOnlyChecked
=============================================================================
