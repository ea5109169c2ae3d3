------------------------------- MODULE Operator -------------------------------
(***************************************************************************)
(* The operator handle of core/src/orchestrator/operator.rs, between the   *)
(* frames of an operator and the checkpoints of run_conduct.               *)
(*                                                                         *)
(* A run is seen at the places that matter to its operator (Conduct has    *)
(* the rest): the conductor decides, the checkpoint before each subtask    *)
(* drains the notes and parks while the run is paused, the attempts and    *)
(* reworks of a subtask are one stretch of work.                           *)
(***************************************************************************)
EXTENDS Naturals, Sequences

CONSTANTS
  Runs,
  MaxSubtasks,  \* bound on the dispatches of a run
  MaxNotes,     \* bound on the notes an operator sends to a run
  MaxToggles    \* bound on the pause and resume frames sent to a run

ASSUME BoundsAssumption == {MaxSubtasks, MaxNotes, MaxToggles} \subseteq Nat

VARIABLES
  pos,      \* where the run is
  left,     \* dispatches it still may make
  paused,   \* the watch channel
  notes,    \* the queue of notes
  taken,    \* the notes the checkpoint under way has drained
  given,    \* operator_notes of run_conduct
  stream,   \* the events of the run, in order
  asked,    \* history: number of notes sent
  toggles,  \* history: number of pause and resume frames
  wanted,   \* history: the last of these was a pause
  late      \* history: subtasks dispatched since that pause

handleVars == <<paused, notes>>
historyVars == <<asked, toggles, wanted, late>>
operatorVars == <<pos, left, handleVars, taken, given, stream, historyVars>>

Live == {"deciding", "boundary", "drained", "parked", "ready", "working"}
Events == {"work", "note", "paused", "resumed"}

(* protocol.rs, ServerFrame: what a server adds to the events of a run.    *)
Terminals == {"error", "run_complete", "run_error", "run_cancelled"}

OperatorTypeOK ==
  /\ pos \in [Runs -> Live \cup {"none", "finished", "dropped"}]
  /\ left \in [Runs -> 0 .. MaxSubtasks]
  /\ paused \in [Runs -> BOOLEAN] /\ wanted \in [Runs -> BOOLEAN]
  /\ {notes, taken, given} \subseteq [Runs -> Seq(1 .. MaxNotes)]
  /\ stream \in [Runs -> Seq(Events \cup Terminals)]
  /\ asked \in [Runs -> 0 .. MaxNotes]
  /\ toggles \in [Runs -> 0 .. MaxToggles]
  /\ late \in [Runs -> 0 .. MaxSubtasks]

None == [r \in Runs |-> <<>>]

OperatorInit ==
  /\ pos = [r \in Runs |-> "none"]
  /\ left = [r \in Runs |-> MaxSubtasks]
  /\ paused = [r \in Runs |-> FALSE] /\ wanted = paused
  /\ notes = None /\ taken = None /\ given = None /\ stream = None
  /\ asked = [r \in Runs |-> 0] /\ toggles = asked /\ late = asked

Go(r, from, to) == pos[r] = from /\ pos' = [pos EXCEPT ![r] = to]
Emit(r, events) == stream' = [stream EXCEPT ![r] = @ \o events]
-----------------------------------------------------------------------------
(* The operator.  Frames reach the handle once the run was spawned.        *)

(* Mutants of SetPaused: without a receiver the watch channel keeps its    *)
(* value; a resume is a notification that only wakes a waiting run.        *)
SetPausedUnheard(r, value) ==
  paused' = [paused EXCEPT ![r] = IF pos[r] = "parked" THEN value ELSE @]
WakeWaiting(r, value) ==
  paused' = [paused EXCEPT ![r] = IF value \/ pos[r] = "parked" THEN value ELSE @]

SetPaused(r, value) == paused' = [paused EXCEPT ![r] = value]

Toggle(r, value) ==
  /\ pos[r] # "none" /\ toggles[r] < MaxToggles
  /\ SetPaused(r, value)
  /\ wanted' = [wanted EXCEPT ![r] = value]
  /\ late' = [late EXCEPT ![r] = IF wanted[r] = value THEN @ ELSE 0]
  /\ toggles' = [toggles EXCEPT ![r] = @ + 1]
  /\ UNCHANGED <<pos, left, notes, taken, given, stream, asked>>

Pause(r) == Toggle(r, TRUE)
Resume(r) == Toggle(r, FALSE)

Interject(r) ==
  /\ pos[r] # "none" /\ asked[r] < MaxNotes
  /\ asked' = [asked EXCEPT ![r] = @ + 1]
  /\ notes' = [notes EXCEPT ![r] = Append(@, asked[r] + 1)]
  /\ UNCHANGED <<pos, left, paused, taken, given, stream, toggles, wanted, late>>
-----------------------------------------------------------------------------
(* The run. *)
Start(r) ==
  /\ Go(r, "none", "deciding")
  /\ UNCHANGED <<left, handleVars, taken, given, stream, historyVars>>

(* The conductor replied: the next subtask, or the end of the run.         *)
Reach(r) ==
  /\ Go(r, "deciding", "boundary")
  /\ left[r] > 0
  /\ left' = [left EXCEPT ![r] = @ - 1]
  /\ UNCHANGED <<handleVars, taken, given, stream, historyVars>>

Finish(r) ==
  /\ \/ Go(r, "deciding", "finished")
     \/ Go(r, "working", "finished")
  /\ UNCHANGED <<left, handleVars, taken, given, stream, historyVars>>

(* checkpoint: the notes are drained first, *)
DrainNotes(r) ==
  /\ Go(r, "boundary", "drained")
  /\ taken' = [taken EXCEPT ![r] = notes[r]]
  /\ notes' = [notes EXCEPT ![r] = <<>>]
  /\ UNCHANGED <<left, paused, given, stream, historyVars>>

(* then a paused run parks, *)
Pass(r) ==
  /\ ~paused[r]
  /\ Go(r, "drained", "ready")
  /\ UNCHANGED <<left, handleVars, taken, given, stream, historyVars>>

Park(r) ==
  /\ paused[r]
  /\ Go(r, "drained", "parked")
  /\ Emit(r, <<"paused">>)
  /\ UNCHANGED <<left, handleVars, taken, given, historyVars>>

(* until the watch channel reads false.                                    *)
Unpark(r) ==
  /\ ~paused[r]
  /\ Go(r, "parked", "ready")
  /\ Emit(r, <<"resumed">>)
  /\ UNCHANGED <<left, handleVars, taken, given, historyVars>>

(* Mutant of GiveNotes: the notes of the last checkpoint replace the rest. *)
GiveNotesOnce(r) == given' = [given EXCEPT ![r] = taken[r]]
GiveNotes(r) == given' = [given EXCEPT ![r] = @ \o taken[r]]

(* Each note is echoed and kept; then the subtask is dispatched or, over   *)
(* budget or with an unmet prerequisite, left.                             *)
Dispatch(r) ==
  /\ GiveNotes(r)
  /\ taken' = [taken EXCEPT ![r] = <<>>]
  /\ Emit(r, [i \in DOMAIN taken[r] |-> "note"])
  /\ \/ /\ Go(r, "ready", "working")
        /\ late' = [late EXCEPT ![r] = IF wanted[r] THEN @ + 1 ELSE 0]
     \/ /\ Go(r, "ready", "deciding")
        /\ UNCHANGED late
  /\ UNCHANGED <<left, handleVars, asked, toggles, wanted>>

(* The attempts are over and the conductor evaluates the last of them.     *)
Decide(r) ==
  /\ Go(r, "working", "deciding")
  /\ Emit(r, <<"work">>)
  /\ UNCHANGED <<left, handleVars, taken, given, historyVars>>

Step(r) ==
  \/ Reach(r) \/ Finish(r)
  \/ DrainNotes(r) \/ Pass(r) \/ Park(r) \/ Unpark(r)
  \/ Dispatch(r) \/ Decide(r)

(* The task of the run is dropped, wherever it waits.                      *)
Drop(r) ==
  /\ pos[r] \in Live
  /\ pos' = [pos EXCEPT ![r] = "dropped"]
  /\ UNCHANGED <<left, handleVars, taken, given, stream, historyVars>>

(* The handle goes with the last of its owners.                            *)
Forget(r) ==
  /\ left' = [left EXCEPT ![r] = MaxSubtasks]
  /\ paused' = [paused EXCEPT ![r] = FALSE] /\ wanted' = [wanted EXCEPT ![r] = FALSE]
  /\ notes' = [notes EXCEPT ![r] = <<>>]
  /\ taken' = [taken EXCEPT ![r] = <<>>] /\ given' = [given EXCEPT ![r] = <<>>]
  /\ asked' = [asked EXCEPT ![r] = 0] /\ toggles' = [toggles EXCEPT ![r] = 0]
  /\ late' = [late EXCEPT ![r] = 0]
  /\ UNCHANGED <<pos, stream>>

OperatorNext ==
  \E r \in Runs :
    \/ Start(r) \/ Step(r) \/ Drop(r)
    \/ Pause(r) \/ Resume(r) \/ Interject(r)
    \/ pos[r] \in {"finished", "dropped"} /\ Forget(r)

(* The run makes progress; nobody has to start, drop or steer it.          *)
OperatorSpec ==
  /\ OperatorInit /\ [][OperatorNext]_operatorVars
  /\ \A r \in Runs : WF_operatorVars(Step(r))
-----------------------------------------------------------------------------
(* No note is lost, duplicated or reordered between the frame and the      *)
(* run, however frames and checkpoints interleave.                         *)
NotesInOrder ==
  \A r \in Runs : given[r] \o taken[r] \o notes[r] = [i \in 1 .. asked[r] |-> i]

(* A pause takes hold: until a resume at most one more subtask goes to     *)
(* work, the one whose checkpoint had already looked.                      *)
PauseTakesHold == \A r \in Runs : late[r] <= 1

(* Only its operator keeps a run parked: the resume is never missed, also  *)
(* one that comes before the run waits for it.                             *)
ParkedByOperator == \A r \in Runs : <>[](pos[r] = "parked") => <>[]wanted[r]

=============================================================================
