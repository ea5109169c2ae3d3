----------------------------- MODULE ServerProofs -----------------------------
(***************************************************************************)
(* Safety of the operator handle, alone and under the sessions of the      *)
(* server, for any number of sockets, subtasks, notes and pauses.          *)
(***************************************************************************)
EXTENDS Server, SequenceTheorems, TLAPS

(* A run under way has used up a dispatch; a subtask that slipped past a   *)
(* pause is the last until the resume.                                     *)
PauseInv(r) ==
  /\ pos[r] \in {"boundary", "drained", "parked", "ready", "working"} => left[r] < MaxSubtasks
  /\ wanted[r] = paused[r]
  /\ late[r] > 0 => wanted[r] /\ pos[r] # "ready"
  /\ late[r] <= 1

(* Drained notes are on their way from the drain to the dispatch.          *)
NotesInv(r) ==
  /\ taken[r] # <<>> => pos[r] \in {"drained", "parked", "ready", "dropped"}
  /\ given[r] \o (taken[r] \o notes[r]) = [i \in 1 .. asked[r] |-> i]

HandleInv == \A r \in Runs : PauseInv(r) /\ NotesInv(r)
-----------------------------------------------------------------------------
(* One step of one run: what it leaves alone of the others.                *)
Apart(r) ==
  \A q \in Runs \ {r} :
    /\ pos'[q] = pos[q] /\ left'[q] = left[q] /\ paused'[q] = paused[q]
    /\ notes'[q] = notes[q] /\ taken'[q] = taken[q] /\ given'[q] = given[q]
    /\ asked'[q] = asked[q] /\ wanted'[q] = wanted[q] /\ late'[q] = late[q]

LEMMA Others ==
  ASSUME NEW r \in Runs, Apart(r), PauseInv(r)', NotesInv(r)', HandleInv
  PROVE  HandleInv'
<1>1. ASSUME NEW q \in Runs \ {r} PROVE PauseInv(q)' /\ NotesInv(q)'
  BY <1>1 DEF Apart, HandleInv, PauseInv, NotesInv
<1> QED
  BY <1>1 DEF HandleInv

Notes == 1 .. MaxNotes

LEMMA OwnTypes ==
  ASSUME NEW r \in Runs, OperatorTypeOK
  PROVE  /\ pos[r] \in Live \cup {"none", "finished", "dropped"}
         /\ left[r] \in 0 .. MaxSubtasks /\ late[r] \in 0 .. MaxSubtasks
         /\ paused[r] \in BOOLEAN /\ wanted[r] \in BOOLEAN
         /\ {notes[r], taken[r], given[r]} \subseteq Seq(Notes)
         /\ stream[r] \in Seq(Events \cup Terminals)
         /\ asked[r] \in 0 .. MaxNotes /\ toggles[r] \in 0 .. MaxToggles
         /\ {MaxSubtasks, MaxNotes, MaxToggles} \subseteq Nat
  BY BoundsAssumption DEF OperatorTypeOK, Notes

LEMMA HandleInit == OperatorInit => OperatorTypeOK /\ HandleInv
<1> SUFFICES ASSUME OperatorInit PROVE OperatorTypeOK /\ HandleInv
  OBVIOUS
<1>1. OperatorTypeOK
  BY BoundsAssumption DEF OperatorInit, OperatorTypeOK, None, Live
<1>2. ASSUME NEW r \in Runs PROVE PauseInv(r) /\ NotesInv(r)
  <2>1. <<>> \o (<<>> \o <<>>) = [i \in 1 .. 0 |-> i]
    OBVIOUS
  <2> QED
    BY <2>1 DEF OperatorInit, PauseInv, NotesInv, None
<1> QED
  BY <1>1, <1>2 DEF HandleInv
-----------------------------------------------------------------------------
LEMMA ToggleKeeps ==
  ASSUME NEW r \in Runs, NEW value \in BOOLEAN, OperatorTypeOK, HandleInv, Toggle(r, value)
  PROVE  OperatorTypeOK' /\ HandleInv'
<1>1. /\ paused' = [paused EXCEPT ![r] = value] /\ wanted' = [wanted EXCEPT ![r] = value]
      /\ late' = [late EXCEPT ![r] = IF wanted[r] = value THEN @ ELSE 0]
      /\ toggles' = [toggles EXCEPT ![r] = @ + 1] /\ toggles[r] < MaxToggles
      /\ UNCHANGED <<pos, left, notes, taken, given, stream, asked>>
  BY DEF Toggle, SetPaused
<1>2. /\ toggles[r] + 1 \in 0 .. MaxToggles
      /\ (IF wanted[r] = value THEN late[r] ELSE 0) \in 0 .. MaxSubtasks
  BY <1>1, OwnTypes
<1>3. OperatorTypeOK'
  BY <1>1, <1>2 DEF OperatorTypeOK
<1>4. Apart(r)
  BY <1>1 DEF OperatorTypeOK, Apart
<1>5. /\ paused'[r] = value /\ wanted'[r] = value
      /\ late'[r] = IF wanted[r] = value THEN late[r] ELSE 0
  BY <1>1 DEF OperatorTypeOK
<1>6. PauseInv(r)'
  BY <1>1, <1>5, OwnTypes DEF HandleInv, PauseInv
<1>7. NotesInv(r)'
  BY <1>1 DEF HandleInv, NotesInv
<1> QED
  BY <1>3, <1>4, <1>6, <1>7, Others

LEMMA Assoc ==
  ASSUME NEW a \in Seq(Notes), NEW b \in Seq(Notes), NEW c \in Seq(Notes)
  PROVE  (a \o b) \o c = a \o (b \o c)
  BY ConcatAssociative

(* Appending at the end of three sequences appends to the last.            *)
LEMMA AppendToLast ==
  ASSUME NEW a \in Seq(Notes), NEW b \in Seq(Notes), NEW c \in Seq(Notes), NEW e \in Notes
  PROVE  a \o (b \o Append(c, e)) = Append(a \o (b \o c), e)
<1>1. <<e>> \in Seq(Notes) /\ Append(c, e) = c \o <<e>>
  BY AppendIsConcat
<1>2. b \o c \in Seq(Notes) /\ b \o (c \o <<e>>) = (b \o c) \o <<e>>
  BY <1>1, ConcatAssociative, ConcatProperties
<1>3. a \o (b \o c) \in Seq(Notes)
  BY <1>2, ConcatProperties
<1>4. a \o ((b \o c) \o <<e>>) = (a \o (b \o c)) \o <<e>>
  BY <1>1, <1>2, ConcatAssociative
<1>5. Append(a \o (b \o c), e) = (a \o (b \o c)) \o <<e>>
  BY <1>3, AppendIsConcat
<1> QED
  BY <1>1, <1>2, <1>4, <1>5

LEMMA InterjectKeeps ==
  ASSUME NEW r \in Runs, OperatorTypeOK, HandleInv, Interject(r)
  PROVE  OperatorTypeOK' /\ HandleInv'
<1> DEFINE n == asked[r] + 1
           all == given[r] \o (taken[r] \o notes[r])
<1>1. /\ asked' = [asked EXCEPT ![r] = n] /\ notes' = [notes EXCEPT ![r] = Append(@, n)]
      /\ asked[r] < MaxNotes
      /\ UNCHANGED <<pos, left, paused, taken, given, stream, toggles, wanted, late>>
  BY DEF Interject
<1>2. n \in Notes /\ asked[r] \in Nat /\ n \in 0 .. MaxNotes
  BY <1>1, OwnTypes DEF Notes
<1>3. Append(notes[r], n) \in Seq(1 .. MaxNotes)
  BY <1>2, OwnTypes, AppendProperties DEF Notes
<1>4. notes' \in [Runs -> Seq(1 .. MaxNotes)]
  BY <1>1, <1>3 DEF OperatorTypeOK
<1>5. OperatorTypeOK'
  BY <1>1, <1>2, <1>4 DEF OperatorTypeOK
<1>6. Apart(r)
  BY <1>1 DEF OperatorTypeOK, Apart
<1>7. asked'[r] = n /\ notes'[r] = Append(notes[r], n)
  BY <1>1 DEF OperatorTypeOK
<1>8. PauseInv(r)'
  BY <1>1 DEF HandleInv, PauseInv
<1>9. NotesInv(r)'
  <2>1. given[r] \o (taken[r] \o Append(notes[r], n)) = Append(all, n)
    <3>1. given[r] \in Seq(Notes) /\ taken[r] \in Seq(Notes) /\ notes[r] \in Seq(Notes)
      BY OwnTypes
    <3> QED
      BY <1>2, <3>1, AppendToLast, Zenon
  <2>2. all = [i \in 1 .. asked[r] |-> i]
    BY DEF HandleInv, NotesInv
  <2>3. Append([i \in 1 .. asked[r] |-> i], n) = [i \in 1 .. n |-> i]
    BY <1>2
  <2>4. taken'[r] # <<>> => pos'[r] \in {"drained", "parked", "ready", "dropped"}
    BY <1>1 DEF HandleInv, NotesInv
  <2> QED
    BY <1>1, <1>7, <2>1, <2>2, <2>3, <2>4 DEF NotesInv
<1> QED
  BY <1>5, <1>6, <1>8, <1>9, Others
-----------------------------------------------------------------------------
LEMMA EmitTyped ==
  ASSUME NEW r \in Runs, OperatorTypeOK, NEW said \in Seq(Events \cup Terminals), Emit(r, said)
  PROVE  stream' \in [Runs -> Seq(Events \cup Terminals)]
<1>1. stream[r] \o said \in Seq(Events \cup Terminals)
  BY OwnTypes, ConcatProperties
<1> QED
  BY <1>1 DEF Emit, OperatorTypeOK

(* A step of a run that only moves it.                                     *)
LEMMA MoveKeeps ==
  ASSUME NEW r \in Runs, OperatorTypeOK, HandleInv,
         NEW to \in Live \cup {"none", "finished", "dropped"}, NEW n \in 0 .. MaxSubtasks,
         pos' = [pos EXCEPT ![r] = to], left' = [left EXCEPT ![r] = n],
         UNCHANGED <<handleVars, taken, given, historyVars>>,
         stream' \in [Runs -> Seq(Events \cup Terminals)],
         to \in {"boundary", "drained", "parked", "ready", "working"} => n < MaxSubtasks,
         taken[r] # <<>> => to \in {"drained", "parked", "ready", "dropped"},
         late[r] > 0 => to # "ready"
  PROVE  OperatorTypeOK' /\ HandleInv'
<1>1. UNCHANGED <<paused, notes, taken, given, asked, toggles, wanted, late>>
  BY DEF handleVars, historyVars
<1>2. OperatorTypeOK'
  BY <1>1 DEF OperatorTypeOK
<1>3. Apart(r)
  BY <1>1 DEF OperatorTypeOK, Apart
<1>4. pos'[r] = to /\ left'[r] = n
  BY DEF OperatorTypeOK
<1>5. PauseInv(r)'
  BY <1>1, <1>4 DEF HandleInv, PauseInv
<1>6. NotesInv(r)'
  BY <1>1, <1>4 DEF HandleInv, NotesInv
<1> QED
  BY <1>2, <1>3, <1>5, <1>6, Others

LEMMA StartKeeps ==
  ASSUME NEW r \in Runs, OperatorTypeOK, HandleInv, Start(r) \/ Finish(r) \/ Drop(r)
  PROVE  OperatorTypeOK' /\ HandleInv'
<1>1. PICK to \in {"deciding", "finished", "dropped"} :
        /\ pos' = [pos EXCEPT ![r] = to]
        /\ pos[r] \in {"none", "deciding", "working"} \/ to = "dropped"
        /\ UNCHANGED <<left, handleVars, taken, given, stream, historyVars>>
  BY DEF Start, Finish, Drop, Go
<1>2. left' = [left EXCEPT ![r] = left[r]] /\ stream' \in [Runs -> Seq(Events \cup Terminals)]
  BY <1>1 DEF OperatorTypeOK
<1>3. taken[r] # <<>> => to = "dropped"
  BY <1>1 DEF HandleInv, NotesInv
<1> QED
  BY <1>1, <1>2, <1>3, OwnTypes, MoveKeeps DEF Live

LEMMA ReachKeeps ==
  ASSUME NEW r \in Runs, OperatorTypeOK, HandleInv, Reach(r)
  PROVE  OperatorTypeOK' /\ HandleInv'
<1>1. /\ pos[r] = "deciding" /\ pos' = [pos EXCEPT ![r] = "boundary"]
      /\ left[r] > 0 /\ left' = [left EXCEPT ![r] = left[r] - 1]
      /\ UNCHANGED <<handleVars, taken, given, stream, historyVars>>
  BY DEF Reach, Go
<1>2. stream' \in [Runs -> Seq(Events \cup Terminals)]
  BY <1>1 DEF OperatorTypeOK
<1>3. left[r] - 1 \in 0 .. MaxSubtasks /\ left[r] - 1 < MaxSubtasks /\ "boundary" \in Live
  BY <1>1, OwnTypes DEF Live
<1>4. taken[r] = <<>>
  BY <1>1 DEF HandleInv, NotesInv
<1> QED
  BY <1>1, <1>2, <1>3, <1>4, MoveKeeps

LEMMA ParkKeeps ==
  ASSUME NEW r \in Runs, OperatorTypeOK, HandleInv, Pass(r) \/ Park(r) \/ Unpark(r)
  PROVE  OperatorTypeOK' /\ HandleInv'
<1>1. PICK to \in {"ready", "parked"}, said \in {<<>>, <<"paused">>, <<"resumed">>} :
        /\ pos[r] \in {"drained", "parked"} /\ pos' = [pos EXCEPT ![r] = to]
        /\ to = "ready" => ~paused[r]
        /\ (said = <<>> /\ stream' = stream) \/ Emit(r, said)
        /\ UNCHANGED <<left, handleVars, taken, given, historyVars>>
  BY DEF Pass, Park, Unpark, Go
<1>2. said \in Seq(Events \cup Terminals)
  <2>1. {<<>>, <<"paused">>, <<"resumed">>} \subseteq Seq(Events \cup Terminals)
    <3>1. "paused" \in Events \cup Terminals /\ "resumed" \in Events \cup Terminals
      BY DEF Events
    <3> QED
      BY <3>1
  <2> QED
    BY <2>1
<1>3. stream' \in [Runs -> Seq(Events \cup Terminals)]
  BY <1>1, <1>2, EmitTyped DEF OperatorTypeOK
<1>4. left' = [left EXCEPT ![r] = left[r]] /\ left[r] < MaxSubtasks
  BY <1>1 DEF OperatorTypeOK, HandleInv, PauseInv
<1>5. late[r] > 0 => to # "ready"
  BY <1>1 DEF HandleInv, PauseInv
<1>6. left[r] \in 0 .. MaxSubtasks /\ to \in Live
  BY OwnTypes DEF Live
<1> QED
  BY <1>1, <1>3, <1>4, <1>5, <1>6, MoveKeeps

LEMMA DecideKeeps ==
  ASSUME NEW r \in Runs, OperatorTypeOK, HandleInv, Decide(r)
  PROVE  OperatorTypeOK' /\ HandleInv'
<1>1. /\ pos[r] = "working" /\ pos' = [pos EXCEPT ![r] = "deciding"]
      /\ Emit(r, <<"work">>)
      /\ UNCHANGED <<left, handleVars, taken, given, historyVars>>
  BY DEF Decide, Go
<1>2. <<"work">> \in Seq(Events \cup Terminals)
  BY DEF Events
<1>3. stream' \in [Runs -> Seq(Events \cup Terminals)]
  BY <1>1, <1>2, EmitTyped
<1>4. left' = [left EXCEPT ![r] = left[r]] /\ taken[r] = <<>>
  BY <1>1 DEF OperatorTypeOK, HandleInv, NotesInv
<1>5. left[r] \in 0 .. MaxSubtasks /\ "deciding" \in Live
  BY OwnTypes DEF Live
<1> QED
  BY <1>1, <1>3, <1>4, <1>5, MoveKeeps

LEMMA DrainKeeps ==
  ASSUME NEW r \in Runs, OperatorTypeOK, HandleInv, DrainNotes(r)
  PROVE  OperatorTypeOK' /\ HandleInv'
<1>1. /\ pos[r] = "boundary" /\ pos' = [pos EXCEPT ![r] = "drained"]
      /\ taken' = [taken EXCEPT ![r] = notes[r]] /\ notes' = [notes EXCEPT ![r] = <<>>]
      /\ UNCHANGED <<left, paused, given, stream, asked, toggles, wanted, late>>
  BY DEF DrainNotes, Go, historyVars
<1>2. OperatorTypeOK'
  <2>1. notes[r] \in Seq(1 .. MaxNotes) /\ <<>> \in Seq(1 .. MaxNotes)
    BY DEF OperatorTypeOK
  <2>2. {notes', taken', given'} \subseteq [Runs -> Seq(1 .. MaxNotes)]
    BY <1>1, <2>1 DEF OperatorTypeOK
  <2> QED
    BY <1>1, <2>2 DEF OperatorTypeOK, Live
<1>3. Apart(r)
  BY <1>1 DEF OperatorTypeOK, Apart
<1>4. pos'[r] = "drained" /\ taken'[r] = notes[r] /\ notes'[r] = <<>>
  BY <1>1 DEF OperatorTypeOK
<1>5. PauseInv(r)'
  BY <1>1, <1>4 DEF HandleInv, PauseInv
<1>6. NotesInv(r)'
  <2>1. taken[r] = <<>> /\ notes[r] \in Seq(Notes)
    BY <1>1, OwnTypes DEF HandleInv, NotesInv
  <2>2. <<>> \o notes[r] = notes[r] /\ notes[r] \o <<>> = notes[r]
    BY <2>1, ConcatEmptySeq
  <2>3. given[r] \o notes[r] = [i \in 1 .. asked[r] |-> i]
    BY <2>1, <2>2, Zenon DEF HandleInv, NotesInv
  <2>4. given'[r] \o (taken'[r] \o notes'[r]) = [i \in 1 .. asked'[r] |-> i]
    BY <1>1, <1>4, <2>2, <2>3, Zenon
  <2> QED
    BY <1>4, <2>4, Zenon DEF NotesInv
<1> QED
  BY <1>2, <1>3, <1>5, <1>6, Others

LEMMA DispatchKeeps ==
  ASSUME NEW r \in Runs, OperatorTypeOK, HandleInv, Dispatch(r)
  PROVE  OperatorTypeOK' /\ HandleInv'
<1> DEFINE echo == [i \in DOMAIN taken[r] |-> "note"]
<1>1. /\ given' = [given EXCEPT ![r] = given[r] \o taken[r]]
      /\ taken' = [taken EXCEPT ![r] = <<>>] /\ Emit(r, echo)
      /\ pos[r] = "ready"
      /\ UNCHANGED <<left, paused, notes, asked, toggles, wanted>>
  BY DEF Dispatch, GiveNotes, Go, handleVars
<1>2. late[r] = 0 /\ left[r] < MaxSubtasks
  BY <1>1, OwnTypes DEF HandleInv, PauseInv
<1>3. PICK to \in {"working", "deciding"}, n \in {0, 1} :
        /\ pos' = [pos EXCEPT ![r] = to] /\ late' = [late EXCEPT ![r] = n]
        /\ n = 1 => wanted[r]
  <2>1. late = [late EXCEPT ![r] = 0]
    BY <1>2 DEF OperatorTypeOK
  <2>2. CASE pos' = [pos EXCEPT ![r] = "deciding"] /\ late' = late
    BY <2>1, <2>2
  <2>3. CASE /\ pos' = [pos EXCEPT ![r] = "working"]
             /\ late' = [late EXCEPT ![r] = IF wanted[r] THEN late[r] + 1 ELSE 0]
    <3>1. late' = [late EXCEPT ![r] = IF wanted[r] THEN 1 ELSE 0]
      BY <1>2, <2>3
    <3>2. CASE wanted[r]
      <4>1. late' = [late EXCEPT ![r] = 1]
        BY <3>1, <3>2, Zenon
      <4> QED
        BY <2>3, <3>2, <4>1, Zenon
    <3>3. CASE ~wanted[r]
      <4>1. late' = [late EXCEPT ![r] = 0]
        BY <3>1, <3>3, Zenon
      <4>2. 0 # 1
        OBVIOUS
      <4> QED
        BY <2>3, <4>1, <4>2, Zenon
    <3> QED
      BY <3>2, <3>3
  <2> QED
    BY <2>2, <2>3 DEF Dispatch, Go
<1>4. n \in 0 .. MaxSubtasks /\ n <= 1
  BY <1>2, <1>3, OwnTypes
<1>5. given[r] \in Seq(Notes) /\ taken[r] \in Seq(Notes) /\ notes[r] \in Seq(Notes)
  BY OwnTypes
<1>6. stream' \in [Runs -> Seq(Events \cup Terminals)]
  <2>1. echo \in Seq(Events \cup Terminals)
    BY <1>5 DEF Events
  <2> QED
    BY <1>1, <2>1, EmitTyped
<1>7. OperatorTypeOK'
  <2>1. given[r] \o taken[r] \in Seq(1 .. MaxNotes)
    BY <1>5, ConcatProperties DEF Notes
  <2>2. given' \in [Runs -> Seq(1 .. MaxNotes)] /\ taken' \in [Runs -> Seq(1 .. MaxNotes)]
    BY <1>1, <2>1 DEF OperatorTypeOK
  <2> QED
    BY <1>1, <1>3, <1>4, <1>6, <2>2 DEF OperatorTypeOK, Live
<1>8. Apart(r)
  BY <1>1, <1>3 DEF OperatorTypeOK, Apart
<1>9. /\ given'[r] = given[r] \o taken[r] /\ taken'[r] = <<>>
      /\ pos'[r] = to /\ late'[r] = n
  BY <1>1, <1>3 DEF OperatorTypeOK
<1>10. PauseInv(r)'
  BY <1>1, <1>2, <1>3, <1>4, <1>9 DEF HandleInv, PauseInv
<1>11. NotesInv(r)'
  <2>1. <<>> \o notes[r] = notes[r]
    BY <1>5, ConcatEmptySeq
  <2>2. (given[r] \o taken[r]) \o notes[r] = given[r] \o (taken[r] \o notes[r])
    BY <1>5, Assoc, Zenon
  <2>3. given'[r] \o (taken'[r] \o notes'[r]) = [i \in 1 .. asked'[r] |-> i]
    BY <1>1, <1>9, <2>1, <2>2, Zenon DEF HandleInv, NotesInv
  <2> QED
    BY <1>9, <2>3, Zenon DEF NotesInv
<1> QED
  BY <1>7, <1>8, <1>10, <1>11, Others

LEMMA ForgetKeeps ==
  ASSUME NEW r \in Runs, OperatorTypeOK, HandleInv, Forget(r), pos[r] \in {"finished", "dropped"}
  PROVE  OperatorTypeOK' /\ HandleInv'
<1>1. OperatorTypeOK'
  <2>1. MaxSubtasks \in 0 .. MaxSubtasks /\ 0 \in 0 .. MaxSubtasks /\ 0 \in 0 .. MaxNotes
        /\ 0 \in 0 .. MaxToggles /\ <<>> \in Seq(1 .. MaxNotes)
    BY BoundsAssumption
  <2>2. {notes', taken', given'} \subseteq [Runs -> Seq(1 .. MaxNotes)]
    BY <2>1 DEF OperatorTypeOK, Forget
  <2> QED
    BY <2>1, <2>2 DEF OperatorTypeOK, Forget
<1>2. Apart(r)
  BY DEF OperatorTypeOK, Apart, Forget
<1>3. /\ pos'[r] \in {"finished", "dropped"} /\ paused'[r] = FALSE /\ wanted'[r] = FALSE
      /\ late'[r] = 0
      /\ notes'[r] = <<>> /\ taken'[r] = <<>> /\ given'[r] = <<>> /\ asked'[r] = 0
  BY DEF OperatorTypeOK, Forget
<1>4. PauseInv(r)'
  <2>1. ~(late'[r] > 0) /\ late'[r] <= 1
    BY <1>3
  <2>2. wanted'[r] = paused'[r]
    BY <1>3, Zenon
  <2>3. pos'[r] \notin {"boundary", "drained", "parked", "ready", "working"}
    BY <1>3
  <2> QED
    BY <2>1, <2>2, <2>3, Zenon DEF PauseInv
<1>5. NotesInv(r)'
  <2>1. <<>> \o (<<>> \o <<>>) = [i \in 1 .. 0 |-> i]
    OBVIOUS
  <2> QED
    BY <1>3, <2>1 DEF NotesInv
<1> QED
  BY <1>1, <1>2, <1>4, <1>5, Others

(* Every step that the operator module allows.                             *)
LEMMA HandleStep ==
  ASSUME OperatorTypeOK, HandleInv, [OperatorNext]_operatorVars
  PROVE  OperatorTypeOK' /\ HandleInv'
<1>1. CASE UNCHANGED operatorVars
  BY <1>1 DEF operatorVars, handleVars, historyVars, OperatorTypeOK, HandleInv, PauseInv, NotesInv
<1>2. CASE OperatorNext
  <2>1. PICK r \in Runs :
          \/ Start(r) \/ Step(r) \/ Drop(r)
          \/ Pause(r) \/ Resume(r) \/ Interject(r)
          \/ pos[r] \in {"finished", "dropped"} /\ Forget(r)
    BY <1>2 DEF OperatorNext
  <2>2. CASE Step(r)
    BY <2>2, StartKeeps, ReachKeeps, DrainKeeps, ParkKeeps, DispatchKeeps, DecideKeeps DEF Step
  <2>3. CASE Pause(r) \/ Resume(r)
    BY <2>3, ToggleKeeps DEF Pause, Resume
  <2> QED
    BY <2>1, <2>2, <2>3, StartKeeps, InterjectKeeps, ForgetKeeps
<1> QED
  BY <1>1, <1>2

THEOREM OperatorInvariant == OperatorSpec => [](OperatorTypeOK /\ HandleInv)
<1>1. OperatorTypeOK /\ HandleInv /\ [OperatorNext]_operatorVars => (OperatorTypeOK /\ HandleInv)'
  BY HandleStep
<1> QED
  BY <1>1, HandleInit, PTL DEF OperatorSpec

LEMMA HandleImplies == OperatorTypeOK /\ HandleInv => NotesInOrder /\ PauseTakesHold
<1> SUFFICES ASSUME OperatorTypeOK, HandleInv PROVE NotesInOrder /\ PauseTakesHold
  OBVIOUS
<1>1. ASSUME NEW r \in Runs
      PROVE  given[r] \o taken[r] \o notes[r] = [i \in 1 .. asked[r] |-> i]
  <2>1. given[r] \in Seq(Notes) /\ taken[r] \in Seq(Notes) /\ notes[r] \in Seq(Notes)
    BY OwnTypes
  <2>2. (given[r] \o taken[r]) \o notes[r] = given[r] \o (taken[r] \o notes[r])
    BY <2>1, Assoc, Zenon
  <2> QED
    BY <2>2, Zenon DEF HandleInv, NotesInv
<1> QED
  BY <1>1 DEF NotesInOrder, PauseTakesHold, HandleInv, PauseInv

(* Each note reaches the run once and in the order of the frames.          *)
THEOREM OperatorKeepsNotes == OperatorSpec => []NotesInOrder
  BY OperatorInvariant, HandleImplies, PTL

(* After a pause at most one more subtask goes to work.                    *)
THEOREM OperatorPauses == OperatorSpec => []PauseTakesHold
  BY OperatorInvariant, HandleImplies, PTL
-----------------------------------------------------------------------------
(* The sessions of the server.                                             *)
Quiet(s) == \A i \in DOMAIN stream[s] : stream[s][i] \notin Terminals
Once(s)  == \A i \in DOMAIN stream[s] : stream[s][i] \in Terminals => i = Len(stream[s])
Spoke(s) == stream[s] # <<>> /\ stream[s][Len(stream[s])] \in Terminals

(* A run lives in a session that serves, which holds the permit.           *)
PermitInv(s) ==
  /\ pos[s] \in Live => handler[s] \in Serving
  /\ handler[s] \in Serving \cup {"reported"} => permit = s
  /\ handler[s] = "reported" => pos[s] \in {"finished", "dropped"}

(* A session says nothing final until it reports, and then nothing.        *)
WordInv(s) ==
  /\ handler[s] \in {"first"} \cup Serving => Quiet(s)
  /\ handler[s] \in {"reported", "ending"} => Spoke(s)
  /\ Once(s)

SessionInv == \A s \in Sockets : PermitInv(s) /\ WordInv(s)

ServerInv == TypeOK /\ HandleInv /\ SessionInv

LEMMA SessionInit == Init => SessionInv
<1> SUFFICES ASSUME Init, NEW s \in Sockets PROVE PermitInv(s) /\ WordInv(s)
  BY DEF SessionInv
<1>1. pos[s] = "none" /\ handler[s] = "first" /\ stream[s] = <<>>
  BY DEF Init, OperatorInit, None, Sockets
<1> QED
  BY <1>1 DEF PermitInv, WordInv, Quiet, Once, Live, Serving

LEMMA WorkIsQuiet ==
  ASSUME NEW s \in Runs, OperatorTypeOK, Quiet(s), NEW said \in Seq(Events), Emit(s, said)
  PROVE  Quiet(s)' /\ Once(s)'
<1>1. stream'[s] = stream[s] \o said
  BY DEF Emit, OperatorTypeOK
<1>2. stream[s] \in Seq(Events \cup Terminals) /\ said \in Seq(Events \cup Terminals)
  BY OwnTypes
<1>3. ASSUME NEW i \in DOMAIN (stream[s] \o said) PROVE (stream[s] \o said)[i] \notin Terminals
  <2>1. i \in 1 .. Len(stream[s]) + Len(said)
    BY <1>2, ConcatProperties
  <2>2. CASE i <= Len(stream[s])
    BY <1>2, <2>1, <2>2, ConcatProperties DEF Quiet
  <2>3. CASE i > Len(stream[s])
    <3>1. (stream[s] \o said)[i] = said[i - Len(stream[s])] /\ i - Len(stream[s]) \in 1 .. Len(said)
      BY <1>2, <2>1, <2>3, ConcatProperties
    <3>2. (stream[s] \o said)[i] \in Events
      BY <3>1
    <3> QED
      BY <3>2 DEF Events, Terminals
  <2> QED
    BY <1>2, <2>1, <2>2, <2>3
<1> QED
  BY <1>1, <1>3 DEF Quiet, Once

LEMMA LastWord ==
  ASSUME NEW s \in Runs, OperatorTypeOK, Quiet(s), NEW frame \in Terminals, Emit(s, <<frame>>)
  PROVE  Spoke(s)' /\ Once(s)'
<1>1. stream'[s] = stream[s] \o <<frame>>
  BY DEF Emit, OperatorTypeOK
<1>2. stream[s] \in Seq(Events \cup Terminals)
  BY OwnTypes
<1> DEFINE more == stream[s] \o <<frame>>
           n == Len(stream[s]) + 1
<1>3. Len(more) = n /\ DOMAIN more = 1 .. n /\ more[n] = frame /\ n \in Nat \ {0}
      /\ \A i \in 1 .. Len(stream[s]) : more[i] = stream[s][i]
  BY <1>2
<1>4. more # <<>>
  BY <1>3
<1>5. \A i \in DOMAIN more : more[i] \in Terminals => i = n
  BY <1>2, <1>3 DEF Quiet
<1> QED
  BY <1>1, <1>3, <1>4, <1>5 DEF Spoke, Once

(* A step of one session leaves the others alone, and a permit that        *)
(* another session holds.                                                  *)
Alone(s) ==
  \A t \in Sockets \ {s} :
    /\ pos'[t] = pos[t] /\ stream'[t] = stream[t] /\ handler'[t] = handler[t]
    /\ permit = t => permit' = t

LEMMA OtherSessions ==
  ASSUME NEW s \in Sockets, Alone(s), PermitInv(s)', WordInv(s)', SessionInv
  PROVE  SessionInv'
<1>1. ASSUME NEW t \in Sockets \ {s} PROVE PermitInv(t)' /\ WordInv(t)'
  BY <1>1 DEF Alone, SessionInv, PermitInv, WordInv, Quiet, Once, Spoke
<1> QED
  BY <1>1 DEF SessionInv

(* What a step of a run shows of itself.                                   *)
LEMMA StepShows ==
  ASSUME NEW r \in Runs, OperatorTypeOK, Step(r)
  PROVE  /\ pos[r] \in Live
         /\ \E to \in Live \cup {"finished"} : pos' = [pos EXCEPT ![r] = to]
         /\ stream' = stream \/ \E said \in Seq(Events) : Emit(r, said)
<1>1. CASE Reach(r) \/ Finish(r) \/ DrainNotes(r) \/ Pass(r)
  BY <1>1 DEF Reach, Finish, DrainNotes, Pass, Go, Live
<1>2. CASE Park(r) \/ Unpark(r) \/ Decide(r)
  <2>1. <<"paused">> \in Seq(Events) /\ <<"resumed">> \in Seq(Events) /\ <<"work">> \in Seq(Events)
    BY DEF Events
  <2> QED
    BY <1>2, <2>1 DEF Park, Unpark, Decide, Go, Live
<1>3. CASE Dispatch(r)
  <2>1. [i \in DOMAIN taken[r] |-> "note"] \in Seq(Events)
    BY OwnTypes DEF Events
  <2> QED
    BY <1>3, <2>1 DEF Dispatch, Go, Live
<1> QED
  BY <1>1, <1>2, <1>3 DEF Step
-----------------------------------------------------------------------------
LEMMA LeaveKeeps ==
  ASSUME NEW s \in Sockets, TypeOK, SessionInv, Leave(s) \/ Close(s) \/ Abort(s)
  PROVE  SessionInv'
<1>1. PICK to \in {"closed", "aborting"} :
        /\ handler' = [handler EXCEPT ![s] = to]
        /\ to = "aborting" => handler[s] = "select"
        /\ to = "closed" => handler[s] \in {"first", "ending"}
        /\ UNCHANGED <<pos, stream, permit>>
  BY DEF Leave, Close, Abort, Handle, operatorVars
<1>2. handler'[s] = to /\ Alone(s)
  BY <1>1 DEF TypeOK, Alone
<1>3. PermitInv(s)' /\ WordInv(s)'
  BY <1>1, <1>2 DEF SessionInv, PermitInv, WordInv, Quiet, Once, Spoke, Serving
<1> QED
  BY <1>2, <1>3, OtherSessions

(* A session speaks its terminal frame.                                    *)
LEMMA SpeakKeeps ==
  ASSUME NEW s \in Sockets, TypeOK, SessionInv,
         BadRequest(s) \/ Refuse(s) \/ Report(s) \/ ReportCancelled(s)
  PROVE  SessionInv'
<1>1. PICK to \in {"closed", "ending", "reported"}, frame \in Terminals :
        /\ handler[s] \in {"first"} \cup Serving /\ handler' = [handler EXCEPT ![s] = to]
        /\ handler[s] = "first" <=> to # "reported"
        /\ to = "reported" => pos[s] \in {"finished", "dropped"}
        /\ Emit(s, <<frame>>)
        /\ UNCHANGED <<pos, permit>>
  BY DEF BadRequest, Refuse, Report, ReportCancelled, Handle, Say, unsteered, Terminals, Serving
<1>2. handler'[s] = to /\ OperatorTypeOK /\ s \in Runs
  BY <1>1 DEF TypeOK, Sockets
<1>3. Alone(s)
  BY <1>1, <1>2 DEF TypeOK, OperatorTypeOK, Alone, Emit, Sockets
<1>4. Quiet(s)
  BY <1>1 DEF SessionInv, WordInv
<1>5. Spoke(s)' /\ Once(s)'
  BY <1>1, <1>2, <1>4, LastWord
<1>6. PermitInv(s)' /\ WordInv(s)'
  BY <1>1, <1>2, <1>5 DEF SessionInv, PermitInv, WordInv, Serving, Live
<1> QED
  BY <1>3, <1>6, OtherSessions

LEMMA AcceptKeeps ==
  ASSUME NEW s \in Sockets, TypeOK, SessionInv, Accept(s)
  PROVE  SessionInv'
<1>1. /\ permit = NoSocket /\ permit' = s
      /\ handler[s] = "first" /\ handler' = [handler EXCEPT ![s] = "select"]
      /\ pos' = [pos EXCEPT ![s] = "deciding"] /\ stream' = stream
  BY DEF Accept, Handle, Start, Go
<1>2. handler'[s] = "select"
  BY <1>1 DEF TypeOK
<1>3. Alone(s)
  BY <1>1, NoSocketAssumption DEF TypeOK, OperatorTypeOK, Alone, Sockets
<1>4. PermitInv(s)' /\ WordInv(s)'
  BY <1>1, <1>2 DEF SessionInv, PermitInv, WordInv, Quiet, Once, Spoke, Serving
<1> QED
  BY <1>3, <1>4, OtherSessions

LEMMA ReleaseKeeps ==
  ASSUME NEW s \in Sockets, TypeOK, SessionInv, Release(s)
  PROVE  SessionInv'
<1>1. /\ permit' = NoSocket
      /\ handler[s] = "reported" /\ handler' = [handler EXCEPT ![s] = "ending"]
      /\ UNCHANGED <<pos, stream>>
  BY DEF Release, Handle, Forget
<1>2. handler'[s] = "ending" /\ permit = s
  BY <1>1 DEF TypeOK, SessionInv, PermitInv
<1>3. Alone(s)
  BY <1>1, <1>2 DEF TypeOK, Alone
<1>4. PermitInv(s)' /\ WordInv(s)'
  BY <1>1, <1>2 DEF SessionInv, PermitInv, WordInv, Quiet, Once, Spoke, Serving, Live
<1> QED
  BY <1>3, <1>4, OtherSessions

LEMMA RunKeeps ==
  ASSUME NEW s \in Sockets, TypeOK, SessionInv, RunSteps(s) \/ RunDropped(s)
  PROVE  SessionInv'
<1>1. OperatorTypeOK /\ s \in Runs
  BY DEF TypeOK, Sockets
<1>2. PICK to \in Live \cup {"finished", "dropped"} :
        /\ pos' = [pos EXCEPT ![s] = to]
        /\ handler[s] \in Serving /\ UNCHANGED <<handler, permit>>
        /\ stream' = stream \/ \E said \in Seq(Events) : Emit(s, said)
  <2>1. CASE RunSteps(s)
    <3>1. Step(s) /\ handler[s] \in Serving /\ UNCHANGED <<handler, permit>>
      BY <2>1 DEF RunSteps, sessionVars
    <3> QED
      BY <1>1, <3>1, StepShows
  <2>2. CASE RunDropped(s)
    BY <2>2 DEF RunDropped, Drop, sessionVars, Serving
  <2> QED
    BY <2>1, <2>2
<1>3. Alone(s)
  BY <1>1, <1>2 DEF OperatorTypeOK, Alone, Emit, Sockets
<1>4. Quiet(s) /\ Once(s)
  BY <1>2 DEF SessionInv, WordInv
<1>5. Quiet(s)' /\ Once(s)'
  <2>1. CASE stream' = stream
    BY <1>4, <2>1 DEF Quiet, Once
  <2>2. CASE \E said \in Seq(Events) : Emit(s, said)
    BY <1>1, <1>4, <2>2, WorkIsQuiet
  <2> QED
    BY <1>2, <2>1, <2>2
<1>6. PermitInv(s)' /\ WordInv(s)'
  BY <1>2, <1>5 DEF SessionInv, PermitInv, WordInv, Serving
<1> QED
  BY <1>3, <1>6, OtherSessions

LEMMA SessionStep ==
  ASSUME TypeOK, SessionInv, [Next]_vars
  PROVE  SessionInv'
<1>1. CASE UNCHANGED <<pos, stream, handler, permit>>
  BY <1>1 DEF SessionInv, PermitInv, WordInv, Quiet, Once, Spoke
<1>2. CASE Next
  <2>1. PICK s \in Sockets :
          \/ First(s) \/ Run(s) \/ Finalize(s) \/ Deliver(s) \/ WriterEnds(s) \/ Steer(s)
          \/ Abort(s) \/ ClientGoes(s)
    BY <1>2 DEF Next
  <2>2. CASE First(s) \/ Finalize(s) \/ Abort(s)
    BY <2>2, LeaveKeeps, SpeakKeeps, AcceptKeeps, ReleaseKeeps DEF First, Finalize
  <2>3. CASE RunSteps(s) \/ RunDropped(s)
    BY <2>3, RunKeeps
  <2>4. CASE AgentExits(s) \/ Deliver(s) \/ WriterEnds(s) \/ Steer(s) \/ ClientGoes(s)
    BY <1>1, <2>4 DEF AgentExits, Deliver, WriterEnds, Steer, ClientGoes, Pause, Resume,
                      Toggle, Interject, operatorVars, sessionVars
  <2> QED
    BY <2>1, <2>2, <2>3, <2>4 DEF Run
<1> QED
  BY <1>1, <1>2 DEF vars, operatorVars, sessionVars
-----------------------------------------------------------------------------
(* To its operator handle a session does what module Operator allows, up   *)
(* to the terminal frame.                                                  *)
LEMMA ServerSteers ==
  ASSUME TypeOK, SessionInv, [Next]_vars
  PROVE  \/ [OperatorNext]_operatorVars
         \/ UNCHANGED unsteered /\ stream' \in [Runs -> Seq(Events \cup Terminals)]
<1>1. CASE UNCHANGED operatorVars
  BY <1>1
<1>2. CASE Next
  <2>1. PICK s \in Runs :
          \/ First(s) \/ Run(s) \/ Finalize(s) \/ Deliver(s) \/ WriterEnds(s) \/ Steer(s)
          \/ Abort(s) \/ ClientGoes(s)
    BY <1>2 DEF Next, Sockets
  <2>2. CASE Accept(s) \/ RunSteps(s) \/ RunDropped(s) \/ Steer(s)
    BY <2>2 DEF Accept, RunSteps, RunDropped, Steer, OperatorNext
  <2>3. CASE Release(s)
    <3>1. Forget(s) /\ pos[s] \in {"finished", "dropped"}
      BY <2>3 DEF Release, Handle, SessionInv, PermitInv, Sockets
    <3> QED
      BY <3>1 DEF OperatorNext
  <2>4. CASE BadRequest(s) \/ Refuse(s) \/ Report(s) \/ ReportCancelled(s)
    <3>1. PICK frame \in Terminals : Emit(s, <<frame>>) /\ UNCHANGED unsteered
      BY <2>4 DEF BadRequest, Refuse, Report, ReportCancelled, Say, Terminals
    <3>2. OperatorTypeOK /\ <<frame>> \in Seq(Events \cup Terminals)
      BY DEF TypeOK
    <3> QED
      BY <3>1, <3>2, EmitTyped
  <2>5. CASE \/ Leave(s) \/ AgentExits(s) \/ Close(s) \/ Deliver(s) \/ WriterEnds(s)
             \/ Abort(s) \/ ClientGoes(s)
    BY <1>1, <2>5 DEF Leave, AgentExits, Close, Deliver, WriterEnds, Abort, ClientGoes
  <2> QED
    BY <2>1, <2>2, <2>3, <2>4, <2>5 DEF First, Run, Finalize
<1> QED
  BY <1>1, <1>2 DEF vars

LEMMA SaidOnly ==
  ASSUME OperatorTypeOK, HandleInv, UNCHANGED unsteered,
         stream' \in [Runs -> Seq(Events \cup Terminals)]
  PROVE  OperatorTypeOK' /\ HandleInv'
  BY DEF OperatorTypeOK, HandleInv, PauseInv, NotesInv, unsteered, handleVars, historyVars

WireTypeOK ==
  /\ gone \in [Sockets -> BOOLEAN]
  /\ handler \in [Sockets -> Serving \cup {"first", "reported", "ending", "closed"}]
  /\ permit \in Sockets \cup {NoSocket}
  /\ agent \in [Sockets -> BOOLEAN] /\ sink \in [Sockets -> BOOLEAN]
  /\ writer \in [Sockets -> {"off", "on", "ended"}]
  /\ behind \in [Sockets -> BOOLEAN]

LEMMA WireStep ==
  ASSUME WireTypeOK, [Next]_vars
  PROVE  WireTypeOK'
<1>1. CASE UNCHANGED vars
  BY <1>1 DEF WireTypeOK, vars, sessionVars, wireVars
<1>2. CASE Next
  <2>1. PICK s \in Sockets :
          \/ First(s) \/ Run(s) \/ Finalize(s) \/ Deliver(s) \/ WriterEnds(s) \/ Steer(s)
          \/ Abort(s) \/ ClientGoes(s)
    BY <1>2 DEF Next
  <2>2. CASE Leave(s) \/ BadRequest(s) \/ Refuse(s) \/ Abort(s)
    BY <2>2 DEF Leave, BadRequest, Refuse, Abort, Handle, Say, WireTypeOK, Serving, wireVars
  <2>3. CASE Accept(s)
    <3>1. PICK alive \in BOOLEAN : agent' = [agent EXCEPT ![s] = alive]
      <4>1. (pos'[s] \in Calling) \in BOOLEAN
        OBVIOUS
      <4>2. {FALSE, pos'[s] \in Calling} \subseteq BOOLEAN
        BY <4>1, Zenon
      <4>3. \E alive \in {FALSE, pos'[s] \in Calling} : agent' = [agent EXCEPT ![s] = alive]
        BY <2>3, Zenon DEF Accept, CallAgents
      <4> QED
        BY <4>2, <4>3, Zenon
    <3> QED
      BY <2>3, <3>1 DEF Accept, Handle, WireTypeOK, Serving
  <2>4. CASE RunSteps(s)
    <3>1. PICK alive \in BOOLEAN : agent' = [agent EXCEPT ![s] = alive]
      <4>1. (pos'[s] \in Calling) \in BOOLEAN
        OBVIOUS
      <4>2. {FALSE, pos'[s] \in Calling} \subseteq BOOLEAN
        BY <4>1, Zenon
      <4>3. \E alive \in {FALSE, pos'[s] \in Calling} : agent' = [agent EXCEPT ![s] = alive]
        BY <2>4, Zenon DEF RunSteps, CallAgents
      <4> QED
        BY <4>2, <4>3, Zenon
    <3>2. PICK live \in BOOLEAN : sink' = [sink EXCEPT ![s] = live]
      <4>1. (pos'[s] \in Live) \in BOOLEAN
        OBVIOUS
      <4>2. sink' = [sink EXCEPT ![s] = pos'[s] \in Live]
        BY <2>4, Zenon DEF RunSteps
      <4> QED
        BY <4>1, <4>2, Zenon
    <3>3. PICK more \in BOOLEAN : behind' = [behind EXCEPT ![s] = more]
      <4>1. (behind[s] \/ stream'[s] # stream[s]) \in BOOLEAN
        OBVIOUS
      <4> QED
        BY <2>4, <4>1 DEF RunSteps
    <3> QED
      BY <2>4, <3>1, <3>2, <3>3 DEF RunSteps, WireTypeOK, sessionVars
  <2>5. CASE AgentExits(s) \/ RunDropped(s) \/ Steer(s)
    BY <2>5 DEF AgentExits, RunDropped, Steer, WireTypeOK, sessionVars, wireVars
  <2>6. CASE Finalize(s)
    BY <2>6 DEF Finalize, Report, ReportCancelled, Release, Close, Handle, Say, WireTypeOK,
                Serving, wireVars
  <2>7. CASE Deliver(s) \/ WriterEnds(s) \/ ClientGoes(s)
    BY <2>7 DEF Deliver, WriterEnds, ClientGoes, WireTypeOK, sessionVars
  <2> QED
    BY <2>1, <2>2, <2>3, <2>4, <2>5, <2>6, <2>7 DEF First, Run
<1> QED
  BY <1>1, <1>2

LEMMA TypeParts == TypeOK <=> OperatorTypeOK /\ WireTypeOK
  BY DEF TypeOK, WireTypeOK

THEOREM ServerInvariant == Spec => []ServerInv
<1>1. Init => ServerInv
  <2>1. Init => WireTypeOK
    BY DEF Init, WireTypeOK, Serving
  <2> QED
    BY <2>1, HandleInit, SessionInit, TypeParts DEF Init, ServerInv
<1>2. ServerInv /\ [Next]_vars => ServerInv'
  <2> SUFFICES ASSUME ServerInv, [Next]_vars PROVE ServerInv'
    OBVIOUS
  <2>1. SessionInv'
    BY SessionStep DEF ServerInv
  <2>2. WireTypeOK'
    BY WireStep, TypeParts DEF ServerInv
  <2>3. OperatorTypeOK' /\ HandleInv'
    BY ServerSteers, HandleStep, SaidOnly, TypeParts DEF ServerInv
  <2>4. TypeOK'
    BY <2>2, <2>3 DEF TypeOK, WireTypeOK
  <2> QED
    BY <2>1, <2>3, <2>4 DEF ServerInv
<1> QED
  BY <1>1, <1>2, PTL DEF Spec

(* Sessions, runs and handles keep their types.                            *)
THEOREM ServerTypes == Spec => []TypeOK
<1>1. ServerInv => TypeOK
  BY DEF ServerInv
<1> QED
  BY <1>1, ServerInvariant, PTL

(* However sockets come and go, at most one run is under way.              *)
THEOREM ServerRunsOne == Spec => []OneRunAtATime
<1>1. ServerInv => OneRunAtATime
  BY DEF ServerInv, SessionInv, PermitInv, OneRunAtATime
<1> QED
  BY <1>1, ServerInvariant, PTL

(* A session ends with one terminal frame, which nothing follows.          *)
THEOREM ServerTerminalLast == Spec => []TerminalIsLast
<1>1. ServerInv => TerminalIsLast
  BY DEF ServerInv, SessionInv, WordInv, Once, Spoke, TerminalIsLast
<1> QED
  BY <1>1, ServerInvariant, PTL

(* The promises of the operator handle hold under the server: a session    *)
(* neither loses a note nor lets a run go on through a pause.              *)
THEOREM ServerKeepsHandle == Spec => [](NotesInOrder /\ PauseTakesHold)
<1>1. ServerInv => NotesInOrder /\ PauseTakesHold
  BY HandleImplies, TypeParts DEF ServerInv
<1> QED
  BY <1>1, ServerInvariant, PTL
=============================================================================
