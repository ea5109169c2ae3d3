-------------------------------- MODULE Screen --------------------------------
(***************************************************************************)
(* The session of the browser: ui/src/session/useSession.ts owns a socket  *)
(* or the timers of a demo and folds what they deliver with reducer.ts;    *)
(* table/tableState.ts derives the table from the result.                  *)
(*                                                                         *)
(* JavaScript callbacks run one at a time, in any order the sockets, the   *)
(* resolution of the address (runtime.ts) and the timers come to; what a   *)
(* former start set going may come after the next.  A run is told by the   *)
(* number of its start.  A server sends events and, last, one terminal     *)
(* frame (Server has its side).                                            *)
(***************************************************************************)
EXTENDS Naturals, FiniteSets

CONSTANTS
  MaxStarts,  \* bound on the starts, demos and resets
  MaxFrames   \* bound on the frames of a run before the terminal one

ASSUME ScreenAssumption == {MaxStarts, MaxFrames} \subseteq Nat

Starts == 1 .. MaxStarts

VARIABLES
  generation,  \* startGenerationRef
  socket,      \* the socket of each start
  attached,    \* the sockets whose handlers are set
  current,     \* wsRef: 0 for none
  timers,      \* frames a demo still has to deliver, of each start
  sentBy,      \* frames the server of each start has sent; it is over at MaxFrames + 1
  view,        \* SessionState
  controls     \* history: the sockets that control frames were sent on

screenVars == <<generation, socket, attached, current, timers, sentBy, view, controls>>
wireVars == <<socket, attached, current, timers, sentBy>>

Blank == [phase |-> "idle", connection |-> "idle", ended |-> "none", paused |-> FALSE,
          error |-> FALSE, from |-> {}]

ScreenInit ==
  /\ generation = 0 /\ current = 0 /\ view = Blank
  /\ socket = [g \in Starts |-> "none"] /\ attached = {}
  /\ timers = [g \in Starts |-> 0] /\ sentBy = [g \in Starts |-> 0] /\ controls = {}
-----------------------------------------------------------------------------
(* sessionReducer.  A frame of start g: *)
Frames == {"event", "paused", "resumed"}
Terminal == {"run_complete", "run_cancelled", "run_error", "error"}

Fold(g, frame) ==
  LET v == [view EXCEPT !.from = @ \cup {g}] IN
  CASE frame = "run_complete" ->
         [v EXCEPT !.phase = "done", !.ended = "complete", !.error = FALSE, !.paused = FALSE]
    [] frame = "run_cancelled" ->
         [v EXCEPT !.phase = "done", !.ended = "cancelled", !.error = FALSE, !.paused = FALSE]
    [] frame = "run_error" -> [v EXCEPT !.phase = "errored", !.error = TRUE, !.paused = FALSE]
    [] frame = "error" -> [v EXCEPT !.phase = "errored", !.error = TRUE]
    [] frame \in {"paused", "resumed"} -> [v EXCEPT !.paused = frame = "paused"]
    [] frame = "event" -> v

(* A frame that does not parse and an error of the socket leave a run that *)
(* is done as it is.                                                       *)
Spoil(g) ==
  [view EXCEPT !.from = @ \cup {g}, !.error = TRUE,
               !.phase = IF @ = "done" THEN "done" ELSE "errored"]
-----------------------------------------------------------------------------
(* Mutant of Detach: close() alone. *)
DetachNothing == UNCHANGED attached

(* teardown: handlers first, because closing takes its time. *)
Detach == attached' = attached \ {current}

Teardown ==
  /\ generation < MaxStarts /\ generation' = generation + 1
  /\ Detach
  /\ current' = 0
  /\ UNCHANGED sentBy

StartRun ==
  /\ Teardown
  /\ socket' = [socket EXCEPT ![generation'] = "resolving"]
  /\ timers' = [g \in Starts |-> 0]
  /\ view' = [Blank EXCEPT !.phase = "running", !.connection = "connecting"]
  /\ UNCHANGED controls

StartDemo ==
  /\ Teardown
  /\ timers' = [g \in Starts |-> IF g = generation' THEN MaxFrames + 1 ELSE 0]
  /\ view' = [Blank EXCEPT !.phase = "running", !.connection = "open"]
  /\ UNCHANGED <<socket, controls>>

ResetRun ==
  /\ Teardown
  /\ timers' = [g \in Starts |-> 0]
  /\ view' = Blank
  /\ UNCHANGED <<socket, controls>>

(* The address is resolved, at once or after polling the desktop shell.    *)
Wanted(g) == g = generation

AddressKnown(g) ==
  /\ socket[g] = "resolving"
  /\ IF Wanted(g)
       THEN /\ socket' = [socket EXCEPT ![g] = "connecting"]
            /\ attached' = attached \cup {g} /\ current' = g
       ELSE /\ socket' = [socket EXCEPT ![g] = "dropped"]
            /\ UNCHANGED <<attached, current>>
  /\ UNCHANGED <<generation, timers, sentBy, view, controls>>

Show(g, seen) == view' = IF g \in attached THEN seen ELSE view

SocketOpens(g) ==
  /\ socket[g] = "connecting" /\ socket' = [socket EXCEPT ![g] = "open"]
  /\ Show(g, [view EXCEPT !.connection = "open", !.from = @ \cup {g}])
  /\ UNCHANGED <<generation, attached, current, timers, sentBy, controls>>

(* onmessage.  The server sends nothing after a terminal frame. *)
FrameArrives(g) ==
  /\ socket[g] = "open" /\ sentBy[g] <= MaxFrames
  /\ \/ /\ sentBy[g] < MaxFrames /\ sentBy' = [sentBy EXCEPT ![g] = @ + 1]
        /\ \/ \E frame \in Frames : Show(g, Fold(g, frame))
           \/ Show(g, Spoil(g))
     \/ /\ sentBy' = [sentBy EXCEPT ![g] = MaxFrames + 1]
        /\ \E frame \in Terminal : Show(g, Fold(g, frame))
  /\ UNCHANGED <<generation, socket, attached, current, timers, controls>>

SocketFails(g) ==
  /\ socket[g] \in {"connecting", "open"} /\ socket' = [socket EXCEPT ![g] = "failing"]
  /\ Show(g, [Spoil(g) EXCEPT !.connection = "error"])
  /\ UNCHANGED <<generation, attached, current, timers, sentBy, controls>>

SocketCloses(g) ==
  /\ socket[g] \in {"open", "failing"} /\ socket' = [socket EXCEPT ![g] = "closed"]
  /\ Show(g, [view EXCEPT !.connection = "closed", !.from = @ \cup {g}])
  /\ UNCHANGED <<generation, attached, current, timers, sentBy, controls>>

(* A timer of a demo, whose frames end with run_complete. *)
DemoFrame(g) ==
  /\ timers[g] > 0 /\ timers' = [timers EXCEPT ![g] = @ - 1]
  /\ view' = Fold(g, IF timers[g] = 1 THEN "run_complete" ELSE "event")
  /\ UNCHANGED <<generation, socket, attached, current, sentBy, controls>>

(* cancel, pause, resume and interject: only on an open socket. *)
SendControl ==
  /\ current # 0 /\ socket[current] = "open"
  /\ controls' = controls \cup {current}
  /\ UNCHANGED <<generation, wireVars, view>>
-----------------------------------------------------------------------------
ScreenNext ==
  \/ StartRun \/ StartDemo \/ ResetRun \/ SendControl
  \/ \E g \in Starts :
       AddressKnown(g) \/ SocketOpens(g) \/ FrameArrives(g) \/ SocketFails(g)
       \/ SocketCloses(g) \/ DemoFrame(g)

ScreenSpec == ScreenInit /\ [][ScreenNext]_screenVars
-----------------------------------------------------------------------------
(* deriveVerdict of table/tableState.ts: "complete" stands for what the    *)
(* terminal frame says, completed, failed or halted.                       *)
Verdict(v) ==
  IF v.ended # "none" THEN v.ended ELSE IF v.phase = "errored" THEN "failed" ELSE "open"

(* What is on screen is the run that was started last, and all it says     *)
(* agrees: nothing a former start set going, its socket, its address or    *)
(* its timers, ever shows; a run that is done stays done, is not on hold   *)
(* and has a verdict, whatever its socket does then; one that is not has   *)
(* none.                                                                   *)
ScreenIsThisRun ==
  /\ view.from \subseteq {generation}
  /\ controls \subseteq attached \cup {g \in Starts : g < generation}
  /\ view.phase = "done" <=> view.ended # "none"
  /\ view.phase = "done" => ~view.paused /\ Verdict(view) \in {"complete", "cancelled"}
================================================================================
