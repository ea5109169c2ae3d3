-------------------------------- MODULE Server --------------------------------
(***************************************************************************)
(* handle_session of core/src/server.rs, one per socket, over the run and  *)
(* the operator handle of module Operator.                                 *)
(*                                                                         *)
(* A session reads a first frame, takes the one permit, spawns the run and *)
(* waits for the run or the client, whichever comes first.  Events and the *)
(* terminal frame go through an unbounded channel to a writer task, of     *)
(* which only matters whether it holds a frame.  An agent child of the run *)
(* is gone when its call returns, and dies in its own time when the run is *)
(* dropped (module Session).                                               *)
(***************************************************************************)
EXTENDS Operator

CONSTANT NoSocket  \* nobody holds the permit

ASSUME NoSocketAssumption == NoSocket \notin Runs

Sockets == Runs

VARIABLES
  gone,       \* the client has gone
  handler,    \* where handle_session is
  permit,     \* whose session holds active_run
  agent,      \* a child of the run is alive
  sink,       \* the sender that is meant for the run is alive
  writer,     \* the writer task
  behind      \* the channel holds a frame

sessionVars == <<handler, permit>>
wireVars == <<gone, writer, behind>>
vars == <<operatorVars, sessionVars, agent, sink, wireVars>>

Serving == {"select", "aborting"}

TypeOK ==
  /\ OperatorTypeOK
  /\ gone \in [Sockets -> BOOLEAN]
  /\ handler \in [Sockets -> Serving \cup {"first", "reported", "ending", "closed"}]
  /\ permit \in Sockets \cup {NoSocket}
  /\ agent \in [Sockets -> BOOLEAN] /\ sink \in [Sockets -> BOOLEAN]
  /\ writer \in [Sockets -> {"off", "on", "ended"}]
  /\ behind \in [Sockets -> BOOLEAN]

Init ==
  /\ OperatorInit
  /\ gone = [s \in Sockets |-> FALSE]
  /\ handler = [s \in Sockets |-> "first"]
  /\ permit = NoSocket
  /\ agent = [s \in Sockets |-> FALSE] /\ sink = agent /\ behind = agent
  /\ writer = [s \in Sockets |-> "off"]

Handle(s, from, to) == handler[s] = from /\ handler' = [handler EXCEPT ![s] = to]
Say(s, frame) == Emit(s, <<frame>>) /\ behind' = [behind EXCEPT ![s] = TRUE]
unsteered == <<pos, left, handleVars, taken, given, historyVars>>
-----------------------------------------------------------------------------
(* The first frame. *)

(* No text, or no frame at all. *)
Leave(s) ==
  /\ Handle(s, "first", "closed")
  /\ UNCHANGED <<operatorVars, permit, agent, sink, wireVars>>

(* A frame that does not parse is answered without a writer.               *)
BadRequest(s) ==
  /\ ~gone[s]
  /\ Handle(s, "first", "closed")
  /\ Emit(s, <<"error">>)
  /\ UNCHANGED <<unsteered, permit, agent, sink, wireVars>>

(* Mutant of Refuse: the sender that no run got stays alive. *)
RefuseHoldingSink(s) ==
  /\ ~gone[s]
  /\ Handle(s, "first", "ending")
  /\ Say(s, "error")
  /\ writer' = [writer EXCEPT ![s] = "on"]
  /\ sink' = [sink EXCEPT ![s] = TRUE]
  /\ UNCHANGED <<unsteered, permit, agent, gone>>

(* A control frame, a bad cwd, or a run that is active already: the sender *)
(* meant for a run is dropped, an error is the terminal frame.             *)
Refuse(s) ==
  /\ ~gone[s]
  /\ Handle(s, "first", "ending")
  /\ Say(s, "error")
  /\ writer' = [writer EXCEPT ![s] = "on"]
  /\ UNCHANGED <<unsteered, permit, agent, sink, gone>>

(* Wherever a role is called, an agent may be started. *)
Calling == {"deciding", "working"}
CallAgents(s) == \E alive \in {FALSE, pos'[s] \in Calling} : agent' = [agent EXCEPT ![s] = alive]

Accept(s) ==
  /\ ~gone[s] /\ permit = NoSocket
  /\ Handle(s, "first", "select")
  /\ permit' = s
  /\ Start(s)
  /\ CallAgents(s)
  /\ sink' = [sink EXCEPT ![s] = TRUE]
  /\ writer' = [writer EXCEPT ![s] = "on"]
  /\ UNCHANGED <<gone, behind>>
-----------------------------------------------------------------------------
(* The run.  A call that has an agent returns without it.  The run moves   *)
(* until it is dropped: an abort takes hold at one of its next awaits.     *)
AgentExits(s) ==
  /\ agent[s]
  /\ agent' = [agent EXCEPT ![s] = FALSE]
  /\ UNCHANGED <<operatorVars, sessionVars, sink, wireVars>>

RunSteps(s) ==
  /\ handler[s] \in Serving /\ ~agent[s]
  /\ Step(s)
  /\ CallAgents(s)
  /\ sink' = [sink EXCEPT ![s] = pos'[s] \in Live]
  /\ behind' = [behind EXCEPT ![s] = @ \/ stream'[s] # stream[s]]
  /\ UNCHANGED <<sessionVars, gone, writer>>

(* The runtime drops an aborted run with its sink.                         *)
RunDropped(s) ==
  /\ handler[s] = "aborting"
  /\ Drop(s)
  /\ sink' = [sink EXCEPT ![s] = FALSE]
  /\ UNCHANGED <<sessionVars, agent, wireVars>>
-----------------------------------------------------------------------------
(* The select loop. *)
Steer(s) ==
  /\ handler[s] = "select" /\ ~gone[s]
  /\ Pause(s) \/ Resume(s) \/ Interject(s)
  /\ UNCHANGED <<sessionVars, agent, sink, wireVars>>

(* Mutant of Abort: the aborted run is not awaited. *)
AbortNoWait(s) ==
  /\ Handle(s, "select", "reported")
  /\ Say(s, "run_cancelled")
  /\ UNCHANGED <<unsteered, permit, agent, sink, gone, writer>>

(* A cancel frame, or the client left. *)
Abort(s) ==
  /\ Handle(s, "select", "aborting")
  /\ UNCHANGED <<operatorVars, permit, agent, sink, wireVars>>

(* Mutant of Report: the loop goes on. *)
ReportAndGoOn(s) ==
  /\ handler[s] = "select" /\ pos[s] = "finished"
  /\ \E frame \in {"run_complete", "run_error"} : Say(s, frame)
  /\ UNCHANGED <<unsteered, sessionVars, agent, sink, gone, writer>>

(* The run ended by itself, with an outcome, an error or a panic; *)
Report(s) ==
  /\ pos[s] = "finished"
  /\ Handle(s, "select", "reported")
  /\ \E frame \in {"run_complete", "run_error"} : Say(s, frame)
  /\ UNCHANGED <<unsteered, permit, agent, sink, gone, writer>>

(* or the aborted run is gone.  It may have finished just before.          *)
ReportCancelled(s) ==
  /\ pos[s] \in {"dropped", "finished"}
  /\ Handle(s, "aborting", "reported")
  /\ Say(s, "run_cancelled")
  /\ UNCHANGED <<unsteered, permit, agent, sink, gone, writer>>

(* Mutant of Release: the permit is kept until the writer has ended. *)
ReleaseLate(s) ==
  /\ writer[s] = "ended"
  /\ Handle(s, "reported", "ending")
  /\ permit' = NoSocket
  /\ Forget(s)
  /\ UNCHANGED <<agent, sink, wireVars>>

(* The permit goes first, then the last sender; then the writer is awaited. *)
Release(s) ==
  /\ Handle(s, "reported", "ending")
  /\ permit' = NoSocket
  /\ Forget(s)
  /\ UNCHANGED <<agent, sink, wireVars>>

Close(s) ==
  /\ writer[s] = "ended"
  /\ Handle(s, "ending", "closed")
  /\ UNCHANGED <<operatorVars, permit, agent, sink, wireVars>>
-----------------------------------------------------------------------------
(* The writer sends until the channel is closed and empty, or a send fails. *)
Deliver(s) ==
  /\ writer[s] = "on" /\ ~gone[s] /\ behind[s]
  /\ behind' = [behind EXCEPT ![s] = FALSE]
  /\ UNCHANGED <<operatorVars, sessionVars, agent, sink, gone, writer>>

WriterEnds(s) ==
  /\ writer[s] = "on"
  /\ \/ gone[s] /\ behind[s]
     \/ handler[s] = "ending" /\ ~sink[s] /\ ~behind[s]
  /\ writer' = [writer EXCEPT ![s] = "ended"]
  /\ UNCHANGED <<operatorVars, sessionVars, agent, sink, gone, behind>>

ClientGoes(s) ==
  /\ ~gone[s]
  /\ gone' = [gone EXCEPT ![s] = TRUE]
  /\ UNCHANGED <<operatorVars, sessionVars, agent, sink, writer, behind>>
-----------------------------------------------------------------------------
First(s) == Leave(s) \/ BadRequest(s) \/ Refuse(s) \/ Accept(s)
Run(s) == AgentExits(s) \/ RunSteps(s) \/ RunDropped(s)
Finalize(s) == Report(s) \/ ReportCancelled(s) \/ Release(s) \/ Close(s)
Notice(s) == gone[s] /\ Abort(s)

Next ==
  \E s \in Sockets :
    \/ First(s) \/ Run(s) \/ Finalize(s) \/ Deliver(s) \/ WriterEnds(s) \/ Steer(s) \/ Abort(s)
    \/ ClientGoes(s)

(* Tasks run and agents end; a session notices that its client is gone.    *)
(* Nobody has to send, read or cancel.                                     *)
Spec ==
  /\ Init /\ [][Next]_vars
  /\ \A s \in Sockets :
       /\ WF_vars(gone[s] /\ Leave(s)) /\ WF_vars(Notice(s)) /\ WF_vars(gone[s] /\ WriterEnds(s))
       /\ WF_vars(RunSteps(s)) /\ WF_vars(AgentExits(s)) /\ WF_vars(RunDropped(s))
       /\ WF_vars(Finalize(s))
-----------------------------------------------------------------------------
(* Two runs never edit the launch root at the same time, from the spawn to *)
(* the end or the drop of their tasks.                                     *)
OneRunAtATime ==
  \A s, t \in Sockets : pos[s] \in Live /\ pos[t] \in Live => s = t

(* A session says its last word once: no event follows the terminal frame, *)
(* and no session closes without it that got a request.                    *)
TerminalIsLast ==
  \A s \in Sockets :
    /\ \A i \in DOMAIN stream[s] : stream[s][i] \in Terminals => i = Len(stream[s])
    /\ handler[s] \in {"reported", "ending"} =>
         stream[s] # <<>> /\ stream[s][Len(stream[s])] \in Terminals

(* When a client is gone its session ends, whatever it was doing, and      *)
(* leaves neither the permit nor an agent behind.                          *)
LeavingFrees ==
  \A s \in Sockets :
    gone[s] ~> handler[s] = "closed" /\ permit # s /\ ~agent[s]

(* Only a pause keeps the server busy for ever: a client that does not     *)
(* read cannot.                                                            *)
PermitReturns == \A s \in Sockets : permit = s ~> (permit # s \/ wanted[s])

(* protocol.rs: agent child processes are killed before run_cancelled is   *)
(* sent.                                                                   *)
KilledBeforeCancelled ==
  \A s \in Sockets : "run_cancelled" \in {stream[s][i] : i \in DOMAIN stream[s]} => ~agent[s]
=============================================================================
