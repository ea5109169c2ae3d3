-------------------------------- MODULE Session --------------------------------
(***************************************************************************)
(* One agent session: sessions::spawn of core/src/sessions.rs and the      *)
(* run_to_completion of core/src/orchestrator/runner.rs that drives it.    *)
(*                                                                         *)
(* The child process writes lines and diagnostics into two pipes.  A       *)
(* reader task turns lines into events and sends them through a bounded    *)
(* channel; another task drains the diagnostics.  The runner collects the  *)
(* events under a time-out.  Whoever drops the reader task kills the       *)
(* child, sooner or later.                                                 *)
(***************************************************************************)
EXTENDS Naturals, Sequences, FiniteSets

CONSTANTS
  Lines,     \* what adapter.parse_line may make of a line: sequences of events
  Finals,    \* what adapter.parse_final may add at the end of the output
  Cap,       \* capacity of the event channel
  PipeCap,   \* lines a stdout pipe holds before the child blocks
  ErrCap,    \* diagnostics a stderr pipe holds before the child blocks
  MaxWrites  \* bound on the writes of the child

Event == {"usage", "zero_usage", "message", "completed", "failed"}
Terminal == {"completed", "failed"}
Report == {"usage", "zero_usage"}

ASSUME LinesAssumption == Lines \cup Finals \subseteq Seq(Event) /\ Finals # {}
ASSUME CapsAssumption == {Cap, PipeCap, ErrCap} \subseteq Nat \ {0} /\ MaxWrites \in Nat

VARIABLES
  child,      \* the process: it hangs when only a signal ends it
  want,       \* the write the child is blocked in
  stdout,     \* the lines in the pipe
  eof,        \* the child closed its stdout
  stderr,     \* number of diagnostics in the pipe
  exitOk,     \* status.success() of an exited child
  reader,     \* the reader task
  pending,    \* events of the current line not sent yet
  chan,       \* the event channel
  runner,     \* run_to_completion
  status,     \* its RunStatus
  collected,  \* its events
  estimated,  \* it recorded an estimate of its usage
  measured,   \* number of usage rows it recorded
  produced,   \* history: the events of the session, in order
  writes      \* writes the child still may start

childVars == <<child, want, stdout, eof, exitOk, writes>>
readerVars == <<reader, pending, produced>>
runnerVars == <<runner, status, collected, estimated, measured>>
vars == <<childVars, stderr, readerVars, chan, runnerVars>>

Alive == child \in {"running", "hung"}

TypeOK ==
  /\ child \in {"none", "running", "hung", "exited", "killed"}
  /\ want \in {"none", "line", "diagnostic"}
  /\ stdout \in Seq(Lines) /\ Len(stdout) <= PipeCap
  /\ stderr \in 0 .. ErrCap
  /\ eof \in BOOLEAN /\ exitOk \in BOOLEAN
  /\ reader \in {"none", "lines", "final", "exit", "last", "gone"}
  /\ pending \in Seq(Event)
  /\ chan \in Seq(Event) /\ Len(chan) <= Cap
  /\ runner \in {"spawn", "collect", "killing", "returned", "dropped"}
  /\ status \in {"none", "completed", "failed", "timed_out", "error"}
  /\ collected \in Seq(Event) /\ produced \in Seq(Event)
  /\ estimated \in BOOLEAN /\ measured \in Nat
  /\ writes \in 0 .. MaxWrites

Init ==
  /\ child = "none" /\ want = "none" /\ stdout = <<>> /\ eof = FALSE
  /\ exitOk = TRUE /\ writes = MaxWrites
  /\ stderr = 0
  /\ reader = "none" /\ pending = <<>> /\ produced = <<>>
  /\ chan = <<>>
  /\ runner = "spawn" /\ status = "none" /\ collected = <<>>
  /\ estimated = FALSE /\ measured = 0
-----------------------------------------------------------------------------
(* sessions::spawn: the child, its reader and the channel.                 *)
SpawnChild ==
  /\ runner = "spawn"
  /\ child' = "running" /\ reader' = "lines" /\ runner' = "collect"
  /\ UNCHANGED <<want, stdout, eof, exitOk, writes, stderr, pending, produced, chan,
                 status, collected, estimated, measured>>

(* A request both advisory and writing, or a program that does not start.  *)
SpawnFails ==
  /\ runner = "spawn"
  /\ runner' = "returned" /\ status' = "error"
  /\ UNCHANGED <<childVars, stderr, readerVars, chan, collected, estimated, measured>>

(* The child: it starts a write, is blocked in it while the pipe is full,  *)
(* may close its stdout early, may hang, and exits.                        *)
StartWrite ==
  /\ child = "running" /\ want = "none" /\ writes > 0
  /\ want' \in (IF eof THEN {"diagnostic"} ELSE {"line", "diagnostic"})
  /\ writes' = writes - 1
  /\ UNCHANGED <<child, stdout, eof, exitOk, stderr, readerVars, chan, runnerVars>>

WriteLine ==
  /\ child = "running" /\ want = "line"
  /\ Len(stdout) < PipeCap
  /\ \E line \in Lines : stdout' = Append(stdout, line)
  /\ want' = "none"
  /\ UNCHANGED <<child, eof, exitOk, writes, stderr, readerVars, chan, runnerVars>>

WriteDiagnostic ==
  /\ child = "running" /\ want = "diagnostic"
  /\ stderr < ErrCap
  /\ stderr' = stderr + 1
  /\ want' = "none"
  /\ UNCHANGED <<child, stdout, eof, exitOk, writes, readerVars, chan, runnerVars>>

CloseStdout ==
  /\ child = "running" /\ want = "none" /\ ~eof
  /\ eof' = TRUE
  /\ UNCHANGED <<child, want, stdout, exitOk, writes, stderr, readerVars, chan, runnerVars>>

Hang ==
  /\ child = "running"
  /\ child' = "hung"
  /\ UNCHANGED <<want, stdout, eof, exitOk, writes, stderr, readerVars, chan, runnerVars>>

Exit ==
  /\ child = "running" /\ want = "none"
  /\ child' = "exited"
  /\ exitOk' \in BOOLEAN
  /\ eof' = TRUE
  /\ UNCHANGED <<want, stdout, writes, stderr, readerVars, chan, runnerVars>>

Child == StartWrite \/ WriteLine \/ WriteDiagnostic \/ CloseStdout \/ Exit
-----------------------------------------------------------------------------
(* drain_stderr, concurrent with the reader.                               *)
Drain ==
  /\ stderr > 0
  /\ stderr' = stderr - 1
  /\ UNCHANGED <<childVars, readerVars, chan, runnerVars>>

(* The end of the reader task drops the child (kill_on_drop) and its end   *)
(* of the channel.                                                         *)
ReaderEnds ==
  /\ reader' = "gone"
  /\ pending' = <<>>
  /\ child' = IF Alive THEN "killed" ELSE child
  /\ eof' = TRUE
  /\ UNCHANGED <<want, stdout, exitOk, writes, produced>>

Listening == runner = "collect"

(* adapter.parse_line on the next line. *)
ReadLine ==
  /\ reader = "lines" /\ pending = <<>> /\ stdout # <<>>
  /\ pending' = Head(stdout)
  /\ produced' = produced \o Head(stdout)
  /\ stdout' = Tail(stdout)
  /\ UNCHANGED <<child, want, eof, exitOk, writes, stderr, reader, chan, runnerVars>>

(* The end of the output, then adapter.parse_final. *)
ReadEnd ==
  /\ reader = "lines" /\ pending = <<>> /\ stdout = <<>> /\ eof
  /\ \E final \in Finals : pending' = final /\ produced' = produced \o final
  /\ reader' = "final"
  /\ UNCHANGED <<childVars, stderr, chan, runnerVars>>

(* A line that is no UTF-8 ends the reading although the child goes on.    *)
ReadError ==
  /\ reader = "lines" /\ pending = <<>> /\ stdout # <<>>
  /\ stdout' = Tail(stdout)
  /\ \E final \in Finals : pending' = final /\ produced' = produced \o final
  /\ reader' = "final"
  /\ UNCHANGED <<child, want, eof, exitOk, writes, stderr, chan, runnerVars>>

(* tx.send(ev).await: it waits for room, and fails without a receiver.     *)
Send ==
  /\ pending # <<>> /\ Listening
  /\ Len(chan) < Cap
  /\ chan' = Append(chan, Head(pending))
  /\ pending' = Tail(pending)
  /\ UNCHANGED <<childVars, stderr, reader, produced, runnerVars>>

SendFails ==
  /\ pending # <<>> /\ ~Listening
  /\ ReaderEnds
  /\ UNCHANGED <<stderr, chan, runnerVars>>

SentFinal ==
  /\ reader = "final" /\ pending = <<>>
  /\ reader' = "exit"
  /\ UNCHANGED <<childVars, stderr, pending, produced, chan, runnerVars>>

(* The end of stderr and child.wait(): a bad exit is one more event.       *)
Reap ==
  /\ reader = "exit" /\ stderr = 0 /\ child = "exited"
  /\ \/ exitOk /\ reader' = "gone" /\ UNCHANGED <<pending, produced>>
     \/ ~exitOk /\ reader' = "last" /\ pending' = <<"failed">>
          /\ produced' = Append(produced, "failed")
  /\ UNCHANGED <<childVars, stderr, chan, runnerVars>>

SentLast ==
  /\ reader = "last" /\ pending = <<>>
  /\ ReaderEnds
  /\ UNCHANGED <<stderr, chan, runnerVars>>

Reader == ReadLine \/ ReadEnd \/ ReadError \/ Send \/ SendFails \/ SentFinal \/ Reap \/ SentLast
-----------------------------------------------------------------------------
(* Mutant of FirstOf: the last terminal event wins. *)
LastOf(ev) == IF ev \in Terminal THEN ev ELSE status

(* The first terminal event is authoritative. *)
FirstOf(ev) == IF status = "none" /\ ev \in Terminal THEN ev ELSE status

Collect ==
  /\ runner = "collect" /\ chan # <<>>
  /\ status' = FirstOf(Head(chan))
  /\ measured' = IF Head(chan) \in Report THEN measured + 1 ELSE measured
  /\ collected' = Append(collected, Head(chan))
  /\ chan' = Tail(chan)
  /\ UNCHANGED <<childVars, stderr, readerVars, runner, estimated>>

Collecting == runner = "collect" /\ ~(reader = "gone" /\ chan = <<>>)
HasUsage(events) == \E i \in DOMAIN events : events[i] = "usage"

(* Mutant of Finish: an event that reports no tokens counts as usage. *)
FinishBlind ==
  /\ runner = "collect" /\ reader = "gone" /\ chan = <<>>
  /\ runner' = "returned"
  /\ status' = IF status = "none" THEN "failed" ELSE status
  /\ estimated' = (status = "completed" /\ measured = 0)
  /\ UNCHANGED <<childVars, stderr, readerVars, chan, collected, measured>>

(* The channel is closed: no terminal event is a failure, and a completed  *)
(* run without usage is charged an estimate.                               *)
Finish ==
  /\ runner = "collect" /\ reader = "gone" /\ chan = <<>>
  /\ runner' = "returned"
  /\ status' = IF status = "none" THEN "failed" ELSE status
  /\ estimated' = (status = "completed" /\ ~HasUsage(collected))
  /\ UNCHANGED <<childVars, stderr, readerVars, chan, collected, measured>>

(* Mutant of TimeOut: the reader is aborted and not awaited. *)
TimeOutAtOnce ==
  /\ Collecting
  /\ runner' = "returned"
  /\ status' = "timed_out"
  /\ chan' = <<>> /\ collected' = <<>>
  /\ UNCHANGED <<childVars, stderr, readerVars, estimated, measured>>

(* The time-out drops the collecting future with the receiver and what it  *)
(* collected, aborts the reader and waits for its end.                     *)
TimeOut ==
  /\ Collecting
  /\ runner' = "killing"
  /\ status' = "timed_out"
  /\ chan' = <<>> /\ collected' = <<>>
  /\ UNCHANGED <<childVars, stderr, readerVars, estimated, measured>>

TimedOut ==
  /\ runner = "killing" /\ reader = "gone"
  /\ runner' = "returned"
  /\ UNCHANGED <<childVars, stderr, readerVars, chan, status, collected, estimated, measured>>

(* The caller is cancelled: the future of the run is dropped wherever it   *)
(* is, and ReaderTask::drop aborts the reader without waiting.             *)
Cancel ==
  /\ runner \in {"collect", "killing"}
  /\ runner' = "dropped"
  /\ chan' = <<>>
  /\ UNCHANGED <<childVars, stderr, readerVars, status, collected, estimated, measured>>

(* Mutant of Aborted: dropping the handle detaches the reader. *)
AbortedNever ==
  /\ runner = "killing" /\ reader # "gone"
  /\ ReaderEnds
  /\ UNCHANGED <<stderr, chan, runnerVars>>

(* The runtime cancels the aborted reader at an await. *)
Aborted ==
  /\ runner \in {"killing", "dropped"} /\ reader # "gone"
  /\ ReaderEnds
  /\ UNCHANGED <<stderr, chan, runnerVars>>

Runner == SpawnChild \/ SpawnFails \/ Collect \/ Finish \/ TimedOut

Next == Child \/ Hang \/ Drain \/ Reader \/ Runner \/ Aborted \/ TimeOut \/ Cancel

(* The child hangs, or writes to a reader that no longer reads. *)
Unattended == child = "hung" \/ (reader # "lines" /\ ~eof)

(* Tasks and a process that does not hang make progress; the clock is      *)
(* relied on for unattended children only, nobody has to cancel.           *)
Spec ==
  /\ Init /\ [][Next]_vars
  /\ WF_vars(Child) /\ WF_vars(Drain) /\ WF_vars(Reader) /\ WF_vars(Runner)
  /\ WF_vars(Aborted)
  /\ WF_vars(Unattended /\ TimeOut)
-----------------------------------------------------------------------------
Reports(events) == {i \in DOMAIN events : events[i] \in Report}
FirstTerminal(events) ==
  LET at == {i \in DOMAIN events : events[i] \in Terminal}
  IN  IF at = {} THEN "failed"
      ELSE events[CHOOSE i \in at : \A j \in at : i <= j]

(* When run_to_completion returns, by whatever path, its child is dead: it *)
(* cannot edit the tree while conduct starts the next attempt in it.       *)
ReturnsWithoutChild == runner = "returned" => ~Alive

(* Neither backpressure nor the exit of the child loses, duplicates or     *)
(* reorders an event, and the status is the first terminal one: a bad exit *)
(* after a Completed does not turn it into a failure.                      *)
FirstTerminalWins ==
  runner = "returned" /\ status \notin {"timed_out", "error"} =>
    collected = produced /\ status = FirstTerminal(produced)

(* A completed run is never invisible to the quota and never charged       *)
(* twice: its events are estimated exactly when none of them reports       *)
(* tokens, and each report is recorded once.                               *)
ChargedOnce ==
  runner = "returned" =>
    /\ status = "completed" => (estimated <=> ~HasUsage(produced))
    /\ status # "completed" => ~estimated
    /\ status \notin {"timed_out", "error"} =>
         measured = Cardinality(Reports(produced))

(* Every session ends and its child with it: no full pipe or channel       *)
(* stalls them, an unattended child is killed by the time-out, and the     *)
(* child of a cancelled run does not go on.                                *)
Ends == <>(runner \in {"returned", "dropped"} /\ ~Alive)
=============================================================================
