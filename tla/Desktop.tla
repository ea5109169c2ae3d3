-------------------------------- MODULE Desktop --------------------------------
(***************************************************************************)
(* The server inside the desktop shell: start_server of                    *)
(* desktop/src-tauri/src/server_lifecycle.rs, called at launch for a saved *)
(* workspace (lib.rs) and for every workspace the user picks, and          *)
(* get_server_state, which the user interface polls (commands.rs).         *)
(*                                                                         *)
(* Calls are asynchronous commands: several may be under way.  A call is a *)
(* number; the task that serves and the slot are told by their call.       *)
(***************************************************************************)
EXTENDS Naturals

CONSTANT MaxCalls   \* bound on the calls of start_server

VARIABLES
  starting,  \* where each call is
  task,      \* the task that serves, of each call
  slot,      \* DesktopState.server, 0 for none
  faulted    \* the calls whose error is recorded

desktopVars == <<starting, task, slot, faulted>>

StartCalls == 1 .. MaxCalls

DesktopTypeOK ==
  /\ starting \in [StartCalls -> {"none", "cleared", "bound", "returned", "failed"}]
  /\ task \in [StartCalls -> {"none", "up", "aborted", "died"}]
  /\ slot \in {0} \cup StartCalls
  /\ faulted \subseteq StartCalls

DesktopInit ==
  /\ starting = [c \in StartCalls |-> "none"] /\ task = [c \in StartCalls |-> "none"]
  /\ slot = 0 /\ faulted = {}

(* start_server aborts what is in the slot, and leaves it there, *)
AbortPrevious(c) ==
  /\ starting[c] = "none" /\ starting' = [starting EXCEPT ![c] = "cleared"]
  /\ task' = [x \in StartCalls |-> IF x = slot /\ task[x] = "up" THEN "aborted" ELSE task[x]]
  /\ UNCHANGED <<slot, faulted>>

(* reads the configuration, opens the quota store and binds a listener,    *)
(* any of which may fail, *)
Bind(c) ==
  /\ starting[c] = "cleared"
  /\ \E to \in {"bound", "failed"} : starting' = [starting EXCEPT ![c] = to]
  /\ UNCHANGED <<task, slot, faulted>>

(* spawns the task and takes the slot. *)
Publish(c) ==
  /\ starting[c] = "bound" /\ starting' = [starting EXCEPT ![c] = "returned"]
  /\ task' = [task EXCEPT ![c] = "up"]
  /\ slot' = c
  /\ UNCHANGED faulted

(* serve_on ends with an error or a panic, and the watcher records it.  An *)
(* aborted task is no error.                                               *)
Die(c) ==
  /\ task[c] = "up" /\ task' = [task EXCEPT ![c] = "died"]
  /\ UNCHANGED <<starting, slot, faulted>>

Watch(c) ==
  /\ task[c] = "died" /\ faulted' = faulted \cup {c}
  /\ UNCHANGED <<starting, task, slot>>

(* get_server_state, which changes nothing: the call whose URL it returns. *)
ServerUrl == IF slot \in faulted THEN 0 ELSE slot

DesktopNext ==
  \E c \in StartCalls : AbortPrevious(c) \/ Bind(c) \/ Publish(c) \/ Die(c) \/ Watch(c)

DesktopSpec == DesktopInit /\ [][DesktopNext]_desktopVars
-----------------------------------------------------------------------------
(* commands.rs: "don't hand the UI a dead URL".  Once no start is under    *)
(* way and whatever died was noticed, the URL that is handed out is that   *)
(* of a task that serves.                                                  *)
NoDeadUrl ==
  \/ \E c \in StartCalls : starting[c] \in {"cleared", "bound"}
  \/ \E c \in StartCalls \ faulted : task[c] = "died"
  \/ ServerUrl # 0 => task[ServerUrl] = "up"

(* A failed start is the only way to it: if no start failed the URL is of  *)
(* a task that serves, however many starts overlapped.                     *)
DeadUrlNeedsFailure == NoDeadUrl \/ \E c \in StartCalls : starting[c] = "failed"
================================================================================
