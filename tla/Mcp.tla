--------------------------------- MODULE Mcp ---------------------------------
(***************************************************************************)
(* The tools of core/src/mcp.rs that run models: run_worker, review_diff.  *)
(*                                                                         *)
(* A host calls them as it likes, several at a time and several in one     *)
(* directory; the calls share the health of the models.  A worker edits    *)
(* the tree as it runs, at every rung it comes to; its report shows the    *)
(* changes of the tree and what the verification commands found.           *)
(***************************************************************************)
EXTENDS Evidence, FiniteSets

CONSTANTS
  Calls,       \* calls of the host
  Dirs,        \* directories inside the launch root
  ToolLadder,  \* the ladder of the worker and of the reviewer, longest to be
  GivenLabels, \* the labels the configuration gives a command for
  MaxEffects   \* bound on the effects of each call on its tree

ASSUME ToolAssumption ==
  /\ DOMAIN ToolLadder = {"worker", "reviewer"}
  /\ GivenLabels \subseteq {"build", "test", "lint"} /\ MaxEffects \in Nat

VARIABLES
  at,        \* where each call is
  request,   \* what was asked, and where
  toolRung,  \* the rung it is at
  down,      \* the shared health: models known dead
  edited,    \* the uncommitted edits of each directory
  effects,   \* effects each call still may have
  shown,     \* the captured changes
  chosen,    \* the commands to run
  found,     \* their outcomes so far
  tested,    \* history: what the tree was as each of them ran
  disturbed  \* history: another call edited the tree since the worker ended

evidenceVars == <<shown, chosen, found, tested>>
mcpVars == <<at, request, toolRung, down, edited, effects, evidenceVars, disturbed>>

Forms == {"tracked", "new", "binary"}
NoRequest == [tool |-> "none"]

McpInit ==
  /\ at = [c \in Calls |-> "idle"] /\ request = [c \in Calls |-> NoRequest]
  /\ toolRung = [c \in Calls |-> 1] /\ down = {}
  /\ edited = [d \in Dirs |-> {}] /\ effects = [c \in Calls |-> MaxEffects]
  /\ shown = [c \in Calls |-> {}] /\ chosen = [c \in Calls |-> <<>>]
  /\ found = [c \in Calls |-> <<>>] /\ tested = [c \in Calls |-> {}]
  /\ disturbed = [c \in Calls |-> FALSE]

(* From the end of the worker to its report. *)
Showing == {"ended", "listing", "resolving", "verifying"}
Moves(c, from, to) == at[c] = from /\ at' = [at EXCEPT ![c] = to]
-----------------------------------------------------------------------------
(* run_worker: a directory outside the launch root, an unknown label and   *)
(* an empty diff are refused before anything runs.                         *)
Refused(r) == r.dir \notin Dirs \/ r.subject \notin {"known", "diff"}

Requests ==
  [tool : {"worker"}, dir : Dirs \cup {"outside"}, subject : {"known", "unknown"}]
  \cup [tool : {"reviewer"}, dir : Dirs \cup {"outside"}, subject : {"diff", "empty"}]

CallTool(c) ==
  /\ \E r \in Requests :
       IF Refused(r) THEN Moves(c, "idle", "refused") /\ UNCHANGED request
       ELSE Moves(c, "idle", "rung") /\ request' = [request EXCEPT ![c] = r]
  /\ UNCHANGED <<toolRung, down, edited, effects, evidenceVars, disturbed>>

(* run_with_failover with the health of the server. *)
ToolRungs(c) == ToolLadder[request[c].tool]

EnterToolRung(c) ==
  /\ at[c] = "rung"
  /\ LET n == toolRung[c] IN
       IF n > Len(ToolRungs(c)) THEN Moves(c, "rung", "failed") /\ UNCHANGED toolRung
       ELSE IF ToolRungs(c)[n] \in down
         THEN toolRung' = [toolRung EXCEPT ![c] = n + 1] /\ UNCHANGED at
       ELSE Moves(c, "rung", "running") /\ UNCHANGED toolRung
  /\ UNCHANGED <<request, down, edited, effects, evidenceVars, disturbed>>

(* A worker adds an edit, or undoes what is there, its own or not; a       *)
(* reviewer only reads.                                                    *)
Work(c) ==
  /\ at[c] = "running" /\ request[c].tool = "worker"
  /\ effects[c] > 0 /\ effects' = [effects EXCEPT ![c] = @ - 1]
  /\ \E form \in Forms :
       LET made == [by |-> c, rung |-> toolRung[c], form |-> form] IN
       edited' \in {[edited EXCEPT ![request[c].dir] = @ \cup {made}],
                    [edited EXCEPT ![request[c].dir] = {e \in @ : e.form # form}]}
  /\ disturbed' = [x \in Calls |->
       disturbed[x] \/ (x # c /\ at[x] \in Showing /\ request[x].dir = request[c].dir)]
  /\ UNCHANGED <<at, request, toolRung, down, evidenceVars>>

ToolRungFails(c) ==
  /\ Moves(c, "running", "rung")
  /\ toolRung' = [toolRung EXCEPT ![c] = @ + 1]
  /\ down' \in {down, down \cup {ToolRungs(c)[toolRung[c]]}}
  /\ UNCHANGED <<request, edited, effects, evidenceVars, disturbed>>

(* A review is answered with its verdict. *)
ToolRungCompletes(c) ==
  /\ Moves(c, "running", IF request[c].tool = "worker" THEN "ended" ELSE "answered")
  /\ UNCHANGED <<request, toolRung, down, edited, effects, evidenceVars, disturbed>>

(* Mutant of ToolCaptured: only what the model that completed did. *)
ToolCapturedLast(c, forms) ==
  {e \in Captured(edited[request[c].dir]) : e.form \in forms /\ (e.by = c => e.rung = toolRung[c])}

ToolCaptured(c, forms) == {e \in Captured(edited[request[c].dir]) : e.form \in forms}

(* capture_changes: the diff of what Git tracks, then the new files.  When *)
(* Git fails, the report goes on without them.                             *)
CaptureDiff(c) ==
  /\ Moves(c, "ended", "listing")
  /\ shown' = [shown EXCEPT ![c] = ToolCaptured(c, {"tracked"})]
  /\ UNCHANGED <<request, toolRung, down, edited, effects, chosen, found, tested, disturbed>>

CaptureNew(c) ==
  /\ Moves(c, "listing", "resolving")
  /\ shown' = [shown EXCEPT ![c] = @ \cup ToolCaptured(c, {"new", "binary"})]
  /\ UNCHANGED <<request, toolRung, down, edited, effects, chosen, found, tested, disturbed>>

CaptureFails(c) ==
  /\ at[c] \in {"ended", "listing"} /\ at' = [at EXCEPT ![c] = "resolving"]
  /\ shown' = [shown EXCEPT ![c] = {NoRequest}]
  /\ UNCHANGED <<request, toolRung, down, edited, effects, chosen, found, tested, disturbed>>

(* run_verify resolves the commands in the tree the worker left, where new *)
(* files may be a Makefile, and runs one after the other.                  *)
ResolveVerify(c) ==
  LET built == IF \E e \in edited[request[c].dir] : e.form = "new" THEN {"Makefile"} ELSE {} IN
  /\ Moves(c, "resolving", "verifying")
  /\ chosen' = [chosen EXCEPT ![c] = Resolved(GivenLabels, built)]
  /\ UNCHANGED <<request, toolRung, down, edited, effects, shown, found, tested, disturbed>>

VerifyOne(c) ==
  /\ at[c] = "verifying" /\ Len(found[c]) < Len(chosen[c])
  /\ \E o \in CommandOutcomes : found' = [found EXCEPT ![c] = Append(@, o)]
  /\ tested' = [tested EXCEPT ![c] = @ \cup {edited[request[c].dir]}]
  /\ UNCHANGED <<at, request, toolRung, down, edited, effects, shown, chosen, disturbed>>

Report(c) ==
  /\ Moves(c, "verifying", "answered") /\ Len(found[c]) = Len(chosen[c])
  /\ UNCHANGED <<request, toolRung, down, edited, effects, evidenceVars, disturbed>>

McpNext ==
  \E c \in Calls :
    \/ CallTool(c) \/ EnterToolRung(c) \/ Work(c) \/ ToolRungFails(c) \/ ToolRungCompletes(c)
    \/ CaptureDiff(c) \/ CaptureNew(c) \/ CaptureFails(c)
    \/ ResolveVerify(c) \/ VerifyOne(c) \/ Report(c)

McpSpec == McpInit /\ [][McpNext]_mcpVars
-----------------------------------------------------------------------------
(* What passed is what is shown: a report says passed only if every        *)
(* command that blocks was ok in a tree whose readable changes, whichever  *)
(* model made them, are the changes it shows, unless another call worked   *)
(* in that directory between the end of the worker and the report.         *)
PassedIsShown ==
  \A c \in Calls :
    (at[c] = "answered" /\ VerifyPassed(chosen[c], found[c]) /\ ~disturbed[c]) =>
      /\ \A n \in DOMAIN chosen[c] : chosen[c][n].label = "test" => found[c][n] = "ok"
      /\ shown[c] = {NoRequest} \/ \A tree \in tested[c] : Captured(tree) = shown[c]
================================================================================
