----------------------------- MODULE MCSurroundings -----------------------------
(* The parts around the loop, one of them at work in each behaviour while  *)
(* the others rest where they are: the plan layering, the operator handle, *)
(* worktrees, verification commands, the council, the tools of the MCP     *)
(* server, the evaluation harness, the browser session, the usage log and  *)
(* the transcripts.  Modules that share a definition or a type of theirs   *)
(* (Evidence) share it here too.                                           *)
EXTENDS Operator, Layering, Worktree, Commands, Council, Mcp, Eval, Screen, Usage, Transcripts

CONSTANT Parts   \* the parts that may be at work

VARIABLE part    \* the one that is

surroundings ==
  <<operatorVars, vars, wtVars, cmdVars, councilVars, mcpVars, evalVars, screenVars, usageVars,
    transcriptVars>>
allVars == <<part, surroundings>>

(* layering: every plan of up to three subtasks over three ids, and every  *)
(* set of completed ids, up to a renaming.                                 *)
MCIds == 1 .. 3
MCEarlier == {1 .. n : n \in 0 .. 3}

(* commands: two ecosystems at once, or none. *)
MCTrees == {{}, {"Cargo.toml", "package.json"}}
MCConfigs == {{}, {"test"}}
MCKinds == [r \in Repos |-> "committed"]

(* council: two members with the same model, one that knows another. *)
MCLabelOf == [m \in Members |-> IF m = "c" THEN "lc" ELSE "la"]
MCLadderOf ==
  [v \in Voices |-> CASE v = "a" -> <<"x">> [] v = "b" -> <<"x", "y">> [] OTHER -> <<"y", "x">>]

(* mcp: a model that both ladders have. *)
MCToolLadder == [worker |-> <<"x", "y">>, reviewer |-> <<"y">>]

(* eval: a task with a command of its own, and one without. *)
MCTasks == <<"fix-sum", "parse-kv">>
MCVerifyOf == [t \in {"fix-sum", "parse-kv"} |-> IF t = "fix-sum" THEN {"test"} ELSE {}]
MCApproaches == <<"conduct">>

(* usage: two workers of one provider, and one of another. *)
MCWorkers == <<"codex", "claude", "codex">>

(* transcripts: two saves of one process, and one of another. *)
MCProcessOf == [s1 |-> "p", s2 |-> "p", s3 |-> "q"]
MCKindOf == [s1 |-> "auto", s2 |-> "auto", s3 |-> "auto"]
-----------------------------------------------------------------------------
AtRest(where, Resting) == part = where \/ Resting

LayeringRests ==
  /\ plan = <<[id |-> 1, deps |-> {}]>> /\ completed = {}
  /\ rank = <<1>> /\ wave = 1 /\ phase = "layered"

CouncilRests ==
  /\ job = "council" /\ stage = "done" /\ voice = [v \in Voices |-> "quiet"]
  /\ rungAt = [v \in Voices |-> 1] /\ known = {} /\ letters = <<>> /\ reviews = {}
  /\ conducted = "none" /\ checked = "none"

SurroundingsInit ==
  /\ part \in Parts
  /\ OperatorInit /\ McpInit /\ EvalInit /\ ScreenInit /\ UsageInit /\ TranscriptsInit
  /\ IF part = "layering" THEN Init ELSE LayeringRests
  /\ IF part = "council" THEN CouncilInit ELSE CouncilRests
  /\ WtInit /\ AtRest("worktree", /\ source = "committed" /\ root = "private"
                                   /\ \A p \in Procs : holds[p] = CHOOSE n \in Names : TRUE)
  /\ CmdInit /\ AtRest("commands", \A r \in Repos : markers[r] = {} /\ configured[r] = {})

LayeringNext == part = "layering" /\ Next
StepOf(r) == part = "operator" /\ Step(r)
CouncilNextStep == part = "council" /\ CouncilStep

SurroundingsNext ==
  \/ /\ LayeringNext
     /\ UNCHANGED <<part, operatorVars, wtVars, cmdVars, councilVars, mcpVars, evalVars,
                    screenVars, usageVars, transcriptVars>>
  \/ /\ part = "operator" /\ OperatorNext
     /\ UNCHANGED <<part, vars, wtVars, cmdVars, councilVars, mcpVars, evalVars, screenVars,
                    usageVars, transcriptVars>>
  \/ /\ part = "worktree" /\ WtNext
     /\ UNCHANGED <<part, operatorVars, vars, cmdVars, councilVars, mcpVars, evalVars,
                    screenVars, usageVars, transcriptVars>>
  \/ /\ part = "commands" /\ CmdNext
     /\ UNCHANGED <<part, operatorVars, vars, wtVars, councilVars, mcpVars, evalVars,
                    screenVars, usageVars, transcriptVars>>
  \/ /\ part = "council" /\ CouncilNext
     /\ UNCHANGED <<part, operatorVars, vars, wtVars, cmdVars, mcpVars, evalVars, screenVars,
                    usageVars, transcriptVars>>
  \/ /\ part = "mcp" /\ McpNext
     /\ UNCHANGED <<part, operatorVars, vars, wtVars, cmdVars, councilVars, evalVars,
                    screenVars, usageVars, transcriptVars>>
  \/ /\ part = "eval" /\ EvalNext
     /\ UNCHANGED <<part, operatorVars, vars, wtVars, cmdVars, councilVars, mcpVars,
                    screenVars, usageVars, transcriptVars>>
  \/ /\ part = "screen" /\ ScreenNext
     /\ UNCHANGED <<part, operatorVars, vars, wtVars, cmdVars, councilVars, mcpVars, evalVars,
                    usageVars, transcriptVars>>
  \/ /\ part = "usage" /\ UsageNext
     /\ UNCHANGED <<part, operatorVars, vars, wtVars, cmdVars, councilVars, mcpVars, evalVars,
                    screenVars, transcriptVars>>
  \/ /\ part = "transcripts" /\ TranscriptsNext
     /\ UNCHANGED <<part, operatorVars, vars, wtVars, cmdVars, councilVars, mcpVars, evalVars,
                    screenVars, usageVars>>

(* The fairness of Layering, Operator and Council.  The other parts state  *)
(* none.                                                                   *)
SurroundingsSpec ==
  /\ SurroundingsInit /\ [][SurroundingsNext]_allVars
  /\ WF_vars(LayeringNext)
  /\ \A r \in Runs : WF_operatorVars(StepOf(r))
  /\ WF_councilVars(CouncilNextStep)
=================================================================================
