--------------------------- MODULE SurroundingsProofs ---------------------------
(***************************************************************************)
(* What the parts around the loop promise, for all values of their         *)
(* constants: each part has an inductive invariant, which its first states *)
(* satisfy and its steps keep, and the promise follows from it.  The parts *)
(* share nothing and are treated one by one: the trust in commands, the    *)
(* council, the tool calls, the screen, the desktop shell and the          *)
(* worktrees.                                                              *)
(***************************************************************************)
EXTENDS Worktree, Commands, Council, Mcp, Screen, Desktop, TLAPS

-----------------------------------------------------------------------------
(* Keys that some process may make. *)
Digests == {Resolved(c, t) : c \in Configs, t \in Trees}
Keys == [repo : Repos, digest : Digests]

CmdTypeOK ==
  /\ markers \in [Repos -> Trees] /\ configured \in [Repos -> Configs]
  /\ trustFile \subseteq Keys /\ trusted \subseteq Keys
  /\ report \in [Stores -> {Unseen} \cup
                 [key : Keys, mode : {"in_place", "safe_worktree", "read_only"}]]
  /\ trusting \in [Stores -> {Quiet} \cup [at : {"loaded", "written"}, keys : SUBSET Keys]]
  /\ leftovers \subseteq Stores
  /\ edits \in 0 .. MaxEdits

(* What is about to replace the file is as good as the file. *)
Sound(keys) ==
  /\ keys \subseteq trusted
  /\ \A k, l \in keys : k.repo = l.repo => k = l

CmdInv ==
  /\ CmdTypeOK
  /\ Sound(trustFile)
  /\ \A p \in Stores : trusting[p] # Quiet => Sound(trusting[p].keys)

LEMMA KeyType == ASSUME CmdTypeOK, NEW r \in Repos PROVE Key(r) \in Keys
  BY DEF CmdTypeOK, Key, Resolve, Keys, Digests

LEMMA CmdInitInv == CmdInit => CmdInv
  BY ShapesAssumption DEF CmdInit, CmdInv, CmdTypeOK, Sound, Quiet, Unseen

LEMMA CmdStepInv == CmdInv /\ [CmdNext]_cmdVars => CmdInv'
<1> SUFFICES ASSUME CmdInv, [CmdNext]_cmdVars PROVE CmdInv'
  OBVIOUS
<1> USE DEF CmdInv, CmdTypeOK, Sound, Quiet, Unseen
<1>1. ASSUME NEW r \in Repos, Edit(r) PROVE CmdInv'
  BY <1>1, ShapesAssumption DEF Edit
<1>2. ASSUME NEW p \in Stores, NEW r \in Repos, Inspect(p, r) PROVE CmdInv'
  <2>1. Key(r) \in Keys
    BY KeyType
  <2>2. Mode(Kinds[r], p \in Attached) \in {"in_place", "safe_worktree", "read_only"}
    BY DEF Mode
  <2> QED
    BY <1>2, <2>1, <2>2 DEF Inspect
<1>3. ASSUME NEW p \in Stores, LoadTrust(p) PROVE CmdInv'
  <2>1. report[p].key \in Keys
    BY <1>3 DEF LoadTrust
  <2> DEFINE key == report[p].key
  <2>2. Replaced(trustFile, key) \subseteq trusted \cup {key}
    BY DEF Replaced
  <2>3. \A k, l \in Replaced(trustFile, key) : k.repo = l.repo => k = l
    BY DEF Replaced
  <2>4. Replaced(trustFile, key) \subseteq Keys
    BY <2>1 DEF Replaced
  <2> HIDE DEF key
  <2> QED
    BY <1>3, <2>1, <2>2, <2>3, <2>4 DEF LoadTrust, key
<1>4. ASSUME NEW p \in Stores, WriteTemp(p) PROVE CmdInv'
  BY <1>4 DEF WriteTemp
<1>5. ASSUME NEW p \in Stores, ReplaceFile(p) PROVE CmdInv'
  BY <1>5 DEF ReplaceFile
<1>6. ASSUME NEW p \in Stores, TrustFails(p) PROVE CmdInv'
  BY <1>6 DEF TrustFails
<1>7. CASE UNCHANGED cmdVars
  BY <1>7 DEF cmdVars
<1> QED
  BY <1>1, <1>2, <1>3, <1>4, <1>5, <1>6, <1>7 DEF CmdNext

LEMMA CmdAlwaysInv == CmdSpec => []CmdInv
  BY CmdInitInv, CmdStepInv, PTL DEF CmdSpec

(* TrustStore: a command list is trusted only if somebody trusted it, and  *)
(* is the only one of its repository, for any number of processes,         *)
(* repositories and edits.                                                 *)
THEOREM CommandsTrust == CmdSpec => []TrustFailsClosed
<1>1. CmdInv => TrustFailsClosed
  BY DEF CmdInv, Sound, TrustFailsClosed, IsTrusted
<1> QED
  BY <1>1, CmdAlwaysInv, PTL
-----------------------------------------------------------------------------
Stages == {"triage", "answers", "reviews", "synthesis", "conduct", "check", "done", "error"}

CouncilTypeOK ==
  /\ stage \in Stages /\ job \in {"council", "auto"}
  /\ voice \in [Voices -> {"quiet", "calling", "asking"} \cup Returned]
  /\ rungAt \in [Voices -> Nat \ {0}]
  /\ reviews \subseteq Members
  /\ conducted \in {"none", "completed", "failed", "halted", "nothing"}
  /\ checked \in {"none", "passed", "failed", "timed_out"}

(* The reviewers of the second stage are among those that answered in the  *)
(* first.                                                                  *)
CouncilInv ==
  /\ CouncilTypeOK
  /\ stage \in {"triage", "answers", "reviews"} => reviews = {}
  /\ stage = "reviews" => \A m \in Members : voice[m] # "quiet" => m \in DOMAIN letters
  /\ ReviewersAnswered

LEMMA CouncilInitInv == CouncilInit => CouncilInv
  BY DEF CouncilInit, CouncilInv, CouncilTypeOK, Stages, Returned, ReviewersAnswered

(* Whoever has no answer has a label among the failed ones. *)
LEMMA SurvivorsAnswered == Surviving \subseteq Answered
  BY DEF Surviving, FailedLabels

LEMMA CouncilStepInv == CouncilInv /\ [CouncilNext]_councilVars => CouncilInv'
<1> SUFFICES ASSUME CouncilInv, [CouncilNext]_councilVars PROVE CouncilInv'
  OBVIOUS
<1> USE DEF CouncilInv, CouncilTypeOK, Stages, Returned, ReviewersAnswered, Voices
<1>1. ASSUME NEW v \in Voices, AskRung(v) \/ Answer(v) \/ Demoted(v) PROVE CouncilInv'
  BY <1>1 DEF AskRung, Answer, Demoted
<1>2. CASE GatherAnswers
  <2>1. CASE Answered = {}
    BY <1>2, <2>1 DEF GatherAnswers
  <2>2. CASE Answered # {}
    <3>1. stage' = "reviews" /\ letters' \in Shuffles(Answered) /\ Calling(Surviving)
      BY <1>2, <2>2 DEF GatherAnswers
    <3>2. DOMAIN letters' = Answered
      BY <3>1 DEF Shuffles
    <3>3. \A m \in Members : voice'[m] # "quiet" => m \in DOMAIN letters'
      BY <3>1, <3>2, SurvivorsAnswered DEF Calling
    <3> QED
      BY <1>2, <3>1, <3>3 DEF GatherAnswers, Calling
  <2> QED
    BY <2>1, <2>2
<1>3. CASE GatherReviews
  BY <1>3 DEF GatherReviews, Calling
<1>4. CASE Synthesise
  BY <1>4 DEF Synthesise, Calling
<1>5. CASE Triage
  BY <1>5 DEF Triage, Calling
<1>6. CASE RunConduct
  BY <1>6 DEF RunConduct
<1>7. CASE RunCheck
  BY <1>7 DEF RunCheck
<1>8. CASE UNCHANGED councilVars
  BY <1>8 DEF councilVars
<1> QED
  BY <1>1, <1>2, <1>3, <1>4, <1>5, <1>6, <1>7, <1>8 DEF CouncilNext, CouncilStep

LEMMA CouncilAlwaysInv == CouncilSpec => []CouncilInv
  BY CouncilInitInv, CouncilStepInv, PTL DEF CouncilSpec

(* run_council: nobody reviews without an answer of its own, for any       *)
(* members, labels and ladders.                                            *)
THEOREM CouncilReviewersAnswered == CouncilSpec => []ReviewersAnswered
<1>1. CouncilInv => ReviewersAnswered
  BY DEF CouncilInv
<1> QED
  BY <1>1, CouncilAlwaysInv, PTL

(* The steps a call has left: two for each rung it may still ask. *)
CallLeft(v) ==
  CASE voice[v] = "calling" -> 2 * (Len(LadderOf[v]) + 1 - rungAt[v]) + 1
    [] voice[v] = "asking" -> 2 * (Len(LadderOf[v]) + 1 - rungAt[v])
    [] OTHER -> 0

StageLeft ==
  CASE stage = "triage" -> 6 [] stage = "answers" -> 5 [] stage = "reviews" -> 4
    [] stage = "synthesis" -> 3 [] stage = "conduct" -> 2 [] stage = "check" -> 1
    [] OTHER -> 0

RungInv ==
  \A v \in Voices :
    /\ rungAt[v] <= Len(LadderOf[v]) + 1
    /\ voice[v] = "asking" => rungAt[v] <= Len(LadderOf[v])

LEMMA CallLeftIsNat ==
  ASSUME CouncilInv, RungInv, NEW v \in Voices
  PROVE  CallLeft(v) \in Nat
<1>1. /\ Len(LadderOf[v]) \in Nat /\ rungAt[v] \in Nat
      /\ rungAt[v] <= Len(LadderOf[v]) + 1
  BY VoicesAssumption DEF VoicesAssumption, CouncilInv, CouncilTypeOK, RungInv
<1> QED
  BY <1>1 DEF CallLeft

LEMMA CouncilRungs == CouncilSpec => [](CouncilInv /\ RungInv)
<1> USE VoicesAssumption DEF VoicesAssumption
<1>1. CouncilInit => RungInv
  BY DEF CouncilInit, RungInv
<1>2. CouncilInv /\ RungInv /\ [CouncilNext]_councilVars => RungInv'
  <2> SUFFICES ASSUME CouncilInv, RungInv, [CouncilNext]_councilVars PROVE RungInv'
    OBVIOUS
  <2>1. ASSUME NEW u \in Voices, AskRung(u) \/ Answer(u) \/ Demoted(u) PROVE RungInv'
    BY <2>1 DEF AskRung, Answer, Demoted, RungInv, CouncilInv, CouncilTypeOK
  <2>2. ASSUME NEW callers, Calling(callers) PROVE RungInv'
    BY <2>2 DEF Calling, RungInv
  <2>3. CASE UNCHANGED <<voice, rungAt>>
    BY <2>3 DEF RungInv
  <2>4. CASE GatherAnswers \/ GatherReviews \/ Synthesise \/ Triage
    BY <2>2, <2>3, <2>4 DEF GatherAnswers, GatherReviews, Synthesise, Triage
  <2> QED
    BY <2>1, <2>3, <2>4 DEF CouncilNext, CouncilStep, RunConduct, RunCheck, councilVars
<1> QED
  BY <1>1, <1>2, CouncilAlwaysInv, PTL DEF CouncilSpec

(* A pipeline only winds down: a step of a call has one less left, takes   *)
(* nothing from the others and leaves the stage; any other step goes to a  *)
(* later stage.  No stage comes back, so each is entered once.             *)
CouncilWindsDown ==
  [][\/ /\ StageLeft' = StageLeft
        /\ \E v \in Voices : CallLeft(v)' < CallLeft(v) /\ CallLeft(v)' \in Nat
        /\ \A v \in Voices : CallLeft(v)' <= CallLeft(v)
     \/ StageLeft' < StageLeft /\ StageLeft' \in Nat]_councilVars

THEOREM CouncilOnlyForward == CouncilSpec => CouncilWindsDown
<1> DEFINE Down ==
      \/ /\ StageLeft' = StageLeft
         /\ \E v \in Voices : CallLeft(v)' < CallLeft(v) /\ CallLeft(v)' \in Nat
         /\ \A v \in Voices : CallLeft(v)' <= CallLeft(v)
      \/ StageLeft' < StageLeft /\ StageLeft' \in Nat
<1>1. CouncilInv /\ RungInv /\ (CouncilInv /\ RungInv)' /\ [CouncilNext]_councilVars => [Down]_councilVars
  <2> SUFFICES ASSUME CouncilInv, RungInv, CouncilInv', RungInv', CouncilNext, ~UNCHANGED councilVars
               PROVE  Down
    OBVIOUS
  <2>1. ASSUME NEW v \in Voices, AskRung(v) \/ Answer(v) \/ Demoted(v) PROVE Down
    <3>1. /\ Len(LadderOf[v]) \in Nat /\ rungAt[v] \in Nat
          /\ rungAt[v] <= Len(LadderOf[v]) + 1
          /\ voice[v] = "asking" => rungAt[v] <= Len(LadderOf[v])
      BY VoicesAssumption DEF VoicesAssumption, CouncilInv, CouncilTypeOK, RungInv
    <3>2. voice \in [Voices -> {"quiet", "calling", "asking"} \cup Returned] /\ rungAt \in [Voices -> Nat \ {0}]
      BY DEF CouncilInv, CouncilTypeOK
    <3>3. CallLeft(v)' < CallLeft(v)
      <4>1. CASE AskRung(v)
        BY <3>1, <3>2, <4>1 DEF AskRung, CallLeft
      <4>2. CASE Answer(v)
        BY <3>1, <3>2, <4>2 DEF Answer, CallLeft
      <4>3. CASE Demoted(v)
        BY <3>1, <3>2, <4>3 DEF Demoted, CallLeft
      <4> QED
        BY <2>1, <4>1, <4>2, <4>3
    <3>4. \A u \in Voices \ {v} : voice'[u] = voice[u] /\ rungAt'[u] = rungAt[u]
      BY <2>1, <3>2 DEF AskRung, Answer, Demoted
    <3>5. \A u \in Voices \ {v} : CallLeft(u)' = CallLeft(u)
      BY <3>4 DEF CallLeft
    <3>6. StageLeft' = StageLeft
      BY <2>1 DEF AskRung, Answer, Demoted, StageLeft
    <3>7. \A u \in Voices : CallLeft(u) \in Nat
      BY CallLeftIsNat
    <3>8. \A u \in Voices : CallLeft(u)' \in Nat
      BY VoicesAssumption DEF VoicesAssumption, CouncilInv, CouncilTypeOK, RungInv, CallLeft
    <3> QED
      BY <3>3, <3>5, <3>6, <3>7, <3>8
  <2>2. CASE GatherAnswers \/ GatherReviews \/ Synthesise \/ Triage \/ RunConduct \/ RunCheck
    BY <2>2 DEF GatherAnswers, GatherReviews, Synthesise, Triage, RunConduct, RunCheck, StageLeft
  <2> QED
    BY <2>1, <2>2 DEF CouncilNext, CouncilStep
<1> QED
  BY <1>1, CouncilRungs, PTL DEF CouncilSpec, CouncilWindsDown
-----------------------------------------------------------------------------
Effects == [by : Calls, rung : Nat, form : Forms]

(* An accepted call has a request in a directory of the launch root. *)
McpTypeOK ==
  /\ at \in [Calls -> {"idle", "refused", "rung", "running", "failed", "answered"} \cup Showing]
  /\ DOMAIN request = Calls
  /\ \A c \in Calls : at[c] \notin {"idle", "refused"} => request[c].dir \in Dirs
  /\ toolRung \in [Calls -> Nat]
  /\ edited \in [Dirs -> SUBSET Effects]
  /\ DOMAIN shown = Calls /\ DOMAIN chosen = Calls /\ DOMAIN found = Calls /\ DOMAIN tested = Calls
  /\ disturbed \in [Calls -> BOOLEAN]

(* The tree a call works on. *)
TreeOf(c) == edited[request[c].dir]

(* While nobody else works in its directory, what a call has captured so   *)
(* far and what its commands ran on are of the tree as it is.              *)
Faithful(c) ==
  /\ at[c] = "listing" => shown[c] = ToolCaptured(c, {"tracked"})
  /\ at[c] \in {"resolving", "verifying"} =>
       shown[c] = {NoRequest} \/ shown[c] = Captured(TreeOf(c))
  /\ at[c] = "verifying" => tested[c] \subseteq {TreeOf(c)}
  /\ at[c] = "answered" =>
       shown[c] = {NoRequest} \/ \A tree \in tested[c] : Captured(tree) = shown[c]

ShowingInv ==
  \A c \in Calls :
    /\ at[c] \notin {"verifying", "answered"} => tested[c] = {}
    /\ ~disturbed[c] => Faithful(c)

McpInv == McpTypeOK /\ ShowingInv

(* The diff and the new files together are all that can be captured. *)
LEMMA CapturedInTwo ==
  ASSUME NEW c \in Calls, TreeOf(c) \subseteq Effects
  PROVE  ToolCaptured(c, {"tracked"}) \cup ToolCaptured(c, {"new", "binary"}) = Captured(TreeOf(c))
  BY DEF ToolCaptured, Captured, TreeOf, Effects, Forms

LEMMA McpInitInv == McpInit => McpInv
  BY DEF McpInit, McpInv, McpTypeOK, ShowingInv, Faithful, Showing

(* A step of one call that leaves the trees alone leaves the others as     *)
(* they were.                                                              *)
LEMMA OthersStay ==
  ASSUME McpInv, NEW c \in Calls, NEW d \in Calls \ {c},
         UNCHANGED <<edited, disturbed>>, at'[d] = at[d], request'[d] = request[d],
         shown'[d] = shown[d], tested'[d] = tested[d]
  PROVE  /\ at'[d] \notin {"verifying", "answered"} => tested'[d] = {}
         /\ ~disturbed'[d] => Faithful(d)'
  BY DEF McpInv, ShowingInv, Faithful, ToolCaptured, Captured, TreeOf

LEMMA McpStepInv == McpInv /\ [McpNext]_mcpVars => McpInv'
<1> SUFFICES ASSUME McpInv, [McpNext]_mcpVars PROVE McpInv'
  OBVIOUS
<1> USE DEF McpInv, McpTypeOK, ShowingInv, Showing, Moves, evidenceVars
<1> DEFINE Kept(d) == /\ at'[d] \notin {"verifying", "answered"} => tested'[d] = {}
                      /\ ~disturbed'[d] => Faithful(d)'
<1>1. ASSUME NEW c \in Calls, CallTool(c) PROVE McpInv'
  <2>1. McpTypeOK'
    BY <1>1 DEF CallTool, Refused
  <2>2. \A d \in Calls \ {c} : Kept(d)
    BY <1>1, OthersStay DEF CallTool
  <2>3. Kept(c)
    BY <1>1 DEF CallTool, Faithful
  <2> QED
    BY <2>1, <2>2, <2>3
<1>2. ASSUME NEW c \in Calls, EnterToolRung(c) PROVE McpInv'
  <2>1. McpTypeOK'
    BY <1>2 DEF EnterToolRung
  <2>2. \A d \in Calls \ {c} : Kept(d)
    BY <1>2, OthersStay DEF EnterToolRung
  <2>3. Kept(c)
    BY <1>2 DEF EnterToolRung, Faithful
  <2> QED
    BY <2>1, <2>2, <2>3
<1>3. ASSUME NEW c \in Calls, Work(c) PROVE McpInv'
  <2>1. edited' \in [Dirs -> SUBSET Effects]
    BY <1>3 DEF Work, Effects
  <2>2. \A d \in Dirs : d # request[c].dir => edited'[d] = edited[d]
    BY <1>3 DEF Work
  <2>3. McpTypeOK'
    BY <1>3, <2>1 DEF Work
  <2>4. ASSUME NEW d \in Calls PROVE Kept(d)
    <3>1. at'[d] = at[d] /\ request' = request /\ shown' = shown /\ tested' = tested
      BY <1>3 DEF Work
    <3>2. ~disturbed'[d] =>
            /\ ~disturbed[d]
            /\ d = c \/ at[d] \notin Showing \/ request[d].dir # request[c].dir
      BY <1>3 DEF Work
    <3>3. at[c] = "running"
      BY <1>3 DEF Work
    <3>4. CASE at[d] \in Showing
      <4>1. ~disturbed'[d] => TreeOf(d)' = TreeOf(d)
        BY <2>2, <3>1, <3>2, <3>3, <3>4 DEF TreeOf
      <4> QED
        BY <3>1, <3>2, <3>4, <4>1 DEF Faithful, ToolCaptured, TreeOf
    <3>5. CASE at[d] \notin Showing
      BY <3>1, <3>2, <3>5 DEF Faithful
    <3> QED
      BY <3>4, <3>5
  <2> QED
    BY <2>3, <2>4
<1>4. ASSUME NEW c \in Calls, ToolRungFails(c) PROVE McpInv'
  <2>1. McpTypeOK'
    BY <1>4 DEF ToolRungFails
  <2>2. \A d \in Calls \ {c} : Kept(d)
    BY <1>4, OthersStay DEF ToolRungFails
  <2>3. Kept(c)
    BY <1>4 DEF ToolRungFails, Faithful
  <2> QED
    BY <2>1, <2>2, <2>3
<1>5. ASSUME NEW c \in Calls, ToolRungCompletes(c) PROVE McpInv'
  <2>1. McpTypeOK'
    BY <1>5 DEF ToolRungCompletes
  <2>2. \A d \in Calls \ {c} : Kept(d)
    BY <1>5, OthersStay DEF ToolRungCompletes
  <2>3. Kept(c)
    BY <1>5 DEF ToolRungCompletes, Faithful
  <2> QED
    BY <2>1, <2>2, <2>3
<1>6. ASSUME NEW c \in Calls, CaptureDiff(c) PROVE McpInv'
  <2>1. McpTypeOK'
    BY <1>6 DEF CaptureDiff
  <2>2. \A d \in Calls \ {c} : Kept(d)
    BY <1>6, OthersStay DEF CaptureDiff
  <2>3. Kept(c)
    BY <1>6 DEF CaptureDiff, Faithful, ToolCaptured
  <2> QED
    BY <2>1, <2>2, <2>3
<1>7. ASSUME NEW c \in Calls, CaptureNew(c) PROVE McpInv'
  <2>1. McpTypeOK'
    BY <1>7 DEF CaptureNew
  <2>2. \A d \in Calls \ {c} : Kept(d)
    BY <1>7, OthersStay DEF CaptureNew
  <2>3. ~disturbed[c] => shown'[c] = Captured(TreeOf(c))
    <3>1. TreeOf(c) \subseteq Effects
      BY <1>7 DEF CaptureNew, TreeOf
    <3> QED
      BY <1>7, <3>1, CapturedInTwo DEF CaptureNew, Faithful
  <2>4. Kept(c)
    BY <1>7, <2>3 DEF CaptureNew, Faithful, TreeOf
  <2> QED
    BY <2>1, <2>2, <2>4
<1>8. ASSUME NEW c \in Calls, CaptureFails(c) PROVE McpInv'
  <2>1. McpTypeOK'
    BY <1>8 DEF CaptureFails
  <2>2. \A d \in Calls \ {c} : Kept(d)
    BY <1>8, OthersStay DEF CaptureFails
  <2>3. Kept(c)
    BY <1>8 DEF CaptureFails, Faithful
  <2> QED
    BY <2>1, <2>2, <2>3
<1>9. ASSUME NEW c \in Calls, ResolveVerify(c) PROVE McpInv'
  <2>1. McpTypeOK'
    BY <1>9 DEF ResolveVerify
  <2>2. \A d \in Calls \ {c} : Kept(d)
    BY <1>9, OthersStay DEF ResolveVerify
  <2>3. Kept(c)
    BY <1>9 DEF ResolveVerify, Faithful, TreeOf
  <2> QED
    BY <2>1, <2>2, <2>3
<1>10. ASSUME NEW c \in Calls, VerifyOne(c) PROVE McpInv'
  <2>1. McpTypeOK'
    BY <1>10 DEF VerifyOne
  <2>2. \A d \in Calls \ {c} : Kept(d)
    BY <1>10, OthersStay DEF VerifyOne
  <2>3. Kept(c)
    BY <1>10 DEF VerifyOne, Faithful, TreeOf
  <2> QED
    BY <2>1, <2>2, <2>3
<1>11. ASSUME NEW c \in Calls, Report(c) PROVE McpInv'
  <2>1. McpTypeOK'
    BY <1>11 DEF Report
  <2>2. \A d \in Calls \ {c} : Kept(d)
    BY <1>11, OthersStay DEF Report
  <2>3. Kept(c)
    BY <1>11 DEF Report, Faithful, TreeOf
  <2> QED
    BY <2>1, <2>2, <2>3
<1>12. CASE UNCHANGED mcpVars
  BY <1>12 DEF mcpVars, Faithful, TreeOf, ToolCaptured
<1> QED
  BY <1>1, <1>2, <1>3, <1>4, <1>5, <1>6, <1>7, <1>8, <1>9, <1>10, <1>11, <1>12 DEF McpNext

LEMMA McpAlwaysInv == McpSpec => []McpInv
  BY McpInitInv, McpStepInv, PTL DEF McpSpec

(* run_worker: a report that says passed was tested on what it shows, for  *)
(* any number of calls, directories and edits and any ladders.             *)
THEOREM McpPassedIsShown == McpSpec => []PassedIsShown
<1>1. McpInv => PassedIsShown
  BY DEF McpInv, ShowingInv, Faithful, PassedIsShown, VerifyPassed, Blocking
<1> QED
  BY <1>1, McpAlwaysInv, PTL
-----------------------------------------------------------------------------
View ==
  [phase : {"idle", "running", "done", "errored"},
   connection : {"idle", "connecting", "open", "error", "closed"},
   ended : {"none", "complete", "cancelled"}, paused : BOOLEAN, error : BOOLEAN,
   from : SUBSET Starts]

WireTypeOK ==
  /\ generation \in 0 .. MaxStarts /\ current \in 0 .. MaxStarts
  /\ socket \in [Starts -> {"none", "resolving", "connecting", "dropped", "open", "failing",
                           "closed"}]
  /\ attached \subseteq Starts /\ controls \subseteq Starts
  /\ timers \in [Starts -> 0 .. MaxFrames + 1] /\ sentBy \in [Starts -> 0 .. MaxFrames + 1]

ScreenTypeOK == WireTypeOK /\ view \in View

(* Handlers are only on the current socket, which is of the last start;    *)
(* timers are of the last start, and it has no socket then.                *)
WiringInv ==
  /\ current \in {0, generation} /\ attached = {current} \ {0}
  /\ \A g \in Starts : g > generation => socket[g] = "none"
  /\ \A g \in Starts : timers[g] > 0 => g = generation /\ socket[g] = "none"
  /\ \A g \in attached : socket[g] \notin {"none", "resolving"}
  /\ \A g \in controls : g \in attached \/ g < generation

(* A view that agrees with itself. *)
Agrees(v) ==
  /\ v \in View
  /\ v.phase = "done" <=> v.ended # "none"
  /\ v.phase = "done" => ~v.paused

(* What is on screen is of the last start; a socket whose run is done has  *)
(* sent its terminal frame; one that is not there yet has shown none.      *)
ViewInv ==
  /\ Agrees(view) /\ view.from \subseteq {generation}
  /\ \A g \in attached : view.ended # "none" => sentBy[g] > MaxFrames
  /\ \A g \in Starts : g = generation /\ socket[g] = "resolving" => view.ended = "none"

ScreenInv == WireTypeOK /\ WiringInv /\ ViewInv

LEMMA BoundsAreNat == MaxStarts \in Nat /\ MaxFrames \in Nat
  BY ScreenAssumption DEF ScreenAssumption

LEMMA BlankAgrees ==
  /\ Agrees(Blank) /\ Blank.ended = "none" /\ Blank.from = {}
  /\ \A c \in {"connecting", "open"} :
       LET v == [Blank EXCEPT !.phase = "running", !.connection = c] IN
       Agrees(v) /\ v.ended = "none" /\ v.from = {}
  BY DEF Agrees, View, Blank

LEMMA FoldAgrees ==
  ASSUME NEW g \in Starts, NEW frame \in Frames \cup Terminal, Agrees(view),
         view.ended = "none" \/ frame \in {"event", "run_complete"}
  PROVE  /\ Agrees(Fold(g, frame)) /\ Fold(g, frame).from = view.from \cup {g}
         /\ frame \in Frames => Fold(g, frame).ended = view.ended
<1> DEFINE v == [view EXCEPT !.from = @ \cup {g}]
<1>1. Agrees(v) /\ v.from = view.from \cup {g} /\ v.ended = view.ended /\ v.phase = view.phase
  BY DEF Agrees, View
<1>2. CASE frame = "event"
  BY <1>1, <1>2 DEF Fold
<1>3. CASE frame \in {"paused", "resumed"}
  BY <1>1, <1>3 DEF Fold, Agrees, View
<1>4. CASE frame = "run_complete"
  BY <1>1, <1>4 DEF Fold, Agrees, View, Frames
<1>5. CASE frame = "run_cancelled"
  BY <1>1, <1>5 DEF Fold, Agrees, View, Frames
<1>6. CASE frame \in {"run_error", "error"}
  BY <1>1, <1>6 DEF Fold, Agrees, View, Frames
<1> QED
  BY <1>2, <1>3, <1>4, <1>5, <1>6 DEF Frames, Terminal

LEMMA SpoilAgrees ==
  ASSUME NEW g \in Starts, Agrees(view)
  PROVE  /\ Agrees(Spoil(g)) /\ Spoil(g).from = view.from \cup {g}
         /\ Spoil(g).ended = view.ended
  BY DEF Agrees, View, Spoil

LEMMA ScreenInitInv == ScreenInit => ScreenInv
  BY BoundsAreNat, BlankAgrees DEF ScreenInit, ScreenInv, WireTypeOK, WiringInv, ViewInv, Starts

LEMMA ScreenStepInv == ScreenInv /\ [ScreenNext]_screenVars => ScreenInv'
<1> SUFFICES ASSUME ScreenInv, [ScreenNext]_screenVars PROVE ScreenInv'
  OBVIOUS
<1> USE BoundsAreNat DEF ScreenInv, WireTypeOK, WiringInv, ViewInv, Starts, wireVars
<1>1. CASE StartRun
  <2>1. WireTypeOK'
    BY <1>1 DEF StartRun, Teardown, Detach
  <2>2. WiringInv'
    <3>1. generation' = generation + 1 /\ attached' = {} /\ current' = 0
      BY <1>1 DEF StartRun, Teardown, Detach
    <3>2. \A g \in controls' : g < generation'
      BY <1>1, <3>1 DEF StartRun
    <3>3. \A g \in Starts : g > generation' => socket'[g] = "none"
      BY <1>1, <3>1 DEF StartRun
    <3>4. \A g \in Starts : timers'[g] > 0 => g = generation' /\ socket'[g] = "none"
      BY <1>1, <3>1 DEF StartRun, Teardown
    <3> QED
      BY <3>1, <3>2, <3>3, <3>4
  <2>3. ViewInv'
    BY <1>1, BlankAgrees DEF StartRun, Teardown, Detach
  <2> QED
    BY <2>1, <2>2, <2>3
<1>2. CASE StartDemo
  <2>1. WireTypeOK'
    BY <1>2 DEF StartDemo, Teardown, Detach
  <2>2. WiringInv'
    <3>1. generation' = generation + 1 /\ attached' = {} /\ current' = 0
      BY <1>2 DEF StartDemo, Teardown, Detach
    <3>2. \A g \in controls' : g < generation'
      BY <1>2, <3>1 DEF StartDemo
    <3>3. \A g \in Starts : g > generation' => socket'[g] = "none"
      BY <1>2, <3>1 DEF StartDemo
    <3>4. \A g \in Starts : timers'[g] > 0 => g = generation' /\ socket'[g] = "none"
      BY <1>2, <3>1 DEF StartDemo, Teardown
    <3> QED
      BY <3>1, <3>2, <3>3, <3>4
  <2>3. ViewInv'
    BY <1>2, BlankAgrees DEF StartDemo, Teardown, Detach
  <2> QED
    BY <2>1, <2>2, <2>3
<1>3. CASE ResetRun
  <2>1. WireTypeOK'
    BY <1>3 DEF ResetRun, Teardown, Detach
  <2>2. WiringInv'
    <3>1. generation' = generation + 1 /\ attached' = {} /\ current' = 0
      BY <1>3 DEF ResetRun, Teardown, Detach
    <3>2. \A g \in controls' : g < generation'
      <4>1. controls' = controls /\ \A g \in controls : g <= generation
        BY <1>3 DEF ResetRun
      <4> QED
        BY <3>1, <4>1
    <3>3. \A g \in Starts : g > generation' => socket'[g] = "none"
      BY <1>3, <3>1 DEF ResetRun
    <3>4. \A g \in Starts : timers'[g] > 0 => g = generation' /\ socket'[g] = "none"
      BY <1>3, <3>1 DEF ResetRun, Teardown
    <3> QED
      BY <3>1, <3>2, <3>3, <3>4
  <2>3. ViewInv'
    BY <1>3, BlankAgrees DEF ResetRun, Teardown, Detach
  <2> QED
    BY <2>1, <2>2, <2>3
<1>4. CASE SendControl
  BY <1>4 DEF SendControl
<1>5. ASSUME NEW g \in Starts, AddressKnown(g) PROVE ScreenInv'
  <2>1. WireTypeOK'
    BY <1>5 DEF AddressKnown, Wanted
  <2>2. WiringInv'
    BY <1>5 DEF AddressKnown, Wanted
  <2>3. ViewInv'
    BY <1>5 DEF AddressKnown, Wanted
  <2> QED
    BY <2>1, <2>2, <2>3
<1>6. ASSUME NEW g \in Starts, SocketOpens(g) PROVE ScreenInv'
  <2>1. WireTypeOK'
    BY <1>6 DEF SocketOpens, Show
  <2>2. WiringInv'
    BY <1>6 DEF SocketOpens, Show
  <2>3. ViewInv'
    <3>1. Agrees(view') /\ view'.from \subseteq {generation} /\ view'.ended = view.ended
      <4>1. CASE g \notin attached
        BY <1>6, <4>1 DEF SocketOpens, Show
      <4>2. CASE g \in attached
        <5>1. g = generation
          BY <4>2
        <5>2. view' = [view EXCEPT !.connection = "open", !.from = @ \cup {g}]
          BY <1>6, <4>2 DEF SocketOpens, Show
        <5> QED
          BY <5>1, <5>2 DEF Agrees, View
      <4> QED
        BY <4>1, <4>2
    <3> QED
      BY <1>6, <3>1 DEF SocketOpens
  <2> QED
    BY <2>1, <2>2, <2>3
<1>7. ASSUME NEW g \in Starts, FrameArrives(g) PROVE ScreenInv'
  <2>1. WireTypeOK'
    <3>1. \/ sentBy[g] < MaxFrames /\ sentBy' = [sentBy EXCEPT ![g] = @ + 1]
          \/ sentBy' = [sentBy EXCEPT ![g] = MaxFrames + 1]
      BY <1>7 DEF FrameArrives
    <3>2. sentBy' \in [Starts -> 0 .. MaxFrames + 1]
      <4>1. CASE sentBy[g] < MaxFrames /\ sentBy' = [sentBy EXCEPT ![g] = @ + 1]
        BY <4>1
      <4>2. CASE sentBy' = [sentBy EXCEPT ![g] = MaxFrames + 1]
        BY <4>2
      <4> QED
        BY <3>1, <4>1, <4>2
    <3> QED
      BY <1>7, <3>2 DEF FrameArrives
  <2>2. WiringInv'
    BY <1>7 DEF FrameArrives
  <2>3. ViewInv'
    <3>1. ASSUME NEW frame \in Frames, sentBy[g] < MaxFrames,
                 sentBy' = [sentBy EXCEPT ![g] = @ + 1], Show(g, Fold(g, frame))
          PROVE ViewInv'
      BY <1>7, <3>1, FoldAgrees DEF FrameArrives, Show
    <3>2. ASSUME sentBy[g] < MaxFrames, sentBy' = [sentBy EXCEPT ![g] = @ + 1], Show(g, Spoil(g))
          PROVE ViewInv'
      BY <1>7, <3>2, SpoilAgrees DEF FrameArrives, Show
    <3>3. ASSUME NEW frame \in Terminal, sentBy' = [sentBy EXCEPT ![g] = MaxFrames + 1],
                 Show(g, Fold(g, frame))
          PROVE ViewInv'
      BY <1>7, <3>3, FoldAgrees DEF FrameArrives, Show
    <3> QED
      BY <1>7, <3>1, <3>2, <3>3 DEF FrameArrives
  <2> QED
    BY <2>1, <2>2, <2>3
<1>8. ASSUME NEW g \in Starts, SocketFails(g) PROVE ScreenInv'
  <2>1. WireTypeOK'
    BY <1>8 DEF SocketFails, Show
  <2>2. WiringInv'
    BY <1>8 DEF SocketFails, Show
  <2>3. ViewInv'
    <3>1. Agrees(view') /\ view'.from \subseteq {generation} /\ view'.ended = view.ended
      <4>1. CASE g \notin attached
        BY <1>8, <4>1 DEF SocketFails, Show
      <4>2. CASE g \in attached
        <5>1. g = generation
          BY <4>2
        <5>2. view' = [Spoil(g) EXCEPT !.connection = "error"]
          BY <1>8, <4>2 DEF SocketFails, Show
        <5>3. Agrees(Spoil(g)) /\ Spoil(g).from = view.from \cup {g} /\ Spoil(g).ended = view.ended
          BY SpoilAgrees
        <5> QED
          BY <5>1, <5>2, <5>3 DEF Agrees, View
      <4> QED
        BY <4>1, <4>2
    <3> QED
      BY <1>8, <3>1 DEF SocketFails
  <2> QED
    BY <2>1, <2>2, <2>3
<1>9. ASSUME NEW g \in Starts, SocketCloses(g) PROVE ScreenInv'
  <2>1. WireTypeOK'
    BY <1>9 DEF SocketCloses, Show
  <2>2. WiringInv'
    BY <1>9 DEF SocketCloses, Show
  <2>3. ViewInv'
    <3>1. Agrees(view') /\ view'.from \subseteq {generation} /\ view'.ended = view.ended
      <4>1. CASE g \notin attached
        BY <1>9, <4>1 DEF SocketCloses, Show
      <4>2. CASE g \in attached
        <5>1. g = generation
          BY <4>2
        <5>2. view' = [view EXCEPT !.connection = "closed", !.from = @ \cup {g}]
          BY <1>9, <4>2 DEF SocketCloses, Show
        <5> QED
          BY <5>1, <5>2 DEF Agrees, View
      <4> QED
        BY <4>1, <4>2
    <3> QED
      BY <1>9, <3>1 DEF SocketCloses
  <2> QED
    BY <2>1, <2>2, <2>3
<1>10. ASSUME NEW g \in Starts, DemoFrame(g) PROVE ScreenInv'
  <2>1. WireTypeOK'
    BY <1>10 DEF DemoFrame, Frames, Terminal
  <2>2. WiringInv'
    BY <1>10 DEF DemoFrame, Frames, Terminal
  <2>3. ViewInv'
    <3>1. g = generation /\ socket[g] = "none" /\ attached = {}
      BY <1>10 DEF DemoFrame
    <3>2. Agrees(view') /\ view'.from = view.from \cup {g}
      BY <1>10, FoldAgrees DEF DemoFrame, Frames, Terminal
    <3> QED
      BY <1>10, <3>1, <3>2 DEF DemoFrame
  <2> QED
    BY <2>1, <2>2, <2>3
<1>11. CASE UNCHANGED screenVars
  BY <1>11 DEF screenVars
<1> QED
  BY <1>1, <1>2, <1>3, <1>4, <1>5, <1>6, <1>7, <1>8, <1>9, <1>10, <1>11 DEF ScreenNext

LEMMA ScreenAlwaysInv == ScreenSpec => []ScreenInv
  BY ScreenInitInv, ScreenStepInv, PTL DEF ScreenSpec

(* useSession: the screen is of the last start and agrees with itself, for *)
(* any number of starts and frames.                                        *)
THEOREM ScreenShowsThisRun == ScreenSpec => []ScreenIsThisRun
<1>1. ScreenInv => ScreenIsThisRun
  BY DEF ScreenInv, ViewInv, Agrees, View, ScreenIsThisRun, Verdict, WiringInv, WireTypeOK
<1> QED
  BY <1>1, ScreenAlwaysInv, PTL
-----------------------------------------------------------------------------
(* What is in the slot was spawned; it was aborted only by a start that is *)
(* still under way or failed.                                              *)
SlotInv ==
  /\ DesktopTypeOK
  /\ slot # 0 => task[slot] # "none"
  /\ \A c \in StartCalls : starting[c] \in {"none", "cleared", "bound"} => task[c] = "none"
  /\ slot # 0 /\ task[slot] = "aborted" =>
       \E c \in StartCalls : starting[c] \in {"cleared", "bound", "failed"}

LEMMA DesktopInitInv == DesktopInit => SlotInv
  BY DEF DesktopInit, SlotInv, DesktopTypeOK

LEMMA DesktopStepInv == SlotInv /\ [DesktopNext]_desktopVars => SlotInv'
<1> SUFFICES ASSUME SlotInv, [DesktopNext]_desktopVars PROVE SlotInv'
  OBVIOUS
<1> USE DEF SlotInv, DesktopTypeOK
<1>0. 0 \notin StartCalls
  BY DEF StartCalls
<1>1. ASSUME NEW c \in StartCalls, AbortPrevious(c) PROVE SlotInv'
  BY <1>0, <1>1 DEF AbortPrevious
<1>2. ASSUME NEW c \in StartCalls, Bind(c) PROVE SlotInv'
  BY <1>2 DEF Bind
<1>3. ASSUME NEW c \in StartCalls, Publish(c) PROVE SlotInv'
  BY <1>0, <1>3 DEF Publish
<1>4. ASSUME NEW c \in StartCalls, Die(c) PROVE SlotInv'
  BY <1>0, <1>4 DEF Die
<1>5. ASSUME NEW c \in StartCalls, Watch(c) PROVE SlotInv'
  BY <1>5 DEF Watch
<1>6. CASE UNCHANGED desktopVars
  BY <1>6 DEF desktopVars
<1> QED
  BY <1>1, <1>2, <1>3, <1>4, <1>5, <1>6 DEF DesktopNext

LEMMA DesktopAlwaysInv == DesktopSpec => []SlotInv
  BY DesktopInitInv, DesktopStepInv, PTL DEF DesktopSpec

(* start_server: a dead URL is handed out only after a start failed, for   *)
(* any number of starts, however they overlap.                             *)
THEOREM DesktopDiesByFailure == DesktopSpec => []DeadUrlNeedsFailure
<1>1. SlotInv => DeadUrlNeedsFailure
  BY DEF SlotInv, DesktopTypeOK, DeadUrlNeedsFailure, NoDeadUrl, ServerUrl
<1> QED
  BY <1>1, DesktopAlwaysInv, PTL
-----------------------------------------------------------------------------
(* A process owns the worktree that it is creating, or taking back before  *)
(* anybody else could see it; it shares the one that it was handed.        *)
Owns(p) == step[p] \in Creating \/ (step[p] \in Cleaning /\ purpose[p] # "remove")
Shares(p) ==
  step[p] \in {"holding", "removed"} \/ (step[p] \in Cleaning /\ purpose[p] = "remove")

(* An owner is alone with what it owns. *)
OwnerInv ==
  \A p \in Procs : Owns(p) =>
    /\ holds[p] \notin handed /\ dir[holds[p]] # "none"
    /\ \A q \in Procs \ {p} : Owns(q) => holds[q] # holds[p]

SharerInv ==
  /\ \A p \in Procs : Shares(p) => holds[p] \in handed
  /\ \A p \in Procs : step[p] \in {"asked", "unmarking"} => purpose[p] = "remove"

HandedInv == \A i \in handed : dir[i] # "none"

(* What is emptied or loses its marker lost its registration before. *)
UnregisteredInv ==
  \A p \in Procs : step[p] \in {"emptying", "unmarking"} /\ holds[p] \in handed =>
    reg[holds[p]] = "none"

(* What is about to be handed out is whole. *)
WholeInv ==
  \A p \in Procs : step[p] \in {"materialised", "marking"} =>
    files[holds[p]] = Entries \/ dir[holds[p]] = "gone"

WtInv ==
  /\ WtTypeOK /\ OwnerInv /\ SharerInv /\ HandedInv /\ UnregisteredInv /\ WholeInv
  /\ RegisteredIsWhole /\ RecordOutlivesWorktree

USE DEF Creating, Cleaning
-----------------------------------------------------------------------------
LEMMA WtInitInv == WtInit => WtInv
  BY FaultsAssumption DEF WtInit, WtInv, WtTypeOK, OwnerInv, SharerInv, HandedInv, UnregisteredInv,
         WholeInv, RegisteredIsWhole, RecordOutlivesWorktree, Owns, Shares, Sources, Roots

LEMMA WtStepTypeOK == WtTypeOK /\ [WtNext]_wtVars => WtTypeOK'
<1> SUFFICES ASSUME WtTypeOK, [WtNext]_wtVars PROVE WtTypeOK'
  OBVIOUS
<1> USE FaultsAssumption DEF WtTypeOK, repoVars, dirVars, procVars, Goto, Walk, IsAt, CleanUp,
         OneFault, GiveUp, Conclude
<1>1. ASSUME NEW p \in Procs, CreateWorktree(p) PROVE WtTypeOK'
  <2>1. CASE Reserve(p)
    BY <2>1 DEF Reserve, Roots
  <2>2. CASE ValidatePaths(p)
    BY <2>2 DEF ValidatePaths
  <2>3. CASE AddWorktree(p)
    BY <2>3 DEF AddWorktree
  <2>4. CASE AddFails(p)
    BY <2>4 DEF AddFails
  <2>5. CASE Materialise(p)
    BY <2>5 DEF Materialise
  <2>6. CASE MaterialiseFails(p)
    BY <2>6 DEF MaterialiseFails
  <2>7. CASE WriteMarker(p)
    BY <2>7 DEF WriteMarker
  <2>8. CASE WriteMarkerFails(p)
    BY <2>8 DEF WriteMarkerFails
  <2> QED
    BY <1>1, <2>1, <2>2, <2>3, <2>4, <2>5, <2>6, <2>7, <2>8 DEF CreateWorktree
<1>2. ASSUME NEW p \in Procs, RemoveWorktree(p) PROVE WtTypeOK'
  BY <1>2 DEF RemoveWorktree, AskRemoval, LookFirst, Unmark
<1>3. ASSUME NEW p \in Procs, CleanupStep(p) PROVE WtTypeOK'
  <2>1. CASE LookAgain(p)
    BY <2>1 DEF LookAgain
  <2>2. CASE Quarantine(p)
    BY <2>2 DEF Quarantine
  <2>3. CASE Prune(p)
    BY <2>3 DEF Prune
  <2>4. CASE AfterPrune(p)
    BY <2>4 DEF AfterPrune
  <2>5. CASE EmptyDir(p)
    BY <2>5 DEF EmptyDir
  <2>6. CASE RemoveDir(p)
    BY <2>6 DEF RemoveDir
  <2>7. CASE CleanupFails(p)
    BY <2>7 DEF CleanupFails
  <2> QED
    BY <1>3, <2>1, <2>2, <2>3, <2>4, <2>5, <2>6, <2>7 DEF CleanupStep
<1>4. ASSUME NEW p \in Procs, Reopen(p) \/ ProcessEnds(p) PROVE WtTypeOK'
  BY <1>4 DEF Reopen, ProcessEnds
<1>5. CASE People
  BY <1>5 DEF People, Delete, Replace, BringBack, LockOrUnlock
<1>6. CASE UNCHANGED wtVars
  BY <1>6 DEF wtVars
<1> QED
  BY <1>1, <1>2, <1>3, <1>4, <1>5, <1>6 DEF WtNext
-----------------------------------------------------------------------------
LEMMA WtStepInv == WtInv /\ [WtNext]_wtVars => WtInv'
<1> SUFFICES ASSUME WtInv, [WtNext]_wtVars PROVE WtInv'
  OBVIOUS
<1>t. WtTypeOK'
  BY WtStepTypeOK DEF WtInv
<1> USE DEF WtTypeOK, WtInv, OwnerInv, SharerInv, HandedInv, UnregisteredInv, WholeInv,
         RegisteredIsWhole, RecordOutlivesWorktree, Owns, Shares, repoVars, dirVars, procVars,
         Goto, Walk, IsAt, CleanUp, GiveUp, Conclude
<1>1. ASSUME NEW p \in Procs, CreateWorktree(p) PROVE WtInv'
  <2>1. CASE Reserve(p)
    BY <1>t, <2>1 DEF Reserve
  <2>2. CASE ValidatePaths(p)
    BY <1>t, <2>2 DEF ValidatePaths, InPlace
  <2>3. CASE AddWorktree(p)
    BY <1>t, <2>3 DEF AddWorktree, InPlace
  <2>4. CASE AddFails(p)
    BY <1>t, <2>4 DEF AddFails
  <2>5. CASE Materialise(p)
    BY <1>t, <2>5 DEF Materialise, InPlace
  <2>6. CASE MaterialiseFails(p)
    BY <1>t, <2>6 DEF MaterialiseFails, InPlace
  <2>7. CASE WriteMarker(p)
    BY <1>t, <2>7 DEF WriteMarker
  <2>8. CASE WriteMarkerFails(p)
    BY <1>t, <2>8 DEF WriteMarkerFails
  <2> QED
    BY <1>1, <2>1, <2>2, <2>3, <2>4, <2>5, <2>6, <2>7, <2>8 DEF CreateWorktree
<1>2. ASSUME NEW p \in Procs, RemoveWorktree(p) PROVE WtInv'
  <2>1. CASE AskRemoval(p)
    BY <1>t, <2>1 DEF AskRemoval
  <2>2. CASE LookFirst(p)
    BY <1>t, <2>2 DEF LookFirst, InPlace, Taken
  <2>3. CASE Unmark(p)
    BY <1>t, <2>3 DEF Unmark
  <2> QED
    BY <1>2, <2>1, <2>2, <2>3 DEF RemoveWorktree
<1>3. ASSUME NEW p \in Procs, CleanupStep(p) PROVE WtInv'
  <2>1. CASE LookAgain(p)
    BY <1>t, <2>1 DEF LookAgain, InPlace, Taken
  <2>2. CASE Quarantine(p)
    BY <1>t, <2>2 DEF Quarantine, InPlace, Taken
  <2>3. CASE Prune(p)
    BY <1>t, <2>3 DEF Prune, Prunable, InPlace
  <2>4. CASE AfterPrune(p)
    BY <1>t, <2>4 DEF AfterPrune
  <2>5. CASE EmptyDir(p)
    BY <1>t, <2>5 DEF EmptyDir
  <2>6. CASE RemoveDir(p)
    BY <1>t, <2>6 DEF RemoveDir
  <2>7. CASE CleanupFails(p)
    BY <1>t, <2>7 DEF CleanupFails
  <2> QED
    BY <1>3, <2>1, <2>2, <2>3, <2>4, <2>5, <2>6, <2>7 DEF CleanupStep
<1>4. ASSUME NEW p \in Procs, Reopen(p) PROVE WtInv'
  BY <1>t, <1>4 DEF Reopen
<1>5. ASSUME NEW p \in Procs, ProcessEnds(p) PROVE WtInv'
  BY <1>t, <1>5 DEF ProcessEnds
<1>6. CASE People
  <2>1. ASSUME NEW i \in Names, Delete(i) PROVE WtInv'
    BY <1>t, <1>6, <2>1 DEF People, Delete, InPlace
  <2>2. ASSUME NEW i \in Names, Replace(i) PROVE WtInv'
    BY <1>t, <1>6, <2>2 DEF People, Replace, InPlace
  <2>3. ASSUME NEW i \in Names, BringBack(i) PROVE WtInv'
    BY <1>t, <1>6, <2>3 DEF People, BringBack
  <2>4. ASSUME NEW i \in Names, LockOrUnlock(i) PROVE WtInv'
    BY <1>t, <1>6, <2>4 DEF People, LockOrUnlock
  <2> QED
    BY <1>6, <2>1, <2>2, <2>3, <2>4 DEF People
<1>7. CASE UNCHANGED wtVars
  BY <1>t, <1>7 DEF wtVars
<1> QED
  BY <1>1, <1>2, <1>3, <1>4, <1>5, <1>6, <1>7 DEF WtNext

LEMMA WtAlwaysInv == WtSpec => []WtInv
<1>1. WtInit => WtInv
  BY WtInitInv
<1>2. WtInv /\ [WtNext]_wtVars => WtInv'
  BY WtStepInv
<1> QED
  BY <1>1, <1>2, PTL DEF WtSpec
-----------------------------------------------------------------------------
(* The variables keep their types, whatever the number of processes,       *)
(* worktrees and faults.                                                   *)
THEOREM WorktreeTypeCorrect == WtSpec => []WtTypeOK
<1>1. WtInv => WtTypeOK
  BY DEF WtInv
<1> QED
  BY <1>1, WtAlwaysInv, PTL

(* secure_cleanup_inner empties only what prune took out of Git's list: no *)
(* registered worktree that was handed out ever has a part of its files.   *)
THEOREM WorktreeStaysWhole == WtSpec => []RegisteredIsWhole
<1>1. WtInv => RegisteredIsWhole
  BY DEF WtInv
<1> QED
  BY <1>1, WtAlwaysInv, PTL

(* remove_worktree_inner removes the marker last: as long as Git knows a   *)
(* worktree that was handed out, a later process can find and remove it.   *)
THEOREM WorktreeKeepsRecord == WtSpec => []RecordOutlivesWorktree
<1>1. WtInv => RecordOutlivesWorktree
  BY DEF WtInv
<1> QED
  BY <1>1, WtAlwaysInv, PTL
=================================================================================
