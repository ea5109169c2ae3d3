-------------------------------- MODULE Council --------------------------------
(***************************************************************************)
(* The council of core/src/orchestrator/council.rs and the auto pipeline   *)
(* around it (auto.rs): triage, council, conduct, check.                   *)
(*                                                                         *)
(* Members answer at the same time, each down its own ladder, and share    *)
(* what they learn about models with every later call of the run.  Failover *)
(* has the retries of a call; here an attempt at a rung is two steps, the  *)
(* look at the shared health and the answer.  Conduct has what run_conduct *)
(* does; here it is one call of the conductor and its outcome.             *)
(***************************************************************************)
EXTENDS Naturals, Sequences, FiniteSets

CONSTANTS
  Members,   \* the members of the council
  LabelOf,   \* the label of each: its provider and model
  LadderOf,  \* the ladder of each member, of the conductor and of the chairman
  HasCheck   \* a check command was given

Voices == Members \cup {"conductor", "chairman"}

ASSUME VoicesAssumption ==
  /\ DOMAIN LabelOf = Members /\ DOMAIN LadderOf = Voices /\ HasCheck \in BOOLEAN
  /\ \A v \in Voices : Len(LadderOf[v]) \in Nat

VARIABLES
  stage,     \* where the run is
  job,       \* the pipeline: the council alone or auto
  voice,     \* the state of each call
  rungAt,    \* the rung it is at
  known,     \* the models known dead or cold
  letters,   \* the anonymous letter of each answer, from 0
  reviews,   \* the members whose review came in
  conducted, \* what run_conduct returned
  checked    \* what the check command returned

councilVars == <<stage, job, voice, rungAt, known, letters, reviews, conducted, checked>>

Over == {"done", "error"}
Returned == {"text", "silent", "error"}

(* The calls of a stage start together; they are joined when all returned. *)
Calling(callers) ==
  /\ voice' = [v \in Voices |-> IF v \in callers THEN "calling" ELSE "quiet"]
  /\ rungAt' = [v \in Voices |-> 1]

CouncilInit ==
  /\ job \in {"council", "auto"}
  /\ stage = IF job = "auto" THEN "triage" ELSE "answers"
  /\ voice = [v \in Voices |->
       IF v \in (IF job = "auto" THEN {"conductor"} ELSE Members) THEN "calling" ELSE "quiet"]
  /\ rungAt = [v \in Voices |-> 1]
  /\ known = {} /\ letters = <<>> /\ reviews = {}
  /\ conducted = "none" /\ checked = "none"
-----------------------------------------------------------------------------
(* run_with_failover. *)
RungOf(v) == LadderOf[v][rungAt[v]]

Passed(v) == RungOf(v) \in known

AskRung(v) ==
  /\ voice[v] = "calling"
  /\ IF rungAt[v] > Len(LadderOf[v])
       THEN voice' = [voice EXCEPT ![v] = "error"] /\ UNCHANGED rungAt
     ELSE IF Passed(v)
       THEN rungAt' = [rungAt EXCEPT ![v] = @ + 1] /\ UNCHANGED voice
     ELSE voice' = [voice EXCEPT ![v] = "asking"] /\ UNCHANGED rungAt
  /\ UNCHANGED <<stage, job, known, letters, reviews, conducted, checked>>

(* The model completes, with a text or without. *)
Answer(v) ==
  /\ voice[v] = "asking"
  /\ \E said \in {"text", "silent"} : voice' = [voice EXCEPT ![v] = said]
  /\ UNCHANGED <<stage, job, rungAt, known, letters, reviews, conducted, checked>>

(* It fails, and may be dead or cold from now on. *)
Demoted(v) ==
  /\ voice[v] = "asking"
  /\ voice' = [voice EXCEPT ![v] = "calling"]
  /\ rungAt' = [rungAt EXCEPT ![v] = @ + 1]
  /\ known' \in {known, known \cup {RungOf(v)}}
  /\ UNCHANGED <<stage, job, letters, reviews, conducted, checked>>
-----------------------------------------------------------------------------
(* run_council. *)
Answered == {m \in Members : voice[m] = "text"}

(* Mutant of Surviving: a label that answered is enough. *)
SurvivingByLabel == {m \in Members : \E n \in Answered : LabelOf[n] = LabelOf[m]}

(* Those that did not answer are told by their label, and so are the       *)
(* surviving members, who review.                                          *)
FailedLabels == {LabelOf[m] : m \in Members \ Answered}
Surviving == {m \in Members : LabelOf[m] \notin FailedLabels}

(* The answers get their letters in a random order. *)
Shuffles(answers) ==
  {f \in [answers -> 0 .. Cardinality(answers) - 1] :
     \A m, n \in answers : f[m] = f[n] => m = n}

(* Mutant of Joined: the join waits for answers. *)
JoinedAnswering(callers) == \A v \in callers : voice[v] = "text"

Joined(callers) == \A v \in callers : voice[v] \in Returned \cup {"quiet"}

GatherAnswers ==
  /\ stage = "answers" /\ Joined(Members)
  /\ IF Answered = {}
       THEN /\ stage' = "error"
            /\ UNCHANGED <<voice, rungAt, letters>>
       ELSE /\ stage' = "reviews"
            /\ letters' \in Shuffles(Answered)
            /\ Calling(Surviving)
  /\ UNCHANGED <<job, known, reviews, conducted, checked>>

(* A failed review is ignored; the rest goes to the chairman. *)
GatherReviews ==
  /\ stage = "reviews" /\ Joined(Members)
  /\ stage' = "synthesis"
  /\ reviews' = {m \in Members : voice[m] \in {"text", "silent"}}
  /\ Calling({"chairman"})
  /\ UNCHANGED <<job, known, letters, conducted, checked>>

Synthesise ==
  /\ stage = "synthesis" /\ Joined({"chairman"})
  /\ IF voice["chairman"] = "error" THEN stage' = "error" /\ UNCHANGED <<voice, rungAt>>
     ELSE IF job = "council" THEN stage' = "done" /\ UNCHANGED <<voice, rungAt>>
     ELSE stage' = "conduct" /\ Calling({"conductor"})
  /\ UNCHANGED <<job, known, letters, reviews, conducted, checked>>
-----------------------------------------------------------------------------
(* run_auto.  A triage that is not understood is standard. *)
Triage ==
  /\ stage = "triage" /\ Joined({"conductor"})
  /\ \/ voice["conductor"] = "error" /\ stage' = "error" /\ UNCHANGED <<voice, rungAt>>
     \/ voice["conductor"] = "text" /\ stage' = "conduct" /\ Calling({"conductor"})
     \/ voice["conductor"] # "error" /\ stage' = "answers" /\ Calling(Members)
  /\ UNCHANGED <<job, known, letters, reviews, conducted, checked>>

RunConduct ==
  /\ stage = "conduct" /\ Joined({"conductor"})
  /\ IF voice["conductor"] = "error" THEN stage' = "error" /\ UNCHANGED conducted
     ELSE /\ conducted' \in {"completed", "failed", "halted", "nothing"}
          /\ stage' = IF conducted' = "completed" /\ HasCheck THEN "check" ELSE "done"
  /\ UNCHANGED <<job, voice, rungAt, known, letters, reviews, checked>>

(* The check command: it exits, is killed at its time-out, or cannot be    *)
(* run at all, which is an error of the whole pipeline.                    *)
RunCheck ==
  /\ stage = "check"
  /\ \/ checked' \in {"passed", "failed", "timed_out"} /\ stage' = "done"
     \/ stage' = "error" /\ UNCHANGED checked
  /\ UNCHANGED <<job, voice, rungAt, known, letters, reviews, conducted>>
-----------------------------------------------------------------------------
CouncilStep ==
  \/ \E v \in Voices : AskRung(v) \/ Answer(v) \/ Demoted(v)
  \/ GatherAnswers \/ GatherReviews \/ Synthesise \/ Triage \/ RunConduct \/ RunCheck

(* A pipeline stays where it ended. *)
CouncilNext == CouncilStep \/ (stage \in Over /\ UNCHANGED councilVars)

CouncilFair == WF_councilVars(CouncilStep)

CouncilSpec == CouncilInit /\ [][CouncilNext]_councilVars /\ CouncilFair
-----------------------------------------------------------------------------
(* Whoever answers late, says nothing or fails with every model it has,    *)
(* a run reaches its end: joining the members never waits for more than    *)
(* their calls.                                                            *)
PipelineEnds == <>(stage \in Over)

(* Every review that reaches the chairman is of a member whose own answer  *)
(* is among the anonymous ones: a member that failed never reviews, though *)
(* the reviewers are told by labels and another member with its label did  *)
(* answer.                                                                 *)
ReviewersAnswered == reviews \subseteq DOMAIN letters

(* council.rs: "Surviving members (those that produced an answer)          *)
(* participate in review".                                                 *)
SurvivorsReview == stage = "reviews" =>
  \A m \in Members : m \in DOMAIN letters <=> voice[m] # "quiet"
================================================================================
