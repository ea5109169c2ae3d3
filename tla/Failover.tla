------------------------------ MODULE Failover ------------------------------
(***************************************************************************)
(* run_with_failover of core/src/orchestrator/resilience.rs and the        *)
(* ModelHealth its callers share: the members of a council and the tool    *)
(* calls of the MCP server run their ladders at the same time, and what    *)
(* one of them learns about a model the others read at their next rung.    *)
(*                                                                         *)
(* A rung is its model.  One attempt (run_to_completion and the adapter's  *)
(* classify_failure) is a step whose outcome the environment chooses; a    *)
(* launch error counts as "transient".  The fallback list is left out: it  *)
(* names the rungs before the current one.                                 *)
(***************************************************************************)
EXTENDS Integers, Sequences, FiniteSets

CONSTANTS
  Callers,      \* concurrent calls of run_with_failover
  Models,
  Reliable,     \* models whose attempts always complete
  Ladders,      \* the ladders a role may be configured with
  MaxRetries,   \* RetryConfig.max_retries
  ColdAfter     \* RetryConfig.cold_after, 0 disables the breaker

ASSUME LaddersAssumption == Ladders \subseteq Seq(Models)
ASSUME ReliableAssumption == Reliable \subseteq Models
ASSUME RetryAssumption == MaxRetries \in Nat /\ ColdAfter \in Nat
ASSUME CallersAssumption == IsFiniteSet(Callers) /\ Callers # {}

VARIABLES
  pc,         \* where each caller is
  ladder,     \* its ladder
  rung,       \* the rung it is at
  retries,    \* retries made on this rung
  timeouts,   \* history: attempts of this visit of the rung that timed out
  dead, cold, \* the shared ModelHealth
  hits,       \* rate_limit_hits
  lateStarts  \* history: attempts started on a model already marked dead

callVars == <<pc, ladder, rung, retries, timeouts>>
healthVars == <<dead, cold, hits>>
vars == <<callVars, healthVars, lateStarts>>

Outcomes == {"completed", "unavailable", "rate_limited", "transient", "timed_out"}
Retryable == {"rate_limited", "transient", "timed_out"}
Returned == {"idle", "ok", "err"}
Visiting == {"start", "attempt"}

TypeOK ==
  /\ pc \in [Callers -> Returned \cup Visiting \cup {"rung"}]
  /\ ladder \in [Callers -> Ladders \cup {<<>>}]
  /\ rung \in [Callers -> Nat \ {0}]
  /\ \A c \in Callers :
       /\ rung[c] <= Len(ladder[c]) + 1
       /\ pc[c] \in Visiting => rung[c] <= Len(ladder[c])
  /\ retries \in [Callers -> 0 .. MaxRetries]
  /\ timeouts \in [Callers -> Nat]
  /\ dead \subseteq Models /\ cold \subseteq Models
  /\ hits \in [Models -> Nat]
  /\ lateStarts \in [Models -> Nat]

Init ==
  /\ pc = [c \in Callers |-> "idle"]
  /\ ladder = [c \in Callers |-> <<>>]
  /\ rung = [c \in Callers |-> 1]
  /\ retries = [c \in Callers |-> 0]
  /\ timeouts = [c \in Callers |-> 0]
  /\ dead = {} /\ cold = {}
  /\ hits = [m \in Models |-> 0]
  /\ lateStarts = [m \in Models |-> 0]
-----------------------------------------------------------------------------
Model(c) == ladder[c][rung[c]]
HasRung(c) == rung[c] <= Len(ladder[c])

(* Mutant of Skipped: the dead are visited again. *)
SkippedWhenCold(m) == m \in cold

Skipped(m) == m \in dead \cup cold

(* A role calls its ladder, now or again; an empty one is an error. *)
Call(c) ==
  /\ pc[c] \in Returned
  /\ \E l \in Ladders :
       /\ ladder' = [ladder EXCEPT ![c] = l]
       /\ pc' = [pc EXCEPT ![c] = IF l = <<>> THEN "err" ELSE "rung"]
  /\ rung' = [rung EXCEPT ![c] = 1]
  /\ timeouts' = [timeouts EXCEPT ![c] = 0]
  /\ UNCHANGED <<retries, healthVars, lateStarts>>

(* The top of the loop: a rung known to be dead or cold is passed over. *)
SkipRung(c) ==
  /\ pc[c] = "rung" /\ HasRung(c)
  /\ Skipped(Model(c))
  /\ rung' = [rung EXCEPT ![c] = @ + 1]
  /\ UNCHANGED <<pc, ladder, retries, timeouts, healthVars, lateStarts>>

(* Mutant of EnterRung: only the dead are passed over. *)
EnterColdRung(c) ==
  /\ pc[c] = "rung" /\ HasRung(c)
  /\ Model(c) \notin dead
  /\ pc' = [pc EXCEPT ![c] = "start"]
  /\ timeouts' = [timeouts EXCEPT ![c] = 0]
  /\ UNCHANGED <<ladder, rung, retries, healthVars, lateStarts>>

EnterRung(c) ==
  /\ pc[c] = "rung" /\ HasRung(c)
  /\ ~Skipped(Model(c))
  /\ pc' = [pc EXCEPT ![c] = "start"]
  /\ timeouts' = [timeouts EXCEPT ![c] = 0]
  /\ UNCHANGED <<ladder, rung, retries, healthVars, lateStarts>>

(* The first attempt, or a retry after its backoff.  The health is not     *)
(* looked at again, and other callers may have changed it.                 *)
StartAttempt(c) ==
  /\ pc[c] = "start"
  /\ pc' = [pc EXCEPT ![c] = "attempt"]
  /\ lateStarts' = IF Model(c) \in dead
                     THEN [lateStarts EXCEPT ![Model(c)] = @ + 1] ELSE lateStarts
  /\ UNCHANGED <<ladder, rung, retries, timeouts, healthVars>>

Complete(c) ==
  /\ pc[c] = "attempt"
  /\ pc' = [pc EXCEPT ![c] = "ok"]
  /\ retries' = [retries EXCEPT ![c] = 0]
  /\ UNCHANGED <<ladder, rung, timeouts, healthVars, lateStarts>>

(* Mutant of MayRetry: a hung rung uses the whole retry budget. *)
MayRetryHung(c, outcome) ==
  outcome \in Retryable /\ retries[c] < MaxRetries

(* A time-out is retried once at most, whatever the budget. *)
MayRetry(c, outcome) ==
  /\ outcome \in Retryable
  /\ retries[c] < MaxRetries
  /\ ~(retries[c] >= 1 /\ outcome = "timed_out")

CountTimeout(c, outcome) ==
  timeouts' = IF outcome = "timed_out"
                THEN [timeouts EXCEPT ![c] = @ + 1] ELSE timeouts

(* Mutant of Retry: the counter of retries is not advanced. *)
RetryForever(c, outcome) ==
  /\ MayRetry(c, outcome)
  /\ pc' = [pc EXCEPT ![c] = "start"]
  /\ CountTimeout(c, outcome)
  /\ UNCHANGED <<ladder, rung, retries, healthVars, lateStarts>>

Retry(c, outcome) ==
  /\ MayRetry(c, outcome)
  /\ pc' = [pc EXCEPT ![c] = "start"]
  /\ retries' = [retries EXCEPT ![c] = @ + 1]
  /\ CountTimeout(c, outcome)
  /\ UNCHANGED <<ladder, rung, healthVars, lateStarts>>

(* mark_dead and record_rate_limit, from the outcome of the last attempt. *)
Learn(m, outcome) ==
  /\ dead' = IF outcome = "unavailable" THEN dead \cup {m} ELSE dead
  /\ IF outcome = "rate_limited" /\ ColdAfter > 0
       THEN /\ hits' = [hits EXCEPT ![m] = @ + 1]
            /\ cold' = IF hits[m] + 1 >= ColdAfter THEN cold \cup {m} ELSE cold
       ELSE UNCHANGED <<cold, hits>>

(* Mutant of Demote: the ladder is left when a model is pulled. *)
DemoteAll(c, outcome) ==
  /\ ~MayRetry(c, outcome)
  /\ Learn(Model(c), outcome)
  /\ pc' = [pc EXCEPT ![c] = IF outcome = "unavailable" THEN "err" ELSE "rung"]
  /\ rung' = [rung EXCEPT ![c] = @ + 1]
  /\ retries' = [retries EXCEPT ![c] = 0]
  /\ CountTimeout(c, outcome)
  /\ UNCHANGED <<ladder, lateStarts>>

Demote(c, outcome) ==
  /\ ~MayRetry(c, outcome)
  /\ Learn(Model(c), outcome)
  /\ pc' = [pc EXCEPT ![c] = "rung"]
  /\ rung' = [rung EXCEPT ![c] = @ + 1]
  /\ retries' = [retries EXCEPT ![c] = 0]
  /\ CountTimeout(c, outcome)
  /\ UNCHANGED <<ladder, lateStarts>>

Fail(c) ==
  /\ pc[c] = "attempt"
  /\ Model(c) \notin Reliable
  /\ \E outcome \in Outcomes \ {"completed"} : Retry(c, outcome) \/ Demote(c, outcome)

Exhausted(c) ==
  /\ pc[c] = "rung" /\ ~HasRung(c)
  /\ pc' = [pc EXCEPT ![c] = "err"]
  /\ UNCHANGED <<ladder, rung, retries, timeouts, healthVars, lateStarts>>

Advance(c) ==
  SkipRung(c) \/ EnterRung(c) \/ StartAttempt(c) \/ Complete(c) \/ Fail(c) \/ Exhausted(c)

Next == \E c \in Callers : Call(c) \/ Advance(c)

(* Attempts end by their timeout at the latest and backoffs elapse; a role *)
(* need not call again.                                                    *)
Spec == Init /\ [][Next]_vars /\ \A c \in Callers : WF_vars(Advance(c))
-----------------------------------------------------------------------------
(* An error is earned: no rung of the ladder could have served the call.   *)
(* Whatever other callers did to the shared health, a ladder with a model  *)
(* that works is never reported as exhausted.                              *)
ReliableSaves ==
  \A c \in Callers : pc[c] = "err" =>
    \A i \in DOMAIN ladder[c] : ladder[c][i] \notin Reliable

(* "Shared across all roles in a run so a model pulled mid-run is skipped  *)
(* everywhere afterward": up to the attempts of the visits that the other  *)
(* callers were in when the model was marked, nobody starts on it again.   *)
PulledModelLeft ==
  \A m \in Models :
    lateStarts[m] <= (Cardinality(Callers) - 1) * (MaxRetries + 1)

(* The breaker trips at cold_after hits; after that only the callers that  *)
(* were on the rung already can add one hit each.                          *)
BreakerHolds ==
  /\ \A m \in Models : m \in cold => hits[m] >= ColdAfter
  /\ ColdAfter > 0 =>
       \A m \in Models : hits[m] <= ColdAfter - 1 + Cardinality(Callers)

(* "cap it at one retry regardless of max_retries so a hung rung demotes   *)
(* promptly": no visit of a rung waits for a third timeout.                *)
HungRungDemotes == \A c \in Callers : timeouts[c] <= 2

(* Every call returns, however the models answer. *)
CallsReturn ==
  \A c \in Callers : pc[c] \notin Returned ~> pc[c] \in Returned
=============================================================================
