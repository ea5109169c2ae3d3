--------------------------------- MODULE Usage ---------------------------------
(***************************************************************************)
(* The usage log under ~/.consilium (core/src/quota.rs) and the choice of  *)
(* a worker by it (orchestrator/routing.rs).                               *)
(*                                                                         *)
(* Every role call of every run records a row, one transaction each; a     *)
(* choice reads the total of one provider after the other.                 *)
(***************************************************************************)
EXTENDS Naturals, Sequences, FiniteSets, Functions

CONSTANTS
  Workers,    \* the provider of each worker, in order
  Window,     \* ROUTING_WINDOW_SECS
  LastHour,   \* bound on the clock
  MaxTokens   \* bound on the tokens of a provider at a time

ASSUME UsageAssumption ==
  /\ Workers \in Seq(STRING) /\ Workers # <<>>
  /\ {Window, LastHour, MaxTokens} \subseteq Nat

VARIABLES
  clock,   \* unix_now
  usage,   \* the rows: of a provider, at a time, each of one token
  choice   \* pick_worker_by_provider

usageVars == <<clock, usage, choice>>

Clock == 0 .. LastHour
Providers == Range(Workers)
Unlimited == MaxTokens * (LastHour + 1) + 1   \* u64::MAX

UsageInit ==
  /\ clock = 0
  /\ usage = {}
  /\ choice = [at |-> "idle"]

ClockTicks == clock < LastHour /\ clock' = clock + 1 /\ UNCHANGED <<usage, choice>>

(* record and record_estimated.  A row that cannot be written is logged    *)
(* and forgotten; one of many tokens is as many rows.                      *)
RecordUsage(p) ==
  LET nth == Cardinality({row \in usage : row.of = p /\ row.at = clock}) + 1 IN
  /\ nth <= MaxTokens
  /\ usage' = usage \cup {[of |-> p, at |-> clock, nth |-> nth]}
  /\ UNCHANGED <<clock, choice>>

(* totals_since: estimates count. *)
TotalSince(p, since) == Cardinality({row \in usage : row.of = p /\ row.at >= since})

PickWorker ==
  /\ choice.at # "reading"
  /\ choice' = [at |-> "reading", since |-> IF clock > Window THEN clock - Window ELSE 0,
                next |-> 1, best |-> 1, load |-> Unlimited]
  /\ UNCHANGED <<clock, usage>>

(* Mutant of Better: the load of the best so far is not kept. *)
BetterForgets(seen, i, load) == IF load < seen.load THEN [seen EXCEPT !.best = i] ELSE seen

(* Less than all before it: a tie goes to the first. *)
Better(seen, i, load) ==
  IF load < seen.load THEN [seen EXCEPT !.best = i, !.load = load] ELSE seen

ReadLoad ==
  /\ choice.at = "reading"
  /\ LET i == choice.next
         seen == Better(choice, i, TotalSince(Workers[i], choice.since))
     IN  choice' = [seen EXCEPT !.next = i + 1,
                                !.at = IF i = Len(Workers) THEN "picked" ELSE "reading"]
  /\ UNCHANGED <<clock, usage>>

UsageNext ==
  \/ ClockTicks \/ PickWorker \/ ReadLoad
  \/ \E p \in Providers : RecordUsage(p)

UsageSpec == UsageInit /\ [][UsageNext]_usageVars
-----------------------------------------------------------------------------
(* The choice is fair to the quotas although other runs go on recording    *)
(* while it reads: what the picked provider had used of the window when it *)
(* was read is not more than what any provider has used of it now, and     *)
(* among equals the first is picked: those before it have used more.       *)
PickedIsLeast ==
  choice.at = "picked" =>
    \A i \in DOMAIN Workers :
      /\ choice.load <= TotalSince(Workers[i], choice.since)
      /\ i < choice.best => choice.load < TotalSince(Workers[i], choice.since)
      /\ Workers[i] = Workers[choice.best] => choice.best <= i
================================================================================
