--------------------------- MODULE FailoverProofs ---------------------------
(***************************************************************************)
(* Safety of the failover ladders for any number of concurrent callers,    *)
(* any ladders, any retry budget and any breaker threshold.                *)
(***************************************************************************)
EXTENDS Failover, FiniteSetTheorems, TLAPS

(* The retry counter belongs to a visit, and a visit goes on only while at *)
(* most one of its attempts timed out.                                     *)
VisitInv ==
  \A c \in Callers :
    /\ timeouts[c] <= 2
    /\ pc[c] \in Visiting =>
         timeouts[c] <= 1 /\ (retries[c] = 0 => timeouts[c] = 0)
    /\ pc[c] \notin Visiting => retries[c] = 0

(* What the health says is earned, and so is every rung passed over.       *)
PassedInv ==
  /\ (dead \cup cold) \cap Reliable = {}
  /\ \A c \in Callers :
       /\ pc[c] \notin {"idle", "ok"} =>
            \A i \in DOMAIN ladder[c] : i < rung[c] => ladder[c][i] \notin Reliable
       /\ pc[c] = "err" => rung[c] > Len(ladder[c])

(* The callers that are on a rung of model m.                              *)
OnRung(m) == {c \in Callers : pc[c] \in Visiting /\ Model(c) = m}

(* Once m is cold, a hit costs its caller the visit and nobody enters.     *)
BreakerInv ==
  \A m \in Models :
    /\ m \notin cold => (IF ColdAfter = 0 THEN hits[m] = 0 ELSE hits[m] < ColdAfter)
    /\ m \in cold =>
         /\ ColdAfter > 0 /\ hits[m] >= ColdAfter
         /\ hits[m] + Cardinality(OnRung(m)) <= ColdAfter - 1 + Cardinality(Callers)

(* The attempts that the callers on a rung of m may still start there.     *)
Starts == 0 .. MaxRetries
StillOpen(c, k) == IF pc[c] = "start" THEN k >= retries[c] ELSE k > retries[c]
Open(m) ==
  {t \in Callers \X Starts : t[1] \in OnRung(m) /\ StillOpen(t[1], t[2])}

LateBound == (Cardinality(Callers) - 1) * (MaxRetries + 1)

(* Once m is dead, every start uses up one of those.                       *)
LateInv ==
  \A m \in Models :
    /\ m \notin dead => lateStarts[m] = 0
    /\ m \in dead => lateStarts[m] + Cardinality(Open(m)) <= LateBound

IInv == TypeOK /\ VisitInv /\ PassedInv /\ BreakerInv /\ LateInv
-----------------------------------------------------------------------------
LEMMA LadderTyped ==
  ASSUME TypeOK, NEW c \in Callers
  PROVE  /\ ladder[c] \in Seq(Models) /\ Len(ladder[c]) \in Nat
         /\ DOMAIN ladder[c] = 1 .. Len(ladder[c])
<1>1. ladder[c] \in Ladders \cup {<<>>}
  BY DEF TypeOK
<1>2. <<>> \in Seq(Models)
  OBVIOUS
<1>3. ladder[c] \in Seq(Models)
  BY <1>1, <1>2, LaddersAssumption
<1> QED
  BY <1>3

(* A visited rung has a model. *)
LEMMA ModelTyped ==
  ASSUME TypeOK, NEW c \in Callers, HasRung(c)
  PROVE  /\ Model(c) \in Models
         /\ rung[c] \in DOMAIN ladder[c] /\ Len(ladder[c]) \in Nat
<1>1. ladder[c] \in Seq(Models) /\ Len(ladder[c]) \in Nat
  BY LadderTyped
<1>2. rung[c] \in 1 .. Len(ladder[c])
  BY <1>1 DEF TypeOK, HasRung
<1> QED
  BY <1>1, <1>2 DEF Model

LEMMA VisitingHasRung ==
  ASSUME TypeOK, NEW c \in Callers, pc[c] \in Visiting
  PROVE  HasRung(c)
BY DEF TypeOK, HasRung

LEMMA Learns ==
  ASSUME TypeOK, NEW m \in Models, NEW outcome, Learn(m, outcome)
  PROVE  /\ dead' \subseteq dead \cup {m} /\ dead \subseteq dead' /\ dead' \subseteq Models
         /\ cold' \subseteq cold \cup {m} /\ cold \subseteq cold' /\ cold' \subseteq Models
         /\ hits' \in [Models -> Nat]
         /\ \A x \in Models \ {m} : hits'[x] = hits[x]
         /\ hits'[m] \in {hits[m], hits[m] + 1}
<1>1. hits[m] \in Nat
  BY DEF TypeOK
<1> QED
  BY <1>1 DEF Learn, TypeOK
-----------------------------------------------------------------------------
LEMMA InitIInv == Init => IInv
<1> SUFFICES ASSUME Init PROVE IInv
  OBVIOUS
<1>1. TypeOK
  BY RetryAssumption DEF Init, TypeOK, Returned, Visiting
<1>2. VisitInv /\ PassedInv
  BY DEF Init, VisitInv, PassedInv, Visiting
<1>3. BreakerInv
  BY RetryAssumption DEF Init, BreakerInv
<1>4. LateInv
  BY DEF Init, LateInv
<1> QED
  BY <1>1, <1>2, <1>3, <1>4 DEF IInv

LEMMA StepTypeOK == TypeOK /\ [Next]_vars => TypeOK'
<1> SUFFICES ASSUME TypeOK, [Next]_vars PROVE TypeOK'
  OBVIOUS
<1> USE RetryAssumption
<1>1. ASSUME NEW c \in Callers, Call(c) PROVE TypeOK'
  <2>1. PICK l \in Ladders : /\ ladder' = [ladder EXCEPT ![c] = l]
                             /\ pc' = [pc EXCEPT ![c] = IF l = <<>> THEN "err" ELSE "rung"]
    BY <1>1 DEF Call
  <2>2. l \in Seq(Models) /\ Len(l) \in Nat
    BY LaddersAssumption
  <2>3. \A d \in Callers : /\ rung'[d] <= Len(ladder'[d]) + 1
                           /\ pc'[d] \in Visiting => rung'[d] <= Len(ladder'[d])
    BY <1>1, <2>1, <2>2 DEF Call, TypeOK, Visiting
  <2> QED
    BY <1>1, <2>1, <2>3 DEF Call, TypeOK, Returned, Visiting, healthVars
<1>2. ASSUME NEW c \in Callers, SkipRung(c) PROVE TypeOK'
  <2>1. Len(ladder[c]) \in Nat
    BY LadderTyped
  <2>2. rung' \in [Callers -> Nat \ {0}]
    BY <1>2 DEF SkipRung, TypeOK
  <2>3. \A d \in Callers : /\ rung'[d] <= Len(ladder'[d]) + 1
                           /\ pc'[d] \in Visiting => rung'[d] <= Len(ladder'[d])
    BY <1>2, <2>1 DEF SkipRung, TypeOK, HasRung, Visiting
  <2> QED
    BY <1>2, <2>2, <2>3 DEF SkipRung, TypeOK, healthVars
<1>3. ASSUME NEW c \in Callers, EnterRung(c) PROVE TypeOK'
  BY <1>3 DEF EnterRung, TypeOK, HasRung, healthVars, Returned, Visiting
<1>4. ASSUME NEW c \in Callers, StartAttempt(c) PROVE TypeOK'
  <2>1. Model(c) \in Models
    BY <1>4, VisitingHasRung, ModelTyped DEF StartAttempt, Visiting
  <2>2. lateStarts' \in [Models -> Nat]
    BY <1>4, <2>1 DEF StartAttempt, TypeOK
  <2> QED
    BY <1>4, <2>2 DEF StartAttempt, TypeOK, healthVars, Returned, Visiting
<1>5. ASSUME NEW c \in Callers, Complete(c) PROVE TypeOK'
  BY <1>5 DEF Complete, TypeOK, healthVars, Returned, Visiting
<1>6. ASSUME NEW c \in Callers, pc[c] = "attempt", NEW outcome \in Outcomes, Retry(c, outcome)
      PROVE  TypeOK'
  <2>1. timeouts' \in [Callers -> Nat]
    BY <1>6 DEF Retry, CountTimeout, TypeOK
  <2>2. retries' \in [Callers -> 0 .. MaxRetries]
    BY <1>6 DEF Retry, MayRetry, TypeOK
  <2> QED
    BY <1>6, <2>1, <2>2 DEF Retry, TypeOK, healthVars, Returned, Visiting
<1>7. ASSUME NEW c \in Callers, pc[c] = "attempt", NEW outcome \in Outcomes, Demote(c, outcome)
      PROVE  TypeOK'
  <2>1. timeouts' \in [Callers -> Nat]
    BY <1>7 DEF Demote, CountTimeout, TypeOK
  <2>2. HasRung(c) /\ Model(c) \in Models
    BY <1>7, VisitingHasRung, ModelTyped DEF Visiting
  <2>3. dead' \subseteq Models /\ cold' \subseteq Models /\ hits' \in [Models -> Nat]
    BY <1>7, <2>2, Learns DEF Demote
  <2>4. \A d \in Callers : /\ rung'[d] <= Len(ladder'[d]) + 1
                           /\ pc'[d] \in Visiting => rung'[d] <= Len(ladder'[d])
    BY <1>7, <2>2, LadderTyped DEF Demote, TypeOK, HasRung, Visiting
  <2>5. rung' \in [Callers -> Nat \ {0}] /\ retries' \in [Callers -> 0 .. MaxRetries]
    BY <1>7 DEF Demote, TypeOK
  <2>6. pc' \in [Callers -> Returned \cup Visiting \cup {"rung"}]
    BY <1>7 DEF Demote, TypeOK
  <2>7. ladder' = ladder /\ lateStarts' = lateStarts
    BY <1>7 DEF Demote
  <2> QED
    BY <2>1, <2>3, <2>4, <2>5, <2>6, <2>7 DEF TypeOK
<1>8. ASSUME NEW c \in Callers, Exhausted(c) PROVE TypeOK'
  BY <1>8 DEF Exhausted, TypeOK, healthVars, Returned, Visiting
<1>9. ASSUME UNCHANGED vars PROVE TypeOK'
  BY <1>9 DEF TypeOK, vars, callVars, healthVars
<1> QED
  BY <1>1, <1>2, <1>3, <1>4, <1>5, <1>6, <1>7, <1>8, <1>9 DEF Next, Advance, Fail
-----------------------------------------------------------------------------
LEMMA StepVisitInv == TypeOK /\ VisitInv /\ [Next]_vars => VisitInv'
<1> SUFFICES ASSUME TypeOK, VisitInv, [Next]_vars,
                    NEW d \in Callers
             PROVE  /\ timeouts'[d] <= 2
                    /\ pc'[d] \in Visiting =>
                         timeouts'[d] <= 1 /\ (retries'[d] = 0 => timeouts'[d] = 0)
                    /\ pc'[d] \notin Visiting => retries'[d] = 0
  BY DEF VisitInv
<1> USE RetryAssumption
<1>0. retries[d] \in Nat /\ timeouts[d] \in Nat
  BY DEF TypeOK
<1>1. ASSUME NEW c \in Callers, Call(c) \/ SkipRung(c) \/ EnterRung(c) \/ StartAttempt(c)
                                \/ Complete(c) \/ Exhausted(c)
      PROVE  /\ timeouts'[d] <= 2
             /\ pc'[d] \in Visiting =>
                  timeouts'[d] <= 1 /\ (retries'[d] = 0 => timeouts'[d] = 0)
             /\ pc'[d] \notin Visiting => retries'[d] = 0
  <2>1. CASE Call(c)
    BY <1>0, <2>1 DEF Call, VisitInv, TypeOK, Visiting, Returned
  <2>2. CASE SkipRung(c)
    BY <1>0, <2>2 DEF SkipRung, VisitInv
  <2>3. CASE EnterRung(c)
    BY <1>0, <2>3 DEF EnterRung, VisitInv, TypeOK, Visiting
  <2>4. CASE StartAttempt(c)
    BY <1>0, <2>4 DEF StartAttempt, VisitInv, TypeOK, Visiting
  <2>5. CASE Complete(c)
    BY <1>0, <2>5 DEF Complete, VisitInv, TypeOK, Visiting
  <2>6. CASE Exhausted(c)
    BY <1>0, <2>6 DEF Exhausted, VisitInv, TypeOK, Visiting
  <2> QED
    BY <1>1, <2>1, <2>2, <2>3, <2>4, <2>5, <2>6
<1>2. ASSUME NEW c \in Callers, pc[c] = "attempt", NEW outcome \in Outcomes, Retry(c, outcome)
      PROVE  /\ timeouts'[d] <= 2
             /\ pc'[d] \in Visiting =>
                  timeouts'[d] <= 1 /\ (retries'[d] = 0 => timeouts'[d] = 0)
             /\ pc'[d] \notin Visiting => retries'[d] = 0
  <2>1. CASE d = c
    <3>1. timeouts[c] <= 1 /\ (retries[c] = 0 => timeouts[c] = 0)
      BY <1>2 DEF VisitInv, Visiting
    <3>2. outcome = "timed_out" => retries[c] = 0
      BY <1>0, <1>2, <2>1 DEF Retry, MayRetry
    <3>3. timeouts'[c] = IF outcome = "timed_out" THEN timeouts[c] + 1 ELSE timeouts[c]
      BY <1>2 DEF Retry, CountTimeout, TypeOK
    <3>4. retries'[c] = retries[c] + 1 /\ pc'[c] = "start"
      BY <1>2 DEF Retry, TypeOK
    <3> QED
      BY <1>0, <2>1, <3>1, <3>2, <3>3, <3>4 DEF Visiting
  <2>2. CASE d # c
    BY <1>0, <1>2, <2>2 DEF Retry, CountTimeout, VisitInv, TypeOK
  <2> QED
    BY <2>1, <2>2
<1>3. ASSUME NEW c \in Callers, pc[c] = "attempt", NEW outcome \in Outcomes, Demote(c, outcome)
      PROVE  /\ timeouts'[d] <= 2
             /\ pc'[d] \in Visiting =>
                  timeouts'[d] <= 1 /\ (retries'[d] = 0 => timeouts'[d] = 0)
             /\ pc'[d] \notin Visiting => retries'[d] = 0
  <2>1. CASE d = c
    BY <1>0, <1>3, <2>1 DEF Demote, CountTimeout, VisitInv, TypeOK, Visiting
  <2>2. CASE d # c
    BY <1>0, <1>3, <2>2 DEF Demote, CountTimeout, VisitInv, TypeOK
  <2> QED
    BY <2>1, <2>2
<1>4. ASSUME UNCHANGED vars
      PROVE  /\ timeouts'[d] <= 2
             /\ pc'[d] \in Visiting =>
                  timeouts'[d] <= 1 /\ (retries'[d] = 0 => timeouts'[d] = 0)
             /\ pc'[d] \notin Visiting => retries'[d] = 0
  BY <1>4 DEF VisitInv, vars, callVars
<1> QED
  BY <1>1, <1>2, <1>3, <1>4 DEF Next, Advance, Fail

LEMMA StepPassedInv == TypeOK /\ PassedInv /\ [Next]_vars => PassedInv'
<1> SUFFICES ASSUME TypeOK, PassedInv, [Next]_vars
             PROVE  PassedInv'
  OBVIOUS
<1> DEFINE Passed(c) ==
      /\ pc[c] \notin {"idle", "ok"} =>
           \A i \in DOMAIN ladder[c] : i < rung[c] => ladder[c][i] \notin Reliable
      /\ pc[c] = "err" => rung[c] > Len(ladder[c])
<1>0. ASSUME NEW c \in Callers,
             pc'[c] = pc[c] /\ rung'[c] = rung[c] /\ ladder'[c] = ladder[c]
      PROVE  Passed(c)'
  BY <1>0 DEF PassedInv
<1>1. ASSUME NEW c \in Callers, Call(c) PROVE PassedInv'
  <2>1. PICK l \in Ladders : /\ ladder' = [ladder EXCEPT ![c] = l]
                             /\ pc' = [pc EXCEPT ![c] = IF l = <<>> THEN "err" ELSE "rung"]
    BY <1>1 DEF Call
  <2>2. l \in Seq(Models) /\ Len(l) \in Nat /\ DOMAIN l = 1 .. Len(l)
    BY LaddersAssumption
  <2>3. ladder'[c] = l /\ rung'[c] = 1 /\ pc'[c] = IF l = <<>> THEN "err" ELSE "rung"
    BY <1>1, <2>1 DEF Call, TypeOK
  <2>4. Passed(c)'
    BY <2>2, <2>3
  <2>5. \A d \in Callers \ {c} : Passed(d)'
    BY <1>0, <1>1, <2>1 DEF Call, TypeOK
  <2> QED
    BY <1>1, <2>4, <2>5 DEF Call, PassedInv, healthVars
<1>2. ASSUME NEW c \in Callers, SkipRung(c) PROVE PassedInv'
  <2>1. ladder[c][rung[c]] \notin Reliable
    BY <1>2, LadderTyped, ModelTyped DEF SkipRung, Skipped, Model, PassedInv
  <2>2. DOMAIN ladder[c] = 1 .. Len(ladder[c]) /\ Len(ladder[c]) \in Nat /\ rung[c] \in Nat
    BY LadderTyped DEF TypeOK
  <2>3. ladder' = ladder /\ pc' = pc /\ pc[c] = "rung" /\ rung'[c] = rung[c] + 1
    BY <1>2 DEF SkipRung, TypeOK
  <2>4. Passed(c)'
    BY <2>1, <2>2, <2>3 DEF PassedInv
  <2>5. \A d \in Callers \ {c} : Passed(d)'
    BY <1>0, <1>2 DEF SkipRung, TypeOK
  <2> QED
    BY <1>2, <2>4, <2>5 DEF SkipRung, PassedInv, healthVars
<1>3. ASSUME NEW c \in Callers, EnterRung(c) \/ StartAttempt(c) \/ Complete(c)
      PROVE  PassedInv'
  <2>1. /\ ladder' = ladder /\ rung' = rung /\ dead' = dead /\ cold' = cold
        /\ pc[c] \notin {"idle", "ok"} /\ pc'[c] # "err"
        /\ \A d \in Callers \ {c} : pc'[d] = pc[d]
    BY <1>3 DEF EnterRung, StartAttempt, Complete, TypeOK, healthVars
  <2> QED
    BY <2>1 DEF PassedInv
<1>4. ASSUME NEW c \in Callers, pc[c] = "attempt", NEW outcome \in Outcomes, Retry(c, outcome)
      PROVE  PassedInv'
  <2>1. /\ ladder' = ladder /\ rung' = rung /\ dead' = dead /\ cold' = cold
        /\ pc'[c] # "err"
        /\ \A d \in Callers \ {c} : pc'[d] = pc[d]
    BY <1>4 DEF Retry, TypeOK, healthVars
  <2> QED
    BY <1>4, <2>1 DEF PassedInv
<1>5. ASSUME NEW c \in Callers, pc[c] = "attempt", Model(c) \notin Reliable,
             NEW outcome \in Outcomes, Demote(c, outcome)
      PROVE  PassedInv'
  <2>1. HasRung(c) /\ Model(c) \in Models
    BY <1>5, VisitingHasRung, ModelTyped DEF Visiting
  <2>2. dead' \subseteq dead \cup {Model(c)} /\ cold' \subseteq cold \cup {Model(c)}
    BY <1>5, <2>1, Learns DEF Demote
  <2>3. (dead' \cup cold') \cap Reliable = {}
    BY <1>5, <2>2 DEF PassedInv
  <2>4. DOMAIN ladder[c] = 1 .. Len(ladder[c]) /\ Len(ladder[c]) \in Nat /\ rung[c] \in Nat
    BY LadderTyped DEF TypeOK
  <2>5. ladder' = ladder /\ pc'[c] = "rung" /\ rung'[c] = rung[c] + 1
    BY <1>5 DEF Demote, TypeOK
  <2>6. Passed(c)'
    BY <1>5, <2>4, <2>5 DEF PassedInv, Model
  <2>7. \A d \in Callers \ {c} : Passed(d)'
    BY <1>0, <1>5 DEF Demote, TypeOK
  <2> QED
    BY <2>3, <2>6, <2>7 DEF PassedInv
<1>6. ASSUME NEW c \in Callers, Exhausted(c) PROVE PassedInv'
  <2>1. Len(ladder[c]) \in Nat /\ rung[c] \in Nat
    BY LadderTyped DEF TypeOK
  <2>4. /\ ladder' = ladder /\ rung' = rung /\ pc[c] = "rung"
        /\ rung[c] > Len(ladder[c])
    BY <1>6, <2>1 DEF Exhausted, HasRung
  <2>2. Passed(c)'
    BY <2>4 DEF PassedInv
  <2>3. \A d \in Callers \ {c} : Passed(d)'
    BY <1>0, <1>6 DEF Exhausted, TypeOK
  <2> QED
    BY <1>6, <2>2, <2>3 DEF Exhausted, PassedInv, healthVars
<1>7. ASSUME UNCHANGED vars PROVE PassedInv'
  BY <1>7 DEF PassedInv, vars, callVars, healthVars
<1> QED
  BY <1>1, <1>2, <1>3, <1>4, <1>5, <1>6, <1>7 DEF Next, Advance, Fail
-----------------------------------------------------------------------------
(* The rungs people are on: a skipped model gains nobody, and whoever      *)
(* learns something about a model leaves it.                               *)
LEMMA OnRungFinite ==
  ASSUME NEW m
  PROVE  /\ IsFiniteSet(OnRung(m)) /\ Cardinality(OnRung(m)) \in Nat
         /\ Cardinality(OnRung(m)) <= Cardinality(Callers)
         /\ Cardinality(Callers) \in Nat \ {0}
<1>1. OnRung(m) \in SUBSET Callers
  BY DEF OnRung
<1>2. IsFiniteSet(Callers) /\ Callers # {}
  BY CallersAssumption
<1> QED
  BY <1>1, <1>2, FS_Subset, FS_CardinalityType, FS_EmptySet

LEMMA OnRungSteps ==
  ASSUME TypeOK, NEW m \in dead \cup cold, NEW c \in Callers,
         Call(c) \/ SkipRung(c) \/ EnterRung(c) \/ StartAttempt(c) \/ Complete(c)
           \/ Exhausted(c)
  PROVE  OnRung(m)' \subseteq OnRung(m)
<1> SUFFICES ASSUME NEW d \in Callers, pc'[d] \in Visiting, Model(d)' = m
             PROVE  pc[d] \in Visiting /\ Model(d) = m
  BY DEF OnRung
<1>1. CASE Call(c)
  BY <1>1 DEF Call, TypeOK, Model, Visiting
<1>2. CASE SkipRung(c)
  BY <1>2 DEF SkipRung, TypeOK, Model, Visiting
<1>3. CASE EnterRung(c)
  BY <1>3 DEF EnterRung, TypeOK, Model, Visiting, Skipped
<1>4. CASE StartAttempt(c)
  BY <1>4 DEF StartAttempt, TypeOK, Model, Visiting
<1>5. CASE Complete(c)
  BY <1>5 DEF Complete, TypeOK, Model, Visiting
<1>6. CASE Exhausted(c)
  BY <1>6 DEF Exhausted, TypeOK, Model, Visiting
<1> QED
  BY <1>1, <1>2, <1>3, <1>4, <1>5, <1>6

LEMMA OnRungRetry ==
  ASSUME TypeOK, NEW m, NEW c \in Callers, pc[c] = "attempt",
         NEW outcome, Retry(c, outcome)
  PROVE  OnRung(m)' = OnRung(m)
BY DEF OnRung, Retry, TypeOK, Model, Visiting

LEMMA OnRungDemote ==
  ASSUME TypeOK, NEW m, NEW c \in Callers, pc[c] = "attempt",
         NEW outcome, Demote(c, outcome)
  PROVE  OnRung(m)' = OnRung(m) \ {c}
<1>1. ladder' = ladder /\ pc'[c] = "rung"
  BY DEF Demote, TypeOK
<1>2. \A d \in Callers \ {c} : pc'[d] = pc[d] /\ rung'[d] = rung[d]
  BY DEF Demote, TypeOK
<1> QED
  BY <1>1, <1>2 DEF OnRung, Model, Visiting

LEMMA StepBreakerInv == TypeOK /\ BreakerInv /\ [Next]_vars => BreakerInv'
<1> SUFFICES ASSUME TypeOK, BreakerInv, [Next]_vars
             PROVE  BreakerInv'
  OBVIOUS
<1> USE RetryAssumption
<1>0. ASSUME NEW m \in Models, m \in cold, m \in cold', hits'[m] = hits[m],
             OnRung(m)' \subseteq OnRung(m)
      PROVE  /\ ColdAfter > 0 /\ hits'[m] >= ColdAfter
             /\ hits'[m] + Cardinality(OnRung(m)') <= ColdAfter - 1 + Cardinality(Callers)
  <2>1. IsFiniteSet(OnRung(m)) /\ Cardinality(OnRung(m)) \in Nat /\ Cardinality(Callers) \in Nat
    BY OnRungFinite
  <2>2. Cardinality(OnRung(m)') \in Nat /\ Cardinality(OnRung(m)') <= Cardinality(OnRung(m))
    BY <1>0, <2>1, FS_Subset, FS_CardinalityType
  <2>3. /\ ColdAfter > 0 /\ hits[m] >= ColdAfter
        /\ hits[m] + Cardinality(OnRung(m)) <= ColdAfter - 1 + Cardinality(Callers)
    BY <1>0 DEF BreakerInv
  <2>4. hits[m] \in Nat
    BY DEF TypeOK
  <2> QED
    BY <1>0, <2>1, <2>2, <2>3, <2>4
<1>1. ASSUME NEW c \in Callers, Call(c) \/ SkipRung(c) \/ EnterRung(c) \/ StartAttempt(c)
                                \/ Complete(c) \/ Exhausted(c)
      PROVE  BreakerInv'
  <2>1. cold' = cold /\ hits' = hits
    BY <1>1 DEF Call, SkipRung, EnterRung, StartAttempt, Complete, Exhausted, healthVars
  <2>2. \A m \in Models : m \in cold => OnRung(m)' \subseteq OnRung(m)
    BY <1>1, OnRungSteps
  <2>3. \A m \in Models : m \in cold' =>
             /\ ColdAfter > 0 /\ hits'[m] >= ColdAfter
             /\ hits'[m] + Cardinality(OnRung(m)') <= ColdAfter - 1 + Cardinality(Callers)
    BY <1>0, <2>1, <2>2
  <2> QED
    BY <2>1, <2>3 DEF BreakerInv
<1>2. ASSUME NEW c \in Callers, pc[c] = "attempt", NEW outcome \in Outcomes, Retry(c, outcome)
      PROVE  BreakerInv'
  <2>1. cold' = cold /\ hits' = hits
    BY <1>2 DEF Retry, healthVars
  <2>2. \A m \in Models : OnRung(m)' = OnRung(m)
    BY <1>2, OnRungRetry
  <2> QED
    BY <2>1, <2>2 DEF BreakerInv
<1>3. ASSUME NEW c \in Callers, pc[c] = "attempt", NEW outcome \in Outcomes, Demote(c, outcome)
      PROVE  BreakerInv'
  <2>x. PICK x \in Models : x = Model(c)
    BY <1>3, VisitingHasRung, ModelTyped DEF Visiting
  <2>1. x \in Models /\ Learn(x, outcome)
    BY <1>3, <2>x DEF Demote
  <2>2. \A m \in Models : OnRung(m)' = OnRung(m) \ {c}
    BY <1>3, OnRungDemote
  <2>3. ASSUME NEW m \in Models, m # x
        PROVE  hits'[m] = hits[m] /\ (m \in cold' <=> m \in cold)
    BY <2>1, <2>3, Learns
  <2>4. ASSUME NEW m \in Models, m # x, m \in cold'
        PROVE  /\ ColdAfter > 0 /\ hits'[m] >= ColdAfter
               /\ hits'[m] + Cardinality(OnRung(m)') <= ColdAfter - 1 + Cardinality(Callers)
    BY <1>0, <2>2, <2>3, <2>4
  <2>5. /\ c \in OnRung(x) /\ OnRung(x)' = OnRung(x) \ {c}
        /\ IsFiniteSet(OnRung(x)) /\ Cardinality(OnRung(x)) \in Nat
        /\ Cardinality(OnRung(x)) <= Cardinality(Callers)
        /\ Cardinality(Callers) \in Nat
    BY <1>3, <2>x, <2>2, OnRungFinite DEF OnRung, Visiting
  <2>6. Cardinality(OnRung(x)') = Cardinality(OnRung(x)) - 1
    BY <2>5, FS_RemoveElement
  <2>7. hits[x] \in Nat /\ ColdAfter \in Nat
    BY <2>1 DEF TypeOK
  <2>8. CASE outcome = "rate_limited" /\ ColdAfter > 0
    <3>1. hits'[x] = hits[x] + 1
          /\ (x \in cold' <=> x \in cold \/ hits[x] + 1 >= ColdAfter)
      BY <2>1, <2>8 DEF Learn, TypeOK
    <3>2. x \in cold =>
             hits[x] >= ColdAfter
             /\ hits[x] + Cardinality(OnRung(x)) <= ColdAfter - 1 + Cardinality(Callers)
      BY <2>1 DEF BreakerInv
    <3>3. x \notin cold => hits[x] < ColdAfter
      BY <2>1, <2>8 DEF BreakerInv
    <3>4. x \notin cold' => hits'[x] < ColdAfter
      BY <2>7, <3>1
    <3>5. x \in cold' => /\ hits'[x] >= ColdAfter
                         /\ hits'[x] + Cardinality(OnRung(x)') <= ColdAfter - 1 + Cardinality(Callers)
      BY <2>5, <2>6, <2>7, <3>1, <3>2, <3>3
    <3>6. ASSUME NEW m \in Models, m # x, m \notin cold'
          PROVE  hits'[m] < ColdAfter
      BY <2>3, <2>8, <3>6 DEF BreakerInv
    <3>7. \A m \in Models : m \in cold' =>
             /\ ColdAfter > 0 /\ hits'[m] >= ColdAfter
             /\ hits'[m] + Cardinality(OnRung(m)') <= ColdAfter - 1 + Cardinality(Callers)
      BY <2>4, <2>8, <3>5
    <3> QED
      BY <2>8, <3>4, <3>6, <3>7 DEF BreakerInv
  <2>9. CASE ~(outcome = "rate_limited" /\ ColdAfter > 0)
    <3>1. cold' = cold /\ hits' = hits
      BY <2>1, <2>9 DEF Learn
    <3>2. \A m \in Models : m \in cold' =>
             /\ ColdAfter > 0 /\ hits'[m] >= ColdAfter
             /\ hits'[m] + Cardinality(OnRung(m)') <= ColdAfter - 1 + Cardinality(Callers)
      BY <1>0, <2>2, <3>1
    <3> QED
      BY <3>1, <3>2 DEF BreakerInv
  <2> QED
    BY <2>8, <2>9
<1>4. ASSUME UNCHANGED vars PROVE BreakerInv'
  BY <1>4 DEF BreakerInv, OnRung, Model, vars, callVars, healthVars
<1> QED
  BY <1>1, <1>2, <1>3, <1>4 DEF Next, Advance, Fail
-----------------------------------------------------------------------------
(* The starts the others can still make when c leaves a model it found     *)
(* dead.                                                                   *)
LEMMA OthersBound ==
  ASSUME NEW c \in Callers
  PROVE  /\ IsFiniteSet((Callers \ {c}) \X Starts)
         /\ Cardinality((Callers \ {c}) \X Starts) = LateBound
         /\ LateBound \in Nat
<1>1. IsFiniteSet(Callers \ {c}) /\ Cardinality(Callers \ {c}) = Cardinality(Callers) - 1
  BY CallersAssumption, FS_RemoveElement
<1>2. 0 \in Int /\ MaxRetries \in Int /\ MaxRetries \in Nat
  BY RetryAssumption
<1>3. IsFiniteSet(Starts) /\ Cardinality(Starts) = MaxRetries + 1
  BY <1>2, FS_Interval DEF Starts
<1>4. IsFiniteSet((Callers \ {c}) \X Starts)
      /\ Cardinality((Callers \ {c}) \X Starts)
           = Cardinality(Callers \ {c}) * Cardinality(Starts)
  BY <1>1, <1>3, FS_Product
<1> QED
  BY <1>1, <1>3, <1>4, FS_CardinalityType DEF LateBound

LEMMA OpenFinite ==
  ASSUME NEW m
  PROVE  IsFiniteSet(Open(m)) /\ Cardinality(Open(m)) \in Nat
<1>1. 0 \in Int /\ MaxRetries \in Int
  BY RetryAssumption
<1>2. IsFiniteSet(Starts)
  BY <1>1, FS_Interval DEF Starts
<1>3. IsFiniteSet(Callers \X Starts)
  BY <1>2, CallersAssumption, FS_Product
<1>4. Open(m) \in SUBSET (Callers \X Starts)
  BY DEF Open
<1> QED
  BY <1>3, <1>4, FS_Subset, FS_CardinalityType

(* A caller that is still on a rung of a dead model was there before.      *)
LEMMA OpenShrinks ==
  ASSUME TypeOK, NEW m \in dead, NEW c \in Callers,
         Call(c) \/ SkipRung(c) \/ EnterRung(c) \/ StartAttempt(c) \/ Complete(c)
           \/ Exhausted(c)
  PROVE  Open(m)' \subseteq Open(m)
<1>1. OnRung(m)' \subseteq OnRung(m)
  BY OnRungSteps
<1> SUFFICES ASSUME NEW t \in Callers \X Starts, t[1] \in OnRung(m)',
                    StillOpen(t[1], t[2])'
             PROVE  StillOpen(t[1], t[2])
  BY <1>1 DEF Open
<1>2. t[1] \in Callers /\ t[2] \in Starts /\ pc'[t[1]] \in Visiting /\ Model(t[1])' = m
  BY DEF OnRung
<1>3. retries' = retries \/ retries' = [retries EXCEPT ![c] = 0]
  BY DEF Call, SkipRung, EnterRung, StartAttempt, Complete, Exhausted
<1>4. CASE t[1] # c
  <2>1. pc'[t[1]] = pc[t[1]]
    BY <1>2, <1>4 DEF Call, SkipRung, EnterRung, StartAttempt, Complete, Exhausted, TypeOK
  <2>2. retries'[t[1]] = retries[t[1]]
    BY <1>2, <1>3, <1>4 DEF TypeOK
  <2> QED
    BY <2>1, <2>2 DEF StillOpen
<1>5. CASE t[1] = c
  <2>1. c \in OnRung(m)
    BY <1>1, <1>5
  <2>2. pc[c] \in Visiting /\ pc'[c] \in Visiting
    BY <1>2, <1>5, <2>1 DEF OnRung
  <2>3. StartAttempt(c)
    BY <2>2 DEF Call, SkipRung, EnterRung, Complete, Exhausted, TypeOK, Visiting, Returned
  <2>4. pc[c] = "start" /\ pc'[c] = "attempt" /\ retries' = retries
    BY <2>3 DEF StartAttempt, TypeOK
  <2>5. retries[c] \in Nat /\ t[2] \in Nat
    BY <1>2, RetryAssumption DEF TypeOK, Starts
  <2> QED
    BY <1>5, <2>4, <2>5 DEF StillOpen
<1> QED
  BY <1>4, <1>5

LEMMA OpenRetry ==
  ASSUME TypeOK, NEW m, NEW c \in Callers, pc[c] = "attempt",
         NEW outcome, Retry(c, outcome)
  PROVE  Open(m)' = Open(m)
<1>1. OnRung(m)' = OnRung(m)
  BY OnRungRetry
<1> SUFFICES ASSUME NEW t \in Callers \X Starts
             PROVE  StillOpen(t[1], t[2])' <=> StillOpen(t[1], t[2])
  BY <1>1 DEF Open
<1>2. t[1] \in Callers /\ t[2] \in Nat /\ retries[t[1]] \in Nat
  BY RetryAssumption DEF TypeOK, Starts
<1>3. /\ pc'[t[1]] = IF t[1] = c THEN "start" ELSE pc[t[1]]
      /\ retries'[t[1]] = IF t[1] = c THEN retries[c] + 1 ELSE retries[t[1]]
  BY <1>2 DEF Retry, TypeOK
<1> QED
  BY <1>2, <1>3 DEF StillOpen

LEMMA OpenDemote ==
  ASSUME TypeOK, NEW m, NEW c \in Callers, pc[c] = "attempt",
         NEW outcome, Demote(c, outcome)
  PROVE  Open(m)' \subseteq Open(m) /\ Open(m)' \subseteq (Callers \ {c}) \X Starts
<1>1. OnRung(m)' = OnRung(m) \ {c}
  BY OnRungDemote
<1> SUFFICES ASSUME NEW t \in Callers \X Starts, t[1] \in OnRung(m)',
                    StillOpen(t[1], t[2])'
             PROVE  StillOpen(t[1], t[2]) /\ t \in (Callers \ {c}) \X Starts
  BY <1>1 DEF Open
<1>2. t[1] \in Callers \ {c}
  BY <1>1
<1>3. pc'[t[1]] = pc[t[1]] /\ retries'[t[1]] = retries[t[1]]
  BY <1>2 DEF Demote, TypeOK
<1> QED
  BY <1>2, <1>3 DEF StillOpen

(* A start on a dead model uses one of the open starts up.                 *)
LEMMA OpenUsed ==
  ASSUME TypeOK, NEW m \in dead, NEW c \in Callers, StartAttempt(c), Model(c) = m
  PROVE  Cardinality(Open(m)') <= Cardinality(Open(m)) - 1
<1> DEFINE used == <<c, retries[c]>>
<1>1. retries[c] \in 0 .. MaxRetries /\ pc[c] = "start" /\ pc'[c] = "attempt"
      /\ retries' = retries
  BY DEF StartAttempt, TypeOK
<1>2. used \in Open(m)
  BY <1>1, RetryAssumption DEF Open, OnRung, StillOpen, Starts, Visiting
<1>3. \A t \in Open(m)' : t # used
  BY <1>1, RetryAssumption DEF Open, StillOpen
<1>4. Open(m)' \in SUBSET (Open(m) \ {used})
  BY <1>3, OpenShrinks
<1>5. IsFiniteSet(Open(m) \ {used}) /\ Cardinality(Open(m) \ {used}) = Cardinality(Open(m)) - 1
  BY <1>2, OpenFinite, FS_RemoveElement
<1> QED
  BY <1>4, <1>5, FS_Subset

LEMMA StepLateInv == TypeOK /\ LateInv /\ [Next]_vars => LateInv'
<1> SUFFICES ASSUME TypeOK, LateInv, [Next]_vars, NEW m \in Models
             PROVE  /\ m \notin dead' => lateStarts'[m] = 0
                    /\ m \in dead' => lateStarts'[m] + Cardinality(Open(m)') <= LateBound
  BY DEF LateInv, LateBound
<1>0. /\ lateStarts[m] \in Nat /\ Cardinality(Open(m)) \in Nat /\ IsFiniteSet(Open(m))
      /\ LateBound \in Nat
      /\ m \notin dead => lateStarts[m] = 0
      /\ m \in dead => lateStarts[m] + Cardinality(Open(m)) <= LateBound
  BY OpenFinite, OthersBound, CallersAssumption DEF TypeOK, LateInv
<1>1. ASSUME Open(m)' \subseteq Open(m), lateStarts'[m] = lateStarts[m], m \in dead
      PROVE  lateStarts'[m] + Cardinality(Open(m)') <= LateBound
  <2>1. Cardinality(Open(m)') <= Cardinality(Open(m)) /\ Cardinality(Open(m)') \in Nat
    BY <1>0, <1>1, FS_Subset, FS_CardinalityType
  <2> QED
    BY <1>0, <1>1, <2>1
<1>2. ASSUME NEW c \in Callers, Call(c) \/ SkipRung(c) \/ EnterRung(c) \/ Complete(c)
                                \/ Exhausted(c)
      PROVE  /\ m \notin dead' => lateStarts'[m] = 0
             /\ m \in dead' => lateStarts'[m] + Cardinality(Open(m)') <= LateBound
  <2>1. dead' = dead /\ lateStarts' = lateStarts
    BY <1>2 DEF Call, SkipRung, EnterRung, Complete, Exhausted, healthVars
  <2>2. m \in dead => Open(m)' \subseteq Open(m)
    BY <1>2, OpenShrinks
  <2> QED
    BY <1>0, <1>1, <2>1, <2>2
<1>3. ASSUME NEW c \in Callers, StartAttempt(c)
      PROVE  /\ m \notin dead' => lateStarts'[m] = 0
             /\ m \in dead' => lateStarts'[m] + Cardinality(Open(m)') <= LateBound
  <2>1. dead' = dead
    BY <1>3 DEF StartAttempt, healthVars
  <2>2. lateStarts'[m] = IF m \in dead /\ Model(c) = m THEN lateStarts[m] + 1 ELSE lateStarts[m]
    BY <1>3 DEF StartAttempt, TypeOK
  <2>3. m \in dead => Open(m)' \subseteq Open(m)
    BY <1>3, OpenShrinks
  <2>4. ASSUME m \in dead, Model(c) = m
        PROVE  lateStarts'[m] + Cardinality(Open(m)') <= LateBound
    <3>1. Cardinality(Open(m)') <= Cardinality(Open(m)) - 1
      BY <1>3, <2>4, OpenUsed
    <3>2. Cardinality(Open(m)') \in Nat
      BY <1>0, <2>3, <2>4, FS_Subset, FS_CardinalityType
    <3> QED
      BY <1>0, <2>2, <2>4, <3>1, <3>2
  <2> QED
    BY <1>0, <1>1, <2>1, <2>2, <2>3, <2>4
<1>4. ASSUME NEW c \in Callers, pc[c] = "attempt", NEW outcome \in Outcomes, Retry(c, outcome)
      PROVE  /\ m \notin dead' => lateStarts'[m] = 0
             /\ m \in dead' => lateStarts'[m] + Cardinality(Open(m)') <= LateBound
  <2>1. dead' = dead /\ lateStarts' = lateStarts
    BY <1>4 DEF Retry, healthVars
  <2>2. Open(m)' = Open(m)
    BY <1>4, OpenRetry
  <2> QED
    BY <1>0, <2>1, <2>2
<1>5. ASSUME NEW c \in Callers, pc[c] = "attempt", NEW outcome \in Outcomes, Demote(c, outcome)
      PROVE  /\ m \notin dead' => lateStarts'[m] = 0
             /\ m \in dead' => lateStarts'[m] + Cardinality(Open(m)') <= LateBound
  <2>1. lateStarts' = lateStarts /\ dead \subseteq dead'
    BY <1>5 DEF Demote, Learn
  <2>2. Open(m)' \subseteq Open(m) /\ Open(m)' \in SUBSET ((Callers \ {c}) \X Starts)
    BY <1>5, OpenDemote
  <2>3. /\ IsFiniteSet((Callers \ {c}) \X Starts)
        /\ Cardinality((Callers \ {c}) \X Starts) = LateBound
    BY OthersBound
  <2>4. IsFiniteSet(Open(m)') /\ Cardinality(Open(m)') <= LateBound
    BY <2>2, <2>3, FS_Subset
  <2>5. Cardinality(Open(m)') \in Nat
    BY <2>4, FS_CardinalityType
  <2> QED
    BY <1>0, <1>1, <2>1, <2>2, <2>4, <2>5
<1>6. ASSUME UNCHANGED vars
      PROVE  /\ m \notin dead' => lateStarts'[m] = 0
             /\ m \in dead' => lateStarts'[m] + Cardinality(Open(m)') <= LateBound
  <2>1. Open(m)' = Open(m)
    BY <1>6 DEF Open, OnRung, Model, StillOpen, vars, callVars, healthVars
  <2> QED
    BY <1>0, <1>6, <2>1 DEF vars, healthVars
<1> QED
  BY <1>2, <1>3, <1>4, <1>5, <1>6 DEF Next, Advance, Fail
-----------------------------------------------------------------------------
LEMMA Inductive == Spec => []IInv
<1>1. IInv /\ [Next]_vars => IInv'
  BY StepTypeOK, StepVisitInv, StepPassedInv, StepBreakerInv, StepLateInv DEF IInv
<1> QED
  BY <1>1, InitIInv, PTL DEF Spec

(* Callers, ladder positions, counters and the shared health keep their    *)
(* types; a caller on a rung is on one its ladder has.                     *)
THEOREM FailoverTypeCorrect == Spec => []TypeOK
<1>1. IInv => TypeOK
  BY DEF IInv
<1> QED
  BY <1>1, Inductive, PTL

(* A ladder with a model that works is never reported as exhausted,        *)
(* whatever the other callers taught the shared health.                    *)
THEOREM FailoverSaves == Spec => []ReliableSaves
<1>1. IInv => ReliableSaves
  <2> SUFFICES ASSUME IInv, NEW c \in Callers, pc[c] = "err", NEW i \in DOMAIN ladder[c]
               PROVE  ladder[c][i] \notin Reliable
    BY DEF ReliableSaves
  <2>1. TypeOK
    BY DEF IInv
  <2>2. i \in 1 .. Len(ladder[c]) /\ Len(ladder[c]) \in Nat /\ rung[c] \in Nat
    BY <2>1, LadderTyped DEF TypeOK
  <2>3. rung[c] > Len(ladder[c])
    BY DEF IInv, PassedInv
  <2>4. i < rung[c]
    BY <2>2, <2>3
  <2> QED
    BY <2>4 DEF IInv, PassedInv
<1> QED
  BY <1>1, Inductive, PTL

(* A hung rung costs two timeouts at most, whatever max_retries is.        *)
THEOREM FailoverDemotesHung == Spec => []HungRungDemotes
<1>1. IInv => HungRungDemotes
  BY DEF IInv, VisitInv, HungRungDemotes
<1> QED
  BY <1>1, Inductive, PTL

(* The breaker trips at cold_after hits and is overrun by one hit of each  *)
(* other caller at most.                                                   *)
THEOREM FailoverBreaks == Spec => []BreakerHolds
<1>1. IInv => BreakerHolds
  <2> SUFFICES ASSUME IInv, NEW m \in Models
               PROVE  /\ m \in cold => hits[m] >= ColdAfter
                      /\ ColdAfter > 0 => hits[m] <= ColdAfter - 1 + Cardinality(Callers)
    BY DEF BreakerHolds
  <2>1. hits[m] \in Nat /\ ColdAfter \in Nat
    BY RetryAssumption DEF IInv, TypeOK
  <2>2. /\ Cardinality(OnRung(m)) \in Nat
        /\ Cardinality(Callers) \in Nat
    BY OnRungFinite
  <2>3. CASE m \in cold
    BY <2>1, <2>2, <2>3 DEF IInv, BreakerInv
  <2>4. CASE m \notin cold
    BY <2>1, <2>2, <2>4 DEF IInv, BreakerInv
  <2> QED
    BY <2>3, <2>4
<1> QED
  BY <1>1, Inductive, PTL

(* After a model was found dead, at most the retry budgets of the other    *)
(* callers are still spent on it.                                          *)
THEOREM FailoverLeavesPulled == Spec => []PulledModelLeft
<1>1. IInv => PulledModelLeft
  <2> SUFFICES ASSUME IInv, NEW m \in Models
               PROVE  lateStarts[m] <= LateBound
    BY DEF PulledModelLeft, LateBound
  <2>1. lateStarts[m] \in Nat /\ LateBound \in Nat /\ Cardinality(Open(m)) \in Nat
    BY OpenFinite, OthersBound, CallersAssumption DEF IInv, TypeOK
  <2>2. /\ m \notin dead => lateStarts[m] = 0
        /\ m \in dead => lateStarts[m] + Cardinality(Open(m)) <= LateBound
    BY DEF IInv, LateInv
  <2> HIDE DEF Open, LateBound
  <2> QED
    BY <2>1, <2>2
<1> QED
  BY <1>1, Inductive, PTL
-----------------------------------------------------------------------------
(* The steps a call has left: on each rung it enters, starts and attempts  *)
(* once and again for each retry, and then goes on.                        *)
VisitSteps == 2 * MaxRetries + 3
RungsAfter(c) == Len(ladder[c]) - rung[c]
StepsLeft(c) ==
  CASE pc[c] = "rung" -> (RungsAfter(c) + 1) * VisitSteps + 1
    [] pc[c] = "start" -> RungsAfter(c) * VisitSteps + (2 * (MaxRetries - retries[c]) + 3)
    [] pc[c] = "attempt" -> RungsAfter(c) * VisitSteps + (2 * (MaxRetries - retries[c]) + 2)
    [] OTHER -> 0

LEMMA StepsLeftIsNat ==
  ASSUME TypeOK, NEW c \in Callers
  PROVE  StepsLeft(c) \in Nat
<1>1. Len(ladder[c]) \in Nat /\ rung[c] \in Nat /\ rung[c] <= Len(ladder[c]) + 1
  BY LadderTyped DEF TypeOK
<1>2. pc[c] \in Visiting => rung[c] <= Len(ladder[c])
  BY DEF TypeOK
<1>3. VisitSteps \in Nat /\ retries[c] \in 0 .. MaxRetries /\ MaxRetries \in Nat
  BY RetryAssumption DEF TypeOK, VisitSteps
<1>4. CASE pc[c] = "rung"
  <2>1. RungsAfter(c) + 1 \in Nat
    BY <1>1 DEF RungsAfter
  <2>2. (RungsAfter(c) + 1) * VisitSteps \in Nat
    BY <1>3, <2>1
  <2> QED
    BY <1>4, <2>2 DEF StepsLeft
<1>5. CASE pc[c] \in Visiting
  <2>1. RungsAfter(c) \in Nat
    BY <1>1, <1>2, <1>5 DEF RungsAfter
  <2>2. RungsAfter(c) * VisitSteps \in Nat
    BY <1>3, <2>1
  <2> QED
    BY <1>3, <1>5, <2>2 DEF StepsLeft, Visiting
<1> QED
  BY <1>4, <1>5 DEF StepsLeft, Visiting

(* One rung more is one visit more. *)
LEMMA RungCosts ==
  ASSUME NEW k \in Int
  PROVE  /\ (k + 1) * VisitSteps = k * VisitSteps + VisitSteps
         /\ k * VisitSteps \in Int /\ VisitSteps \in Nat
  BY RetryAssumption DEF VisitSteps

LEMMA AdvanceCosts ==
  ASSUME TypeOK, NEW c \in Callers, Advance(c)
  PROVE  StepsLeft(c)' < StepsLeft(c)
<1>0. PICK k : k = Len(ladder[c]) - rung[c]
  OBVIOUS
<1>1. /\ Len(ladder[c]) \in Nat /\ rung[c] \in Nat /\ k \in Int
      /\ retries[c] \in 0 .. MaxRetries /\ MaxRetries \in Nat
  BY <1>0, LadderTyped, RetryAssumption DEF TypeOK
<1>2. /\ pc \in [Callers -> Returned \cup Visiting \cup {"rung"}] /\ rung \in [Callers -> Nat \ {0}]
      /\ retries \in [Callers -> 0 .. MaxRetries]
  BY DEF TypeOK
<1>3. PICK p \in Int : /\ p = k * VisitSteps /\ VisitSteps \in Nat
                       /\ (k + 1) * VisitSteps = p + VisitSteps
  BY <1>1, RungCosts
<1>4. /\ RungsAfter(c) = k
      /\ ladder' = ladder /\ rung'[c] = rung[c] => RungsAfter(c)' = k
      /\ ladder' = ladder /\ rung'[c] = rung[c] + 1 => RungsAfter(c)' + 1 = k
  BY <1>0, <1>1 DEF RungsAfter
<1>5. p \in Int /\ VisitSteps \in Nat
  BY <1>3
<1>6. CASE SkipRung(c)
  <2>1. rung'[c] = rung[c] + 1 /\ pc[c] = "rung" /\ pc'[c] = "rung" /\ ladder' = ladder
    BY <1>2, <1>6 DEF SkipRung
  <2>2. StepsLeft(c) = p + VisitSteps + 1 /\ StepsLeft(c)' = p + 1
    BY <1>3, <1>4, <2>1 DEF StepsLeft
  <2>3. VisitSteps > 0
    BY RetryAssumption DEF VisitSteps
  <2> QED
    BY <1>5, <2>2, <2>3
<1>7. CASE EnterRung(c)
  <2>1. /\ rung' = rung /\ retries' = retries /\ ladder' = ladder
        /\ pc[c] = "rung" /\ pc'[c] = "start"
    BY <1>2, <1>7 DEF EnterRung
  <2>2. /\ StepsLeft(c) = p + VisitSteps + 1
        /\ StepsLeft(c)' = p + (2 * (MaxRetries - retries[c]) + 3)
    BY <1>3, <1>4, <2>1 DEF StepsLeft
  <2>3. 2 * (MaxRetries - retries[c]) + 3 < VisitSteps + 1
    BY <1>1 DEF VisitSteps
  <2> QED
    BY <1>1, <1>5, <2>2, <2>3
<1>8. CASE StartAttempt(c)
  <2>1. /\ rung' = rung /\ retries' = retries /\ ladder' = ladder
        /\ pc[c] = "start" /\ pc'[c] = "attempt"
    BY <1>2, <1>8 DEF StartAttempt
  <2>2. /\ StepsLeft(c) = p + (2 * (MaxRetries - retries[c]) + 3)
        /\ StepsLeft(c)' = p + (2 * (MaxRetries - retries[c]) + 2)
    BY <1>3, <1>4, <2>1 DEF StepsLeft
  <2> QED
    BY <1>1, <1>5, <2>2
<1>9. CASE Complete(c) \/ Exhausted(c)
  <2>1. pc'[c] \in {"ok", "err"} /\ pc[c] \in {"attempt", "rung"}
    BY <1>2, <1>9 DEF Complete, Exhausted
  <2>2. StepsLeft(c)' = 0
    BY <2>1 DEF StepsLeft
  <2>3. StepsLeft(c) \in Nat
    BY StepsLeftIsNat
  <2>4. StepsLeft(c) # 0
    <3>1. CASE pc[c] = "attempt"
      <4>1. k \in Nat
        BY <1>0, <1>1, <3>1 DEF TypeOK, Visiting
      <4>2. k * VisitSteps \in Nat
        BY <1>3, <4>1
      <4> QED
        BY <1>1, <1>4, <3>1, <4>2 DEF StepsLeft
    <3>2. CASE pc[c] = "rung"
      <4>1. k + 1 \in Nat
        BY <1>0, <1>1 DEF TypeOK
      <4>2. (k + 1) * VisitSteps \in Nat
        BY <1>3, <4>1
      <4> QED
        BY <1>4, <3>2, <4>2 DEF StepsLeft
    <3> QED
      BY <2>1, <3>1, <3>2
  <2> QED
    BY <2>2, <2>3, <2>4
<1>10. ASSUME NEW outcome, pc[c] = "attempt", Retry(c, outcome) PROVE StepsLeft(c)' < StepsLeft(c)
  <2>1. /\ rung' = rung /\ retries'[c] = retries[c] + 1 /\ ladder' = ladder /\ pc'[c] = "start"
    BY <1>2, <1>10 DEF Retry
  <2>2. /\ StepsLeft(c) = p + (2 * (MaxRetries - retries[c]) + 2)
        /\ StepsLeft(c)' = p + (2 * (MaxRetries - (retries[c] + 1)) + 3)
    BY <1>3, <1>4, <1>10, <2>1 DEF StepsLeft
  <2> QED
    BY <1>1, <1>5, <2>2
<1>11. ASSUME NEW outcome, pc[c] = "attempt", Demote(c, outcome) PROVE StepsLeft(c)' < StepsLeft(c)
  <2>1. rung'[c] = rung[c] + 1 /\ ladder' = ladder /\ pc'[c] = "rung"
    BY <1>2, <1>11 DEF Demote
  <2>2. /\ StepsLeft(c) = p + (2 * (MaxRetries - retries[c]) + 2)
        /\ StepsLeft(c)' = p + 1
    BY <1>3, <1>4, <1>11, <2>1 DEF StepsLeft
  <2> QED
    BY <1>1, <1>5, <2>2
<1> QED
  BY <1>6, <1>7, <1>8, <1>9, <1>10, <1>11 DEF Advance, Fail

(* A call that is under way only winds down: each of its own steps uses up *)
(* one, and no step of another caller, whatever it learns about the models *)
(* they share, gives it more to do.                                        *)
CallsWindDown ==
  [][\A c \in Callers :
       /\ Advance(c) => StepsLeft(c)' < StepsLeft(c)
       /\ pc[c] \notin Returned => StepsLeft(c)' <= StepsLeft(c)
       /\ StepsLeft(c)' \in Nat]_vars

THEOREM FailoverWindsDown == Spec => CallsWindDown
<1> DEFINE Down == \A c \in Callers :
             /\ Advance(c) => StepsLeft(c)' < StepsLeft(c)
             /\ pc[c] \notin Returned => StepsLeft(c)' <= StepsLeft(c)
             /\ StepsLeft(c)' \in Nat
<1>1. TypeOK => \A c \in Callers : StepsLeft(c) \in Nat
  BY StepsLeftIsNat
<1>2. ASSUME TypeOK, TypeOK', Next, \A c \in Callers : StepsLeft(c)' \in Nat PROVE Down
  <2> SUFFICES ASSUME NEW c \in Callers
               PROVE  /\ Advance(c) => StepsLeft(c)' < StepsLeft(c)
                      /\ pc[c] \notin Returned => StepsLeft(c)' <= StepsLeft(c)
    BY <1>2
  <2>1. Advance(c) => StepsLeft(c)' < StepsLeft(c)
    BY <1>2, AdvanceCosts
  <2>2. ASSUME pc[c] \notin Returned, ~Advance(c) PROVE StepsLeft(c)' <= StepsLeft(c)
    <3>1. PICK d \in Callers : Call(d) \/ Advance(d)
      BY <1>2 DEF Next
    <3>2. d # c
      BY <2>2, <3>1 DEF Call
    <3>3. UNCHANGED <<pc[c], ladder[c], rung[c], retries[c]>>
      BY <1>2, <3>1, <3>2 DEF TypeOK, Call, Advance, SkipRung, EnterRung, StartAttempt, Complete,
         Fail, Retry, Demote, Exhausted
    <3>4. StepsLeft(c)' = StepsLeft(c)
      BY <3>3 DEF StepsLeft, RungsAfter
    <3>5. StepsLeft(c) \in Nat
      BY <1>1, <1>2
    <3> QED
      BY <3>4, <3>5
  <2>3. StepsLeft(c) \in Nat
    BY <1>1, <1>2
  <2> QED
    BY <1>2, <2>1, <2>2, <2>3
<1>3. TypeOK /\ TypeOK' /\ (\A c \in Callers : StepsLeft(c) \in Nat)' /\ [Next]_vars => [Down]_vars
  BY <1>2
<1> QED
  BY <1>1, <1>3, FailoverTypeCorrect, PTL DEF Spec, CallsWindDown
=============================================================================
