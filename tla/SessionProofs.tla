--------------------------- MODULE SessionProofs ---------------------------
(***************************************************************************)
(* Safety of a session for any adapter, any capacities and any number of   *)
(* writes.                                                                 *)
(***************************************************************************)
EXTENDS Session, SequenceTheorems, FiniteSetTheorems, TLAPS

(* The reader owns the child, and the runner returns after the reader.     *)
OwnerInv ==
  /\ reader = "none" <=> child = "none"
  /\ reader = "none" =>
       /\ runner \in {"spawn", "returned"} /\ (runner = "returned" => status = "error")
       /\ chan = <<>> /\ produced = <<>>
  /\ runner = "spawn" =>
       reader = "none" /\ status = "none" /\ collected = <<>> /\ measured = 0
  /\ reader = "gone" => ~Alive
  /\ runner = "killing" => status = "timed_out"
  /\ runner = "returned" => reader \in {"none", "gone"}
  /\ reader \in {"none", "exit", "gone"} => pending = <<>>

(* The runner reports what it collected.                                   *)
Reported == runner = "returned" /\ status \notin {"timed_out", "error"}

(* Every event of the session is collected, in the channel or still to be  *)
(* sent.                                                                   *)
StreamInv ==
  /\ runner = "collect" \/ Reported => produced = collected \o (chan \o pending)
  /\ Reported => chan = <<>>

IsFirst(events, st) ==
  /\ st \in Terminal
  /\ \E i \in DOMAIN events :
       events[i] = st /\ \A j \in 1 .. (i - 1) : events[j] \notin Terminal

StatusInv ==
  /\ runner = "collect" =>
       \/ status = "none" /\ \A i \in DOMAIN collected : collected[i] \notin Terminal
       \/ IsFirst(collected, status)
  /\ Reported => status = FirstTerminal(collected)

ChargeInv ==
  /\ runner = "collect" \/ Reported => measured = Cardinality(Reports(collected))
  /\ Reported => (estimated <=> status = "completed" /\ ~HasUsage(collected))
  /\ ~Reported => ~estimated

IInv == TypeOK /\ OwnerInv /\ StreamInv /\ StatusInv /\ ChargeInv
-----------------------------------------------------------------------------
LEMMA FirstIsFirst ==
  ASSUME NEW events \in Seq(Event), NEW st, IsFirst(events, st)
  PROVE  FirstTerminal(events) = st
<1> DEFINE at == {i \in DOMAIN events : events[i] \in Terminal}
           min(i) == \A j \in at : i <= j
           k == CHOOSE i \in at : min(i)
<1>1. DOMAIN events = 1 .. Len(events) /\ Len(events) \in Nat
  OBVIOUS
<1>2. PICK i \in DOMAIN events :
        events[i] = st /\ \A j \in 1 .. (i - 1) : events[j] \notin Terminal
  BY DEF IsFirst
<1>3. i \in at /\ min(i)
  BY <1>1, <1>2 DEF IsFirst
<1>4. k \in at /\ min(k)
  BY <1>3
<1>5. k = i
  BY <1>1, <1>3, <1>4
<1> QED
  BY <1>2, <1>3, <1>5 DEF FirstTerminal

LEMMA NoneIsFirst ==
  ASSUME NEW events, \A i \in DOMAIN events : events[i] \notin Terminal
  PROVE  FirstTerminal(events) = "failed"
  BY DEF FirstTerminal

(* One more event.                                                         *)
LEMMA OneMore ==
  ASSUME NEW events \in Seq(Event), NEW ev \in Event
  PROVE  LET more == Append(events, ev) IN
         /\ more \in Seq(Event) /\ DOMAIN more = DOMAIN events \cup {Len(events) + 1}
         /\ \A i \in DOMAIN events : more[i] = events[i]
         /\ more[Len(events) + 1] = ev
         /\ DOMAIN events = 1 .. Len(events) /\ Len(events) \in Nat
  BY AppendProperties

LEMMA ReportsOfOneMore ==
  ASSUME NEW events \in Seq(Event), NEW ev \in Event
  PROVE  Cardinality(Reports(Append(events, ev))) =
           IF ev \in Report THEN Cardinality(Reports(events)) + 1
                            ELSE Cardinality(Reports(events))
<1> DEFINE n == Len(events) + 1
<1>1. IsFiniteSet(Reports(events)) /\ n \notin Reports(events)
  <2>1. IsFiniteSet(1 .. Len(events)) /\ DOMAIN events = 1 .. Len(events)
    BY FS_Interval
  <2> QED
    BY <2>1, FS_Subset DEF Reports
<1>2. Reports(Append(events, ev)) =
        IF ev \in Report THEN Reports(events) \cup {n} ELSE Reports(events)
  BY OneMore DEF Reports
<1> QED
  BY <1>1, <1>2, FS_AddElement

LEMMA StatusOfOneMore ==
  ASSUME NEW events \in Seq(Event), NEW ev \in Event, NEW st
  PROVE  LET more == Append(events, ev) IN
         /\ IsFirst(events, st) => IsFirst(more, st)
         /\ (\A i \in DOMAIN events : events[i] \notin Terminal) =>
              IF ev \in Terminal THEN IsFirst(more, ev)
              ELSE \A i \in DOMAIN more : more[i] \notin Terminal
<1> DEFINE more == Append(events, ev)
<1>1. IsFirst(events, st) => IsFirst(more, st)
  BY OneMore DEF IsFirst
<1>2. ASSUME \A i \in DOMAIN events : events[i] \notin Terminal, ev \in Terminal
      PROVE  IsFirst(more, ev)
  <2>1. Len(events) + 1 \in DOMAIN more /\ more[Len(events) + 1] = ev
    BY OneMore
  <2>2. \A j \in 1 .. ((Len(events) + 1) - 1) : more[j] \notin Terminal
    BY OneMore, <1>2
  <2> QED
    BY <1>2, <2>1, <2>2 DEF IsFirst
<1>3. ASSUME \A i \in DOMAIN events : events[i] \notin Terminal, ev \notin Terminal
      PROVE  \A i \in DOMAIN more : more[i] \notin Terminal
  BY OneMore, <1>3
<1> QED
  BY <1>1, <1>2, <1>3

(* The head of one sequence moves to the end of the one before it.         *)
LEMMA MoveHead ==
  ASSUME NEW a \in Seq(Event), NEW b \in Seq(Event), b # <<>>
  PROVE  Append(a, Head(b)) \o Tail(b) = a \o b
<1>1. Head(b) \in Event /\ Tail(b) \in Seq(Event) /\ <<Head(b)>> \in Seq(Event)
  BY HeadTailProperties
<1>2. b = <<Head(b)>> \o Tail(b)
  BY <1>1
<1>3. Append(a, Head(b)) = a \o <<Head(b)>>
  BY <1>1, AppendIsConcat
<1> QED
  BY <1>1, <1>2, <1>3, ConcatAssociative

LEMMA HeadOfConcat ==
  ASSUME NEW a \in Seq(Event), NEW b \in Seq(Event), a # <<>>
  PROVE  /\ a \o b # <<>> /\ Head(a \o b) = Head(a)
         /\ Tail(a \o b) = Tail(a) \o b
  OBVIOUS
-----------------------------------------------------------------------------
LEMMA LinesTyped == Lines \subseteq Seq(Event) /\ Finals \subseteq Seq(Event)
  BY LinesAssumption

LEMMA PopTyped ==
  ASSUME NEW S, NEW s \in Seq(S), s # <<>>
  PROVE  /\ Head(s) \in S /\ Tail(s) \in Seq(S)
         /\ Len(s) \in Nat \ {0} /\ Len(Tail(s)) = Len(s) - 1
  BY HeadTailProperties, EmptySeq

LEMMA PushTyped ==
  ASSUME NEW S, NEW s \in Seq(S), NEW e \in S
  PROVE  Append(s, e) \in Seq(S) /\ Len(Append(s, e)) = Len(s) + 1 /\ Len(s) \in Nat
  BY AppendProperties

LEMMA JoinTyped ==
  ASSUME NEW s \in Seq(Event), NEW t \in Seq(Event)
  PROVE  s \o t \in Seq(Event)
  BY ConcatProperties

LEMMA TypeInit == Init => TypeOK
<1> SUFFICES ASSUME Init PROVE TypeOK
  OBVIOUS
<1>1. /\ stdout \in Seq(Lines) /\ Len(stdout) = 0
      /\ chan \in Seq(Event) /\ Len(chan) = 0
      /\ pending \in Seq(Event) /\ collected \in Seq(Event) /\ produced \in Seq(Event)
  BY EmptySeq DEF Init
<1>2. Len(stdout) <= PipeCap /\ Len(chan) <= Cap
  BY <1>1, CapsAssumption
<1>3. stderr \in 0 .. ErrCap /\ writes \in 0 .. MaxWrites /\ measured \in Nat
  BY CapsAssumption DEF Init
<1> QED
  BY <1>1, <1>2, <1>3 DEF Init, TypeOK

LEMMA TypeStep == TypeOK /\ [Next]_vars => TypeOK'
<1> SUFFICES ASSUME TypeOK, [Next]_vars PROVE TypeOK'
  OBVIOUS
<1> USE CapsAssumption
<1>1. CASE SpawnChild \/ SpawnFails
  BY <1>1 DEF TypeOK, SpawnChild, SpawnFails, childVars, readerVars
<1>2. CASE Child \/ Hang
  <2>1. CASE StartWrite
    BY <2>1 DEF TypeOK, StartWrite, readerVars, runnerVars
  <2>2. CASE WriteLine
    <3>1. PICK line \in Lines : stdout' = Append(stdout, line)
      BY <2>2 DEF WriteLine
    <3>2. stdout' \in Seq(Lines) /\ Len(stdout') <= PipeCap
      BY <2>2, <3>1, PushTyped DEF TypeOK, WriteLine
    <3> QED
      BY <2>2, <3>2 DEF TypeOK, WriteLine, readerVars, runnerVars
  <2>3. CASE WriteDiagnostic
    BY <2>3 DEF TypeOK, WriteDiagnostic, readerVars, runnerVars
  <2>4. CASE CloseStdout \/ Exit \/ Hang
    BY <2>4 DEF TypeOK, CloseStdout, Exit, Hang, readerVars, runnerVars
  <2> QED
    BY <1>2, <2>1, <2>2, <2>3, <2>4 DEF Child
<1>3. CASE Drain
  BY <1>3 DEF TypeOK, Drain, childVars, readerVars, runnerVars
<1>4. CASE Reader
  <2>1. CASE ReadLine
    <3>1. Head(stdout) \in Seq(Event) /\ Tail(stdout) \in Seq(Lines)
          /\ Len(Tail(stdout)) <= PipeCap
      BY <2>1, PopTyped, LinesTyped DEF TypeOK, ReadLine
    <3>2. pending' \in Seq(Event) /\ produced' \in Seq(Event)
      BY <2>1, <3>1, JoinTyped DEF TypeOK, ReadLine
    <3> QED
      BY <2>1, <3>1, <3>2 DEF TypeOK, ReadLine, runnerVars
  <2>2. CASE ReadEnd \/ ReadError
    <3>1. PICK final \in Finals : pending' = final /\ produced' = produced \o final
      BY <2>2 DEF ReadEnd, ReadError
    <3>2. pending' \in Seq(Event) /\ produced' \in Seq(Event)
      BY <3>1, JoinTyped, LinesTyped DEF TypeOK
    <3>3. stdout' \in Seq(Lines) /\ Len(stdout') <= PipeCap
      <4>1. CASE ReadEnd
        BY <4>1 DEF TypeOK, ReadEnd, childVars
      <4>2. CASE ReadError
        BY <4>2, PopTyped DEF TypeOK, ReadError
      <4> QED
        BY <2>2, <4>1, <4>2
    <3> QED
      BY <2>2, <3>2, <3>3 DEF TypeOK, ReadEnd, ReadError, childVars, runnerVars
  <2>3. CASE Send
    <3>1. chan' \in Seq(Event) /\ pending' \in Seq(Event) /\ Len(chan') <= Cap
      BY <2>3, PopTyped, PushTyped DEF TypeOK, Send
    <3> QED
      BY <2>3, <3>1 DEF TypeOK, Send, childVars, runnerVars
  <2>4. CASE SendFails \/ SentLast
    <3>1. pending' \in Seq(Event)
      BY <2>4, EmptySeq DEF SendFails, SentLast, ReaderEnds
    <3> QED
      BY <2>4, <3>1 DEF TypeOK, SendFails, SentLast, ReaderEnds, runnerVars
  <2>5. CASE SentFinal
    BY <2>5 DEF TypeOK, SentFinal, childVars, runnerVars
  <2>6. CASE Reap
    <3>1. pending' \in Seq(Event) /\ produced' \in Seq(Event)
      <4>1. <<"failed">> \in Seq(Event) /\ "failed" \in Event
        BY DEF Event
      <4>2. Append(produced, "failed") \in Seq(Event)
        BY <4>1, PushTyped DEF TypeOK
      <4> QED
        BY <2>6, <4>1, <4>2 DEF TypeOK, Reap
    <3> QED
      BY <2>6, <3>1 DEF TypeOK, Reap, childVars, runnerVars
  <2> QED
    BY <1>4, <2>1, <2>2, <2>3, <2>4, <2>5, <2>6 DEF Reader
<1>5. CASE Collect
  <2>1. /\ Head(chan) \in Event /\ chan' \in Seq(Event) /\ Len(chan') <= Cap
        /\ collected' \in Seq(Event)
    BY <1>5, PopTyped, PushTyped DEF TypeOK, Collect
  <2>2. status' \in {"none", "completed", "failed", "timed_out", "error"}
    BY <1>5 DEF TypeOK, Collect, FirstOf, Terminal
  <2>3. measured' \in Nat
    BY <1>5 DEF TypeOK, Collect
  <2> QED
    BY <1>5, <2>1, <2>2, <2>3 DEF TypeOK, Collect, childVars, readerVars
<1>6. CASE Finish
  BY <1>6 DEF TypeOK, Finish, childVars, readerVars
<1>7. CASE TimedOut
  BY <1>7 DEF TypeOK, TimedOut, childVars, readerVars
<1>8. CASE TimeOut \/ Cancel
  <2>1. <<>> \in Seq(Event) /\ Len(<<>>) = 0
    BY EmptySeq
  <2>2. chan' = <<>> /\ (collected' = <<>> \/ collected' = collected)
    BY <1>8 DEF TimeOut, Cancel
  <2>3. chan' \in Seq(Event) /\ Len(chan') = 0 /\ collected' \in Seq(Event)
    BY <2>1, <2>2 DEF TypeOK
  <2>4. Len(chan') <= Cap
    BY <2>3
  <2> QED
    BY <1>8, <2>3, <2>4 DEF TypeOK, TimeOut, Cancel, childVars, readerVars
<1>9. CASE Aborted
  <2>1. pending' \in Seq(Event)
    BY <1>9, EmptySeq DEF Aborted, ReaderEnds
  <2> QED
    BY <1>9, <2>1 DEF TypeOK, Aborted, ReaderEnds, runnerVars
<1>10. CASE UNCHANGED vars
  BY <1>10 DEF TypeOK, vars, childVars, readerVars, runnerVars
<1> QED
  BY <1>1, <1>2, <1>3, <1>4, <1>5, <1>6, <1>7, <1>8, <1>9, <1>10 DEF Next, Runner
-----------------------------------------------------------------------------
LEMMA OwnerInit == Init => OwnerInv
  BY DEF Init, OwnerInv, Alive

LEMMA OwnerStep == TypeOK /\ OwnerInv /\ [Next]_vars => OwnerInv'
<1> SUFFICES ASSUME TypeOK, OwnerInv, [Next]_vars PROVE OwnerInv'
  OBVIOUS
<1>1. CASE SpawnChild \/ SpawnFails
  BY <1>1 DEF OwnerInv, SpawnChild, SpawnFails, childVars, readerVars, Alive
<1>2. CASE Child \/ Hang
  BY <1>2 DEF OwnerInv, Child, Hang, StartWrite, WriteLine, WriteDiagnostic, CloseStdout,
              Exit, readerVars, runnerVars, Alive
<1>3. CASE Drain
  BY <1>3 DEF OwnerInv, Drain, childVars, readerVars, runnerVars, Alive
<1>4. CASE ReadLine \/ ReadEnd \/ ReadError \/ SentFinal
  BY <1>4 DEF OwnerInv, ReadLine, ReadEnd, ReadError, SentFinal, childVars, runnerVars, Alive
<1>5. CASE Send
  BY <1>5 DEF OwnerInv, Send, Listening, childVars, runnerVars, Alive
<1>6. CASE SendFails \/ SentLast \/ Aborted
  BY <1>6 DEF OwnerInv, SendFails, SentLast, Aborted, ReaderEnds, runnerVars, Alive
<1>7. CASE Reap
  BY <1>7 DEF OwnerInv, Reap, childVars, runnerVars, Alive
<1>8. CASE Collect \/ Finish \/ TimedOut \/ TimeOut \/ Cancel
  BY <1>8 DEF OwnerInv, Collect, Finish, TimedOut, TimeOut, Cancel, Collecting, childVars,
              readerVars, Alive
<1>9. CASE UNCHANGED vars
  BY <1>9 DEF OwnerInv, vars, childVars, readerVars, runnerVars, Alive
<1> QED
  BY <1>1, <1>2, <1>3, <1>4, <1>5, <1>6, <1>7, <1>8, <1>9 DEF Next, Reader, Runner

(* ReturnsWithoutChild: a session that has returned has no live child.     *)
(* The reader holds the child and the runner returns only after it.        *)
LEMMA OwnerImplies == OwnerInv => ReturnsWithoutChild
  BY DEF OwnerInv, ReturnsWithoutChild, Alive
-----------------------------------------------------------------------------
LEMMA StreamInit == Init => StreamInv
  BY DEF Init, StreamInv, Reported

LEMMA StreamStep == TypeOK /\ OwnerInv /\ StreamInv /\ [Next]_vars => StreamInv'
<1> SUFFICES ASSUME TypeOK, OwnerInv, StreamInv, [Next]_vars PROVE StreamInv'
  OBVIOUS
<1>t. /\ chan \in Seq(Event) /\ pending \in Seq(Event)
      /\ collected \in Seq(Event) /\ produced \in Seq(Event)
  BY DEF TypeOK
<1>1. CASE SpawnChild
  <2>1. produced = <<>> /\ collected = <<>> /\ chan = <<>> /\ pending = <<>>
    BY <1>1 DEF SpawnChild, OwnerInv
  <2>2. <<>> = <<>> \o (<<>> \o <<>>)
    BY ConcatEmptySeq, EmptySeq
  <2> QED
    BY <1>1, <2>1, <2>2 DEF SpawnChild, StreamInv, Reported
<1>2. CASE SpawnFails
  BY <1>2 DEF SpawnFails, StreamInv, Reported
<1>3. CASE Child \/ Hang \/ Drain \/ SentFinal \/ UNCHANGED vars
  BY <1>3 DEF StreamInv, Reported, Child, Hang, StartWrite, WriteLine, WriteDiagnostic,
              CloseStdout, Exit, Drain, SentFinal, vars, childVars, readerVars, runnerVars
<1>4. CASE ReadLine \/ ReadEnd \/ ReadError \/ Reap
  <2>1. CASE UNCHANGED <<pending, produced>>
    BY <1>4, <2>1 DEF StreamInv, Reported, ReadLine, ReadEnd, ReadError, Reap, runnerVars
  <2>2. ASSUME NEW more \in Seq(Event), pending = <<>>, pending' = more,
               produced' = produced \o more
        PROVE  StreamInv'
    <3>1. UNCHANGED <<chan, runner, status, collected>>
      BY <1>4 DEF ReadLine, ReadEnd, ReadError, Reap, runnerVars
    <3>2. ASSUME produced = collected \o (chan \o pending)
          PROVE  produced' = collected \o (chan \o pending')
      <4>1. chan \o pending = chan
        BY <1>t, <2>2, ConcatEmptySeq
      <4>2. produced' = (collected \o chan) \o more
        BY <2>2, <3>2, <4>1
      <4> QED
        BY <1>t, <2>2, <4>2, ConcatAssociative
    <3> QED
      BY <3>1, <3>2 DEF StreamInv, Reported
  <2>3. CASE ReadLine
    <3>1. Head(stdout) \in Seq(Event)
      BY <2>3, PopTyped, LinesTyped DEF TypeOK, ReadLine
    <3> QED
      BY <2>2, <2>3, <3>1 DEF ReadLine
  <2>4. CASE ReadEnd \/ ReadError
    BY <2>2, <2>4, LinesTyped DEF ReadEnd, ReadError
  <2>5. CASE Reap
    <3>1. "failed" \in Event /\ <<"failed">> \in Seq(Event)
      BY DEF Event
    <3>2. Append(produced, "failed") = produced \o <<"failed">>
      BY <1>t, <3>1, AppendIsConcat
    <3>3. pending = <<>>
      BY <2>5 DEF Reap, OwnerInv
    <3> QED
      BY <2>1, <2>2, <2>5, <3>1, <3>2, <3>3 DEF Reap
  <2> QED
    BY <1>4, <2>3, <2>4, <2>5
<1>5. CASE Send
  <2>1. chan' \o pending' = chan \o pending
    BY <1>5, <1>t, MoveHead DEF Send
  <2> QED
    BY <1>5, <2>1 DEF StreamInv, Reported, Send, Listening, runnerVars
<1>6. CASE SendFails \/ Aborted
  BY <1>6 DEF StreamInv, Reported, OwnerInv, SendFails, Aborted, ReaderEnds, Listening,
              runnerVars
<1>7. CASE SentLast
  BY <1>7 DEF StreamInv, Reported, SentLast, ReaderEnds, runnerVars
<1>8. CASE Collect
  <2>1. chan # <<>>
    BY <1>8 DEF Collect
  <2>2. Head(chan) \in Event /\ Tail(chan) \in Seq(Event)
    BY <1>t, <2>1, PopTyped
  <2>3. chan \o pending \in Seq(Event) /\ chan \o pending # <<>>
        /\ Head(chan \o pending) = Head(chan)
        /\ Tail(chan \o pending) = Tail(chan) \o pending
    BY <1>t, <2>1, JoinTyped, HeadOfConcat
  <2>4. collected' \o (chan' \o pending') = collected \o (chan \o pending)
    BY <1>8, <1>t, <2>3, MoveHead DEF Collect, readerVars
  <2> QED
    BY <1>8, <2>4 DEF StreamInv, Reported, Collect, readerVars
<1>9. CASE Finish
  BY <1>9 DEF StreamInv, Reported, Finish, readerVars
<1>10. CASE TimedOut \/ TimeOut \/ Cancel
  BY <1>10 DEF StreamInv, Reported, OwnerInv, TimedOut, TimeOut, Cancel, Collecting
<1> QED
  BY <1>1, <1>2, <1>3, <1>4, <1>5, <1>6, <1>7, <1>8, <1>9, <1>10 DEF Next, Reader, Runner
-----------------------------------------------------------------------------
LEMMA StatusInit == Init => StatusInv
  BY DEF Init, StatusInv, Reported

LEMMA StatusStep == TypeOK /\ OwnerInv /\ StatusInv /\ [Next]_vars => StatusInv'
<1> SUFFICES ASSUME TypeOK, OwnerInv, StatusInv, [Next]_vars PROVE StatusInv'
  OBVIOUS
<1>t. collected \in Seq(Event) /\ chan \in Seq(Event)
  BY DEF TypeOK
<1>1. CASE SpawnChild
  <2>1. status = "none" /\ \A i \in DOMAIN collected : collected[i] \notin Terminal
    BY <1>1 DEF SpawnChild, OwnerInv
  <2> QED
    BY <1>1, <2>1 DEF SpawnChild, StatusInv, Reported
<1>2. CASE SpawnFails
  BY <1>2 DEF SpawnFails, StatusInv, Reported
<1>3. CASE UNCHANGED runnerVars
  BY <1>3 DEF StatusInv, Reported, runnerVars
<1>4. CASE Collect
  <2> DEFINE ev == Head(chan)
             quiet == \A i \in DOMAIN collected : collected[i] \notin Terminal
  <2>1. ev \in Event /\ collected' = Append(collected, ev) /\ status' = FirstOf(ev)
    BY <1>4, <1>t, PopTyped DEF Collect
  <2>2. CASE IsFirst(collected, status)
    <3>1. status' = status
      BY <2>1, <2>2 DEF FirstOf, IsFirst, Terminal
    <3>2. IsFirst(collected', status')
      BY <1>t, <2>1, <2>2, <3>1, StatusOfOneMore
    <3> QED
      BY <1>4, <3>2 DEF StatusInv, Reported, Collect
  <2>3. CASE status = "none" /\ quiet /\ ev \in Terminal
    <3>1. IsFirst(collected', ev) /\ status' = ev
      BY <1>t, <2>1, <2>3, StatusOfOneMore DEF FirstOf
    <3> QED
      BY <1>4, <3>1 DEF StatusInv, Reported, Collect
  <2>4. CASE status = "none" /\ quiet /\ ev \notin Terminal
    <3>1. /\ \A i \in DOMAIN collected' : collected'[i] \notin Terminal
          /\ status' = "none"
      BY <1>t, <2>1, <2>4, StatusOfOneMore DEF FirstOf
    <3> QED
      BY <1>4, <3>1 DEF StatusInv, Reported, Collect
  <2> QED
    BY <1>4, <2>2, <2>3, <2>4 DEF StatusInv, Collect
<1>5. CASE Finish
  <2>1. status' = FirstTerminal(collected)
    <3>1. CASE status = "none" /\ \A i \in DOMAIN collected : collected[i] \notin Terminal
      BY <1>5, <3>1, NoneIsFirst DEF Finish
    <3>2. CASE IsFirst(collected, status)
      <4>1. status # "none"
        BY <3>2 DEF IsFirst, Terminal
      <4> QED
        BY <1>5, <1>t, <3>2, <4>1, FirstIsFirst DEF Finish
    <3> QED
      BY <1>5, <3>1, <3>2 DEF StatusInv, Finish
  <2> QED
    BY <1>5, <2>1 DEF StatusInv, Reported, Finish
<1>6. CASE TimedOut \/ TimeOut \/ Cancel
  BY <1>6 DEF StatusInv, Reported, OwnerInv, TimedOut, TimeOut, Cancel
<1>7. Child \/ Hang \/ Drain \/ Reader \/ Aborted \/ UNCHANGED vars => UNCHANGED runnerVars
  BY DEF Child, StartWrite, WriteLine, WriteDiagnostic, CloseStdout, Exit, Hang, Drain,
         Reader, ReadLine, ReadEnd, ReadError, Send, SendFails, SentFinal, Reap, SentLast,
         Aborted, vars
<1> QED
  BY <1>1, <1>2, <1>3, <1>4, <1>5, <1>6, <1>7 DEF Next, Runner
-----------------------------------------------------------------------------
LEMMA ChargeInit == Init => ChargeInv
  BY DEF Init, ChargeInv, Reported

LEMMA ChargeStep == TypeOK /\ OwnerInv /\ ChargeInv /\ [Next]_vars => ChargeInv'
<1> SUFFICES ASSUME TypeOK, OwnerInv, ChargeInv, [Next]_vars PROVE ChargeInv'
  OBVIOUS
<1>t. collected \in Seq(Event) /\ chan \in Seq(Event)
  BY DEF TypeOK
<1>1. CASE SpawnChild
  <2>1. Reports(collected) = {} /\ measured = 0
    BY <1>1 DEF SpawnChild, OwnerInv, Reports
  <2> QED
    BY <1>1, <2>1, FS_EmptySet DEF SpawnChild, ChargeInv, Reported
<1>2. CASE SpawnFails
  BY <1>2 DEF SpawnFails, ChargeInv, Reported
<1>3. CASE UNCHANGED runnerVars
  BY <1>3 DEF ChargeInv, Reported, runnerVars
<1>4. CASE Collect
  <2>1. Head(chan) \in Event
    BY <1>4, <1>t, PopTyped DEF Collect
  <2>2. measured' = Cardinality(Reports(collected'))
    BY <1>4, <1>t, <2>1, ReportsOfOneMore DEF Collect, ChargeInv
  <2> QED
    BY <1>4, <2>2 DEF ChargeInv, Reported, Collect
<1>5. CASE Finish
  <2>1. status' \notin {"timed_out", "error"} => (status' = "completed" <=> status = "completed")
    BY <1>5 DEF Finish
  <2>2. CASE Reported'
    BY <1>5, <2>1, <2>2 DEF ChargeInv, Reported, Finish
  <2>3. CASE ~Reported'
    BY <1>5, <2>3 DEF ChargeInv, Reported, Finish
  <2> QED
    BY <2>2, <2>3
<1>6. CASE TimedOut \/ TimeOut \/ Cancel
  BY <1>6 DEF ChargeInv, Reported, OwnerInv, TimedOut, TimeOut, Cancel, Collecting
<1>7. Child \/ Hang \/ Drain \/ Reader \/ Aborted \/ UNCHANGED vars => UNCHANGED runnerVars
  BY DEF Child, StartWrite, WriteLine, WriteDiagnostic, CloseStdout, Exit, Hang, Drain,
         Reader, ReadLine, ReadEnd, ReadError, Send, SendFails, SentFinal, Reap, SentLast,
         Aborted, vars
<1> QED
  BY <1>1, <1>2, <1>3, <1>4, <1>5, <1>6, <1>7 DEF Next, Runner
-----------------------------------------------------------------------------
(* Reader, runner, channel and accounting keep to their shares, for any    *)
(* session.                                                                *)
THEOREM SessionInvariant == Spec => []IInv
<1>1. Init => IInv
  BY TypeInit, OwnerInit, StreamInit, StatusInit, ChargeInit DEF IInv
<1>2. IInv /\ [Next]_vars => IInv'
  BY TypeStep, OwnerStep, StreamStep, StatusStep, ChargeStep DEF IInv
<1> QED
  BY <1>1, <1>2, PTL DEF Spec

(* The types hold; in particular the channel and the pipes keep to their   *)
(* capacities.                                                             *)
THEOREM SessionTypes == Spec => []TypeOK
<1>1. IInv => TypeOK
  BY DEF IInv
<1> QED
  BY <1>1, SessionInvariant, PTL

(* When a session returns, by any path, its child is dead: the reader      *)
(* holds the child, and the runner returns only after the reader ended.    *)
THEOREM SessionLeavesNoChild == Spec => []ReturnsWithoutChild
<1>1. IInv => ReturnsWithoutChild
  BY OwnerImplies DEF IInv
<1> QED
  BY <1>1, SessionInvariant, PTL

LEMMA AllCollected == IInv /\ Reported => collected = produced
<1> SUFFICES ASSUME IInv, Reported PROVE collected = produced
  OBVIOUS
<1>1. reader \in {"none", "gone"} /\ pending = <<>> /\ chan = <<>>
  BY DEF IInv, OwnerInv, StreamInv, Reported
<1>2. produced = collected \o (<<>> \o <<>>) /\ collected \in Seq(Event)
  BY <1>1 DEF IInv, StreamInv, TypeOK
<1>3. <<>> \o <<>> = <<>>
  BY ConcatEmptySeq, EmptySeq
<1> QED
  BY <1>2, <1>3, ConcatEmptySeq

(* What a session reports is everything its child produced, in order, and  *)
(* its status is the first terminal event.                                 *)
THEOREM SessionFirstTerminal == Spec => []FirstTerminalWins
<1>1. IInv => FirstTerminalWins
  <2> SUFFICES ASSUME IInv, Reported
               PROVE  collected = produced /\ status = FirstTerminal(produced)
    BY DEF FirstTerminalWins, Reported
  <2> QED
    BY AllCollected DEF IInv, StatusInv
<1> QED
  BY <1>1, SessionInvariant, PTL

(* A completed session is charged by its reports or by one estimate.       *)
THEOREM SessionChargedOnce == Spec => []ChargedOnce
<1>1. IInv => ChargedOnce
  <2> SUFFICES ASSUME IInv, runner = "returned" PROVE ChargedOnce
    BY DEF ChargedOnce
  <2>1. CASE Reported
    BY <2>1, AllCollected DEF IInv, ChargeInv, ChargedOnce, Reported
  <2>2. CASE ~Reported
    BY <2>2 DEF IInv, ChargeInv, ChargedOnce, Reported
  <2> QED
    BY <2>1, <2>2
<1> QED
  BY <1>1, SessionInvariant, PTL
-----------------------------------------------------------------------------
(* What is left of a session, the parts that no step gives back first: the *)
(* runner, the child and its writes, the reader, then what is on its way.  *)
RunnerLeft == CASE runner = "spawn" -> 3 [] runner = "collect" -> 2
                [] runner = "killing" -> 1 [] OTHER -> 0
ChildLeft == CASE child = "none" -> 3 [] child = "running" -> 2 [] child = "hung" -> 1
               [] OTHER -> 0
WriteLeft == IF want = "none" THEN 0 ELSE 1
OutputLeft == IF eof THEN 0 ELSE 1
ReaderLeft == CASE reader = "none" -> 5 [] reader = "lines" -> 4 [] reader = "final" -> 3
                [] reader = "exit" -> 2 [] reader = "last" -> 1 [] OTHER -> 0

WorkLeft == <<RunnerLeft, ChildLeft, OutputLeft, writes, WriteLeft, ReaderLeft,
              Len(stdout), Len(pending), Len(chan), stderr>>

WorkIsCounted == WorkLeft \in [1 .. 10 -> Nat]

(* The first part that differs is lower. *)
Lower(after, before) ==
  \E n \in DOMAIN before :
    after[n] < before[n] /\ \A m \in 1 .. (n - 1) : after[m] = before[m]

LEMMA WorkTyped == TypeOK => WorkIsCounted
<1> SUFFICES ASSUME TypeOK PROVE WorkLeft \in [1 .. 10 -> Nat]
  BY DEF WorkIsCounted
<1>1. RunnerLeft \in Nat /\ ChildLeft \in Nat
  BY DEF TypeOK, RunnerLeft, ChildLeft
<1>2. OutputLeft \in Nat /\ WriteLeft \in Nat /\ ReaderLeft \in Nat
  BY DEF TypeOK, OutputLeft, WriteLeft, ReaderLeft
<1>3. {writes, stderr, Len(stdout), Len(pending), Len(chan)} \subseteq Nat
  BY CapsAssumption DEF TypeOK
<1>4. DOMAIN WorkLeft = 1 .. 10 /\ WorkLeft = [n \in 1 .. 10 |-> WorkLeft[n]]
  BY DEF WorkLeft
<1>5. {WorkLeft[1], WorkLeft[2], WorkLeft[3], WorkLeft[4], WorkLeft[5]} \subseteq Nat
  BY <1>1, <1>2, <1>3 DEF WorkLeft
<1>6. {WorkLeft[6], WorkLeft[7], WorkLeft[8], WorkLeft[9], WorkLeft[10]} \subseteq Nat
  BY <1>2, <1>3 DEF WorkLeft
<1> HIDE DEF WorkLeft
<1>7. \A n \in 1 .. 10 : WorkLeft[n] \in Nat
  BY <1>5, <1>6
<1> QED
  BY <1>4, <1>7

LEMMA LowerAt ==
  ASSUME NEW n \in 1 .. 10, WorkLeft'[n] < WorkLeft[n],
         \A m \in 1 .. (n - 1) : WorkLeft'[m] = WorkLeft[m]
  PROVE  Lower(WorkLeft', WorkLeft)
<1>1. DOMAIN WorkLeft = 1 .. 10
  BY DEF WorkLeft
<1> QED
  BY <1>1 DEF Lower

LEMMA StepWindsDown == IInv /\ Next => Lower(WorkLeft', WorkLeft)
<1> SUFFICES ASSUME IInv, Next PROVE Lower(WorkLeft', WorkLeft)
  OBVIOUS
<1> USE DEF IInv, TypeOK
<1>1. CASE SpawnChild \/ SpawnFails \/ Finish \/ TimedOut \/ TimeOut \/ Cancel
  <2>1. RunnerLeft' < RunnerLeft
    BY <1>1 DEF SpawnChild, SpawnFails, Finish, TimedOut, TimeOut, Cancel, Collecting, RunnerLeft
  <2>2. WorkLeft'[1] < WorkLeft[1]
    BY <2>1 DEF WorkLeft
  <2> QED
    BY <2>2, LowerAt
<1>2. CASE Hang \/ Exit
  <2>1. ChildLeft' < ChildLeft /\ RunnerLeft' = RunnerLeft
    BY <1>2 DEF Hang, Exit, ChildLeft, RunnerLeft, runnerVars
  <2>2. WorkLeft'[2] < WorkLeft[2] /\ \A m \in 1 .. 1 : WorkLeft'[m] = WorkLeft[m]
    BY <2>1 DEF WorkLeft
  <2> QED
    BY <2>2, LowerAt
<1>3. CASE CloseStdout
  <2>1. OutputLeft' < OutputLeft /\ ChildLeft' = ChildLeft /\ RunnerLeft' = RunnerLeft
    BY <1>3 DEF CloseStdout, OutputLeft, ChildLeft, RunnerLeft, runnerVars
  <2>2. WorkLeft'[3] < WorkLeft[3] /\ \A m \in 1 .. 2 : WorkLeft'[m] = WorkLeft[m]
    BY <2>1 DEF WorkLeft
  <2> QED
    BY <2>2, LowerAt
<1>4. CASE StartWrite
  <2>1. /\ writes' < writes
        /\ OutputLeft' = OutputLeft /\ ChildLeft' = ChildLeft /\ RunnerLeft' = RunnerLeft
    BY <1>4 DEF StartWrite, OutputLeft, ChildLeft, RunnerLeft, runnerVars
  <2>2. WorkLeft'[4] < WorkLeft[4] /\ \A m \in 1 .. 3 : WorkLeft'[m] = WorkLeft[m]
    BY <2>1 DEF WorkLeft
  <2> QED
    BY <2>2, LowerAt
<1>5. CASE WriteLine \/ WriteDiagnostic
  <2>1. /\ WriteLeft' < WriteLeft /\ writes' = writes
        /\ OutputLeft' = OutputLeft /\ ChildLeft' = ChildLeft /\ RunnerLeft' = RunnerLeft
    BY <1>5 DEF WriteLine, WriteDiagnostic, WriteLeft, OutputLeft, ChildLeft, RunnerLeft, runnerVars
  <2>2. WorkLeft'[5] < WorkLeft[5] /\ \A m \in 1 .. 4 : WorkLeft'[m] = WorkLeft[m]
    BY <2>1 DEF WorkLeft
  <2> QED
    BY <2>2, LowerAt
<1>6. CASE ReadEnd \/ ReadError \/ SentFinal \/ Reap
  <2>1. /\ ReaderLeft' < ReaderLeft
        /\ UNCHANGED <<runner, child, eof, writes, want>>
    BY <1>6 DEF ReadEnd, ReadError, SentFinal, Reap, ReaderLeft, runnerVars, childVars
  <2>2. /\ RunnerLeft' = RunnerLeft /\ ChildLeft' = ChildLeft /\ OutputLeft' = OutputLeft
        /\ writes' = writes /\ WriteLeft' = WriteLeft
    BY <2>1 DEF RunnerLeft, ChildLeft, OutputLeft, WriteLeft
  <2>3. WorkLeft'[6] < WorkLeft[6] /\ \A m \in 1 .. 5 : WorkLeft'[m] = WorkLeft[m]
    BY <2>1, <2>2 DEF WorkLeft
  <2> QED
    BY <2>3, LowerAt
<1>7. CASE SendFails \/ SentLast \/ Aborted
  <2>0. ReaderEnds /\ UNCHANGED runnerVars
    BY <1>7 DEF SendFails, SentLast, Aborted
  <2>6. reader \notin {"none", "gone"}
    BY <1>7 DEF SendFails, SentLast, Aborted, OwnerInv
  <2>1. /\ ReaderLeft' < ReaderLeft /\ ReaderEnds /\ RunnerLeft' = RunnerLeft
    BY <2>0, <2>6 DEF ReaderEnds, ReaderLeft, RunnerLeft, runnerVars
  <2>2. writes' = writes /\ WriteLeft' = WriteLeft
    BY <2>1 DEF ReaderEnds, WriteLeft
  <2>3. CASE Alive
    <3>1. ChildLeft' < ChildLeft
      BY <2>1, <2>3 DEF ReaderEnds, ChildLeft, Alive
    <3>2. WorkLeft'[2] < WorkLeft[2] /\ \A m \in 1 .. 1 : WorkLeft'[m] = WorkLeft[m]
      BY <2>1, <3>1 DEF WorkLeft
    <3> QED
      BY <3>2, LowerAt
  <2>4. CASE ~Alive /\ ~eof
    <3>1. ChildLeft' = ChildLeft /\ OutputLeft' < OutputLeft
      BY <2>1, <2>4 DEF ReaderEnds, ChildLeft, OutputLeft
    <3>2. WorkLeft'[3] < WorkLeft[3] /\ \A m \in 1 .. 2 : WorkLeft'[m] = WorkLeft[m]
      BY <2>1, <3>1 DEF WorkLeft
    <3> QED
      BY <3>2, LowerAt
  <2>5. CASE ~Alive /\ eof
    <3>1. ChildLeft' = ChildLeft /\ OutputLeft' = OutputLeft
      BY <2>1, <2>5 DEF ReaderEnds, ChildLeft, OutputLeft
    <3>2. WorkLeft'[6] < WorkLeft[6] /\ \A m \in 1 .. 5 : WorkLeft'[m] = WorkLeft[m]
      BY <2>1, <2>2, <3>1 DEF WorkLeft
    <3> QED
      BY <3>2, LowerAt
  <2> QED
    BY <2>3, <2>4, <2>5
<1> DEFINE Same == UNCHANGED <<runner, child, eof, writes, want, reader>>
<1>8. Same => \A m \in 1 .. 6 : WorkLeft'[m] = WorkLeft[m]
  <2>1. Same => /\ RunnerLeft' = RunnerLeft /\ ChildLeft' = ChildLeft /\ OutputLeft' = OutputLeft
                /\ writes' = writes /\ WriteLeft' = WriteLeft /\ ReaderLeft' = ReaderLeft
    BY DEF RunnerLeft, ChildLeft, OutputLeft, WriteLeft, ReaderLeft
  <2>2. Same => /\ WorkLeft'[1] = WorkLeft[1] /\ WorkLeft'[2] = WorkLeft[2]
                /\ WorkLeft'[3] = WorkLeft[3] /\ WorkLeft'[4] = WorkLeft[4]
                /\ WorkLeft'[5] = WorkLeft[5] /\ WorkLeft'[6] = WorkLeft[6]
    BY <2>1 DEF WorkLeft
  <2> QED
    BY <2>2
<1>9. CASE ReadLine
  <2>1. Same /\ Len(stdout') < Len(stdout)
    BY <1>9 DEF ReadLine, runnerVars
  <2>2. WorkLeft'[7] < WorkLeft[7]
    BY <2>1 DEF WorkLeft
  <2> QED
    BY <1>8, <2>1, <2>2, LowerAt
<1>10. CASE Send
  <2>1. Same /\ stdout' = stdout /\ Len(pending') < Len(pending)
    BY <1>10 DEF Send, runnerVars, childVars
  <2>2. WorkLeft'[8] < WorkLeft[8] /\ WorkLeft'[7] = WorkLeft[7]
    BY <2>1 DEF WorkLeft
  <2> QED
    BY <1>8, <2>1, <2>2, LowerAt
<1>11. CASE Collect
  <2>1. Same /\ stdout' = stdout /\ pending' = pending /\ Len(chan') < Len(chan)
    BY <1>11 DEF Collect, childVars, readerVars
  <2>2. WorkLeft'[9] < WorkLeft[9] /\ WorkLeft'[8] = WorkLeft[8] /\ WorkLeft'[7] = WorkLeft[7]
    BY <2>1 DEF WorkLeft
  <2> QED
    BY <1>8, <2>1, <2>2, LowerAt
<1>12. CASE Drain
  <2>1. Same /\ UNCHANGED <<stdout, pending, chan>> /\ stderr' < stderr
    BY <1>12 DEF Drain, childVars, readerVars, runnerVars
  <2>2. WorkLeft'[10] < WorkLeft[10] /\ WorkLeft'[9] = WorkLeft[9]
          /\ WorkLeft'[8] = WorkLeft[8] /\ WorkLeft'[7] = WorkLeft[7]
    BY <2>1 DEF WorkLeft
  <2> QED
    BY <1>8, <2>1, <2>2, LowerAt
<1> QED
  BY <1>1, <1>2, <1>3, <1>4, <1>5, <1>6, <1>7, <1>9, <1>10, <1>11, <1>12
     DEF Next, Child, Reader, Runner

(* Every step of a session, also those of a child that hangs, of a failing *)
(* reader, of the time-out and of a cancellation, leaves less to do.  No   *)
(* interleaving of pipes, channel and runner goes round in a cycle; that   *)
(* none of them gets stuck either is what Ends adds.                       *)
SessionWindsDown == [][Lower(WorkLeft', WorkLeft) /\ WorkIsCounted']_vars

THEOREM SessionEndsItsWork == Spec => SessionWindsDown
<1>1. IInv => WorkIsCounted
  BY WorkTyped DEF IInv
<1>2. IInv /\ WorkIsCounted' /\ [Next]_vars => [Lower(WorkLeft', WorkLeft) /\ WorkIsCounted']_vars
  BY StepWindsDown
<1> QED
  BY <1>1, <1>2, SessionInvariant, PTL DEF Spec, SessionWindsDown
=============================================================================
