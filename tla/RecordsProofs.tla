----------------------------- MODULE RecordsProofs -----------------------------
(***************************************************************************)
(* What the records promise that runs leave behind, for all values of the  *)
(* constants: the usage log and the choice of a worker by it, the saved    *)
(* transcripts and their recall, and the scores of the evaluation harness. *)
(***************************************************************************)
EXTENDS Usage, Transcripts, Eval, FiniteSetTheorems, WellFoundedInduction, TLAPS

-----------------------------------------------------------------------------
Reading == [at : {"reading", "picked"}, since : Nat, next : Nat \ {0}, best : DOMAIN Workers,
            load : Nat]

UsageTypeOK ==
  /\ clock \in Clock
  /\ IsFiniteSet(usage)
  /\ choice \in {[at |-> "idle"]} \cup Reading

(* What a provider has used of a window, by some rows. *)
Load(rows, p, since) == Cardinality({row \in rows : row.of = p /\ row.at >= since})

(* Of the providers read so far, none had used less than the best, those   *)
(* before it had used more, and it is the first of its provider.           *)
BestSoFar ==
  choice.at # "idle" =>
    /\ choice.best < choice.next \/ (choice.best = 1 /\ choice.next = 1)
    /\ choice.at = "picked" => choice.next > Len(Workers)
    /\ \A i \in DOMAIN Workers : i < choice.next =>
         /\ choice.load <= Load(usage, Workers[i], choice.since)
         /\ i < choice.best => choice.load < Load(usage, Workers[i], choice.since)
         /\ Workers[i] = Workers[choice.best] => choice.best <= i
    /\ choice.at = "reading" => choice.next \in DOMAIN Workers

UsageInv == UsageTypeOK /\ BestSoFar

LEMMA LoadIsNat ==
  ASSUME NEW rows, IsFiniteSet(rows), NEW p, NEW since
  PROVE  Load(rows, p, since) \in Nat
<1>1. {row \in rows : row.of = p /\ row.at >= since} \in SUBSET rows
  OBVIOUS
<1> QED
  BY <1>1, FS_Subset, FS_CardinalityType DEF Load

(* A row more is no less in any window. *)
LEMMA LoadGrows ==
  ASSUME NEW rows, IsFiniteSet(rows), NEW x, NEW p, NEW since
  PROVE  Load(rows, p, since) <= Load(rows \cup {x}, p, since)
<1> DEFINE Of(some) == {row \in some : row.of = p /\ row.at >= since}
<1>1. IsFiniteSet(rows \cup {x})
  BY FS_AddElement
<1>2. IsFiniteSet(Of(rows \cup {x})) /\ Of(rows) \in SUBSET Of(rows \cup {x})
  BY <1>1, FS_Subset
<1> QED
  BY <1>2, FS_Subset DEF Load

LEMMA WorkersExist == DOMAIN Workers = 1 .. Len(Workers) /\ Len(Workers) \in Nat \ {0}
  BY UsageAssumption DEF UsageAssumption

LEMMA UsageInitInv == UsageInit => UsageInv
  BY UsageAssumption, FS_EmptySet DEF UsageInit, UsageInv, UsageTypeOK, BestSoFar, Clock

LEMMA UsageStepInv == UsageInv /\ [UsageNext]_usageVars => UsageInv'
<1> SUFFICES ASSUME UsageInv, [UsageNext]_usageVars PROVE UsageInv'
  OBVIOUS
<1> USE WorkersExist DEF UsageInv
<1>1. CASE ClockTicks
  BY <1>1, UsageAssumption DEF UsageAssumption, ClockTicks, UsageTypeOK, BestSoFar, Clock
<1>2. CASE PickWorker
  <2>1. 1 \in DOMAIN Workers
    OBVIOUS
  <2>2. Unlimited \in Nat
    BY UsageAssumption DEF UsageAssumption, Unlimited
  <2>3. UsageTypeOK'
    BY <1>2, <2>1, <2>2, UsageAssumption DEF UsageAssumption, PickWorker, UsageTypeOK, Reading, Clock
  <2> QED
    BY <1>2, <2>1, <2>3 DEF PickWorker, BestSoFar
<1>3. CASE ReadLoad
  <2> DEFINE now == choice.next
             total == Load(usage, Workers[now], choice.since)
             seen == Better(choice, now, total)
             to == IF now = Len(Workers) THEN "picked" ELSE "reading"
  <2>1. choice \in Reading /\ choice.at = "reading" /\ now \in DOMAIN Workers
    BY <1>3 DEF ReadLoad, UsageTypeOK, BestSoFar
  <2>2. \A i \in DOMAIN Workers : Load(usage, Workers[i], choice.since) \in Nat
    BY LoadIsNat DEF UsageTypeOK
  <2>3. /\ choice' = [seen EXCEPT !.next = now + 1, !.at = to]
        /\ UNCHANGED <<clock, usage>>
    BY <1>3 DEF ReadLoad, TotalSince, Load
  <2>4. total \in Nat
    BY <2>1, <2>2
  <2> HIDE DEF total
  <2>5. /\ seen \in Reading /\ seen.since = choice.since
        /\ seen.best = IF total < choice.load THEN now ELSE choice.best
        /\ seen.load = IF total < choice.load THEN total ELSE choice.load
    <3>1. CASE total < choice.load
      BY <2>1, <2>4, <3>1 DEF Better, Reading
    <3>2. CASE ~(total < choice.load)
      BY <2>1, <3>2 DEF Better
    <3> QED
      BY <3>1, <3>2
  <2> HIDE DEF seen
  <2>6. /\ choice' \in Reading /\ choice'.since = seen.since /\ choice'.next = now + 1
        /\ choice'.at = to
        /\ choice'.best = seen.best /\ choice'.load = seen.load
    <3>1. to \in {"reading", "picked"} /\ now + 1 \in Nat \ {0}
      BY <2>1
    <3> HIDE DEF to, now
    <3> QED
      BY <2>3, <2>5, <3>1 DEF Reading
  <2>7. UsageTypeOK'
    BY <2>3, <2>6 DEF UsageTypeOK
  <2>8. /\ total < choice.load =>
             \A i \in DOMAIN Workers : i < now => total < Load(usage, Workers[i], choice.since)
        /\ ~(total < choice.load) => choice.load <= total
    BY <2>1, <2>2, <2>4 DEF BestSoFar, Reading
  <2>9. BestSoFar'
    <3>1. \A i \in DOMAIN Workers : i < now + 1 =>
            /\ seen.load <= Load(usage, Workers[i], choice.since)
            /\ i < seen.best => seen.load < Load(usage, Workers[i], choice.since)
            /\ Workers[i] = Workers[seen.best] => seen.best <= i
      BY <2>1, <2>2, <2>4, <2>5, <2>8 DEF BestSoFar, Reading, total
    <3> QED
      BY <2>1, <2>3, <2>5, <2>6, <3>1 DEF BestSoFar, Reading
  <2> QED
    BY <2>7, <2>9
<1>4. ASSUME NEW p \in Providers, RecordUsage(p) PROVE UsageInv'
  <2>1. PICK row : usage' = usage \cup {row}
    BY <1>4 DEF RecordUsage
  <2>2. UNCHANGED <<clock, choice>>
    BY <1>4 DEF RecordUsage
  <2>3. IsFiniteSet(usage) /\ IsFiniteSet(usage')
    BY <2>1, FS_AddElement DEF UsageTypeOK
  <2>4. UsageTypeOK'
    BY <2>2, <2>3 DEF UsageTypeOK
  <2>5. \A i \in DOMAIN Workers :
          /\ Load(usage, Workers[i], choice.since) \in Nat
          /\ Load(usage', Workers[i], choice.since) \in Nat
          /\ Load(usage, Workers[i], choice.since) <= Load(usage', Workers[i], choice.since)
    BY <2>1, <2>3, LoadIsNat, LoadGrows
  <2>6. BestSoFar'
    <3>1. CASE choice.at = "idle"
      BY <2>2, <3>1 DEF BestSoFar
    <3>2. CASE choice.at # "idle"
      <4>1. choice \in Reading
        BY <3>2 DEF UsageTypeOK
      <4> QED
        BY <2>2, <2>5, <3>2, <4>1 DEF BestSoFar, Reading
    <3> QED
      BY <3>1, <3>2
  <2> QED
    BY <2>4, <2>6
<1>5. CASE UNCHANGED usageVars
  BY <1>5 DEF usageVars, UsageTypeOK, BestSoFar
<1> QED
  BY <1>1, <1>2, <1>3, <1>4, <1>5 DEF UsageNext

LEMMA UsageAlwaysInv == UsageSpec => []UsageInv
  BY UsageInitInv, UsageStepInv, PTL DEF UsageSpec

(* pick_worker_by_provider: the picked provider had used no more of the    *)
(* window than any provider has used of it now, and is the first of those, *)
(* for any workers, windows and number of rows that other runs record.     *)
THEOREM UsagePicksLeast == UsageSpec => []PickedIsLeast
<1>1. UsageInv => PickedIsLeast
  <2> SUFFICES ASSUME UsageInv, choice.at = "picked", NEW i \in DOMAIN Workers
               PROVE  /\ choice.load <= Load(usage, Workers[i], choice.since)
                      /\ i < choice.best => choice.load < Load(usage, Workers[i], choice.since)
                      /\ Workers[i] = Workers[choice.best] => choice.best <= i
    BY DEF PickedIsLeast, TotalSince, Load
  <2>1. choice \in Reading
    BY DEF UsageInv, UsageTypeOK
  <2>2. i < choice.next
    BY <2>1, WorkersExist DEF UsageInv, BestSoFar, Reading
  <2> QED
    BY <2>2 DEF UsageInv, BestSoFar
<1> QED
  BY <1>1, UsageAlwaysInv, PTL
-----------------------------------------------------------------------------
FileNames == Nat \X Nat \X {"council", "auto"}
Hits == [id : FileNames, of : Saves \cup {"partial"}]
Searches == [at : {"scanning", "hits"}, left : SUBSET FileNames, hits : Seq(Hits),
             there : SUBSET FileNames]
Pages == [at : {"paged"}, hit : Hits, got : SUBSET (Saves \cup {"partial"})]
Writers == [at : {"idle", "failed"}] \cup [at : {"timed"}, time : Nat]
             \cup [at : {"named", "created", "saved"}, name : FileNames]

TranscriptsTypeOK ==
  /\ nanos \in Nat /\ counter \in [Range(ProcessOf) -> Nat]
  /\ writer \in [Saves -> Writers]
  /\ DOMAIN runsDir \subseteq FileNames /\ IsFiniteSet(DOMAIN runsDir)
  /\ \A f \in DOMAIN runsDir : runsDir[f] \in Saves \cup {"partial"}
  /\ clashed \subseteq DOMAIN runsDir
  /\ recall \in [at : {"idle"}] \cup Searches \cup Pages

Drawn(s) == writer[s].at \in {"named", "created", "saved"}
Made(s) == writer[s].at \in {"created", "saved"}

(* The numbers of a process are drawn once each. *)
NumberInv ==
  \A s \in Saves : Drawn(s) =>
    /\ writer[s].name[2] < counter[ProcessOf[s]]
    /\ \A t \in Saves \ {s} : Drawn(t) /\ ProcessOf[s] = ProcessOf[t] =>
         writer[s].name[2] # writer[t].name[2]

(* A file has one save, which has not written it before it has, unless     *)
(* its name was created twice.                                             *)
FileInv ==
  \A s \in Saves : Made(s) =>
    /\ writer[s].name \in DOMAIN runsDir
    /\ writer[s].name \notin clashed =>
         /\ writer[s].at = "created" => runsDir[writer[s].name] = "partial"
         /\ \A t \in Saves : Made(t) /\ writer[t].name = writer[s].name => t = s

Ids == {recall.hits[n].id : n \in DOMAIN recall.hits}

(* A search has every file it should have found, or has it before it; what *)
(* it found is newer than what is left, and still in its file.             *)
SearchInv ==
  recall.at \in {"scanning", "hits"} =>
    /\ recall.left \cup recall.there \cup Ids \subseteq DOMAIN runsDir
    /\ IsFiniteSet(Ids) /\ Cardinality(Ids) = Len(recall.hits) /\ Ids \cap recall.left = {}
    /\ \A g \in Ids, f \in recall.left : Newer(g, f)
    /\ \A f \in recall.there \ clashed : IsHit(f) /\ f \in recall.left \cup Ids
    /\ \A n \in DOMAIN recall.hits : recall.hits[n].id \notin clashed =>
         runsDir[recall.hits[n].id] = recall.hits[n].of /\ Parses(recall.hits[n].id)
    /\ recall.at = "hits" => recall.left = {} \/ Len(recall.hits) = HitLimit

PageInv ==
  recall.at = "paged" /\ recall.hit.id \notin clashed => recall.got = {recall.hit.of}

TranscriptsInv == TranscriptsTypeOK /\ NumberInv /\ FileInv /\ SearchInv /\ PageInv
-----------------------------------------------------------------------------
LEMMA NewerTransitive ==
  ASSUME NEW f \in FileNames, NEW g \in FileNames, NEW h \in FileNames, Newer(f, g), Newer(g, h)
  PROVE  Newer(f, h)
  BY DEF Newer, FileNames

LEMMA NewerTotal ==
  ASSUME NEW f \in FileNames, NEW g \in FileNames, f # g
  PROVE  Newer(f, g) \/ Newer(g, f)
  BY DEF Newer, FileNames

LEMMA NewerIrreflexive == ASSUME NEW f \in FileNames PROVE ~Newer(f, f)
  BY DEF Newer, FileNames

LEMMA SmallestNumber ==
  ASSUME NEW ns \in SUBSET Nat, ns # {}
  PROVE  \E n \in ns : \A m \in ns : n <= m
<1>1. IsWellFoundedOn(OpToRel(<, Nat), Nat)
  BY NatLessThanWellFounded
<1>2. PICK n \in ns : \A m \in ns : ~(<<m, n>> \in OpToRel(<, Nat))
  BY <1>1, WFMin
<1>3. \A m \in ns : ~(m < n)
  BY <1>2 DEF OpToRel
<1> QED
  BY <1>3

(* Some file of any finite directory is the newest: one with the fewest    *)
(* newer ones has none.                                                    *)
LEMMA NewestExists ==
  ASSUME NEW files \in SUBSET FileNames, IsFiniteSet(files), files # {}
  PROVE  \E f \in files : \A g \in files \ {f} : Newer(f, g)
<1> DEFINE Above(f) == {g \in files : Newer(g, f)}
           counts == {Cardinality(Above(f)) : f \in files}
<1>1. \A f \in files : IsFiniteSet(Above(f)) /\ Cardinality(Above(f)) \in Nat
  BY FS_Subset, FS_CardinalityType
<1>2. PICK n \in counts : \A m \in counts : n <= m
  <2>1. counts \in SUBSET Nat /\ counts # {}
    BY <1>1
  <2> HIDE DEF counts
  <2> QED
    BY <2>1, SmallestNumber
<1>3. PICK f \in files : n = Cardinality(Above(f))
  OBVIOUS
<1>4. ASSUME NEW g \in Above(f) PROVE FALSE
  <2>1. g \in files /\ Newer(g, f)
    OBVIOUS
  <2>2. Above(g) \in SUBSET Above(f)
    BY <2>1, NewerTransitive
  <2>3. g \notin Above(g)
    BY <2>1, NewerIrreflexive
  <2>4. Cardinality(Above(g)) # Cardinality(Above(f))
    BY <1>1, <1>4, <2>2, <2>3, FS_Subset
  <2>5. Cardinality(Above(g)) <= Cardinality(Above(f))
    BY <1>1, <2>2, FS_Subset
  <2>6. n <= Cardinality(Above(g))
    BY <1>2, <2>1
  <2> HIDE DEF Above
  <2> QED
    BY <1>1, <1>3, <2>1, <2>4, <2>5, <2>6
<1> QED
  BY <1>4, NewerTotal

LEMMA TranscriptsInitInv == TranscriptsInit => TranscriptsInv
<1> SUFFICES ASSUME TranscriptsInit PROVE TranscriptsInv
  OBVIOUS
<1>1. DOMAIN runsDir = {}
  BY DEF TranscriptsInit
<1>2. TranscriptsTypeOK
  BY <1>1, FS_EmptySet DEF TranscriptsInit, TranscriptsTypeOK, Writers
<1> QED
  BY <1>2 DEF TranscriptsInit, TranscriptsInv, NumberInv, FileInv, SearchInv, PageInv, Drawn, Made

(* What each step of a search leaves of it. *)
LEMMA ScanFileStep ==
  ASSUME TranscriptsInv, ScanFile
  PROVE  /\ recall \in Searches /\ recall.at = "scanning"
         /\ recall' \in Searches /\ recall'.there = recall.there
         /\ \/ /\ recall.left = {} \/ Len(recall.hits) = HitLimit
               /\ recall'.left = recall.left /\ recall'.hits = recall.hits
            \/ \E f \in recall.left :
                 /\ \A g \in recall.left \ {f} : Newer(f, g)
                 /\ recall'.at = "scanning" /\ recall'.left = recall.left \ {f}
                 /\ recall'.hits = IF IsHit(f) THEN Append(recall.hits, [id |-> f, of |-> runsDir[f]])
                                              ELSE recall.hits
<1> USE DEF TranscriptsInv, TranscriptsTypeOK
<1>1. recall \in Searches /\ recall.at = "scanning"
  BY DEF ScanFile, Searches, Pages
<1>2. CASE recall.left = {} \/ Len(recall.hits) = HitLimit
  <2>1. recall' = [recall EXCEPT !.at = "hits"]
    BY <1>2 DEF ScanFile
  <2>2. recall' \in Searches
    BY <1>1, <2>1 DEF Searches
  <2> QED
    BY <1>1, <1>2, <2>1, <2>2 DEF Searches
<1>3. CASE ~(recall.left = {} \/ Len(recall.hits) = HitLimit)
  <2> DEFINE f == CHOOSE g \in recall.left : \A h \in recall.left \ {g} : Newer(g, h)
             found == IF IsHit(f) THEN Append(recall.hits, [id |-> f, of |-> runsDir[f]])
                                  ELSE recall.hits
  <2>1. recall.left \subseteq DOMAIN runsDir /\ recall.left \subseteq FileNames /\ IsFiniteSet(recall.left)
    BY <1>1, FS_Subset DEF SearchInv
  <2>2. f \in recall.left /\ \A h \in recall.left \ {f} : Newer(f, h)
    <3>1. \E g \in recall.left : \A h \in recall.left \ {g} : Newer(g, h)
      BY <1>3, <2>1, NewestExists
    <3> QED
      BY <3>1
  <2>3. recall' = [recall EXCEPT !.left = @ \ {f}, !.hits = found]
    BY <1>3 DEF ScanFile
  <2> HIDE DEF f
  <2>4. found \in Seq(Hits)
    <3>1. [id |-> f, of |-> runsDir[f]] \in Hits
      BY <2>1, <2>2 DEF Hits
    <3> QED
      BY <1>1, <3>1 DEF Searches
  <2>5. recall'.hits = found
    BY <1>1, <2>3 DEF Searches
  <2> HIDE DEF found
  <2>6. /\ recall' \in Searches /\ recall'.at = "scanning" /\ recall'.left = recall.left \ {f}
        /\ recall'.there = recall.there
    BY <1>1, <2>3, <2>4 DEF Searches
  <2> QED
    BY <1>1, <2>2, <2>5, <2>6 DEF found
<1> QED
  BY <1>2, <1>3

LEMMA TranscriptsStepTypeOK == TranscriptsInv /\ [TranscriptsNext]_transcriptVars => TranscriptsTypeOK'
<1> SUFFICES ASSUME TranscriptsInv, [TranscriptsNext]_transcriptVars PROVE TranscriptsTypeOK'
  OBVIOUS
<1> USE DEF TranscriptsInv, TranscriptsTypeOK
<1>1. CASE TimePasses
  BY <1>1 DEF TimePasses
<1>2. CASE ListRuns
  <2>1. recall' \in Searches
    BY <1>2 DEF ListRuns, Searches
  <2> QED
    BY <1>2, <2>1 DEF ListRuns
<1>3. CASE ScanFile
  <2>1. recall' \in Searches
    BY <1>3, ScanFileStep
  <2> QED
    BY <1>3, <2>1 DEF ScanFile
<1>4. CASE PageIn
  <2>1. recall \in Searches
    BY <1>4 DEF PageIn, Pages
  <2>2. recall' \in Pages
    BY <1>4, <2>1 DEF PageIn, Pages, Searches, Named
  <2> QED
    BY <1>4, <2>2 DEF PageIn
<1>5. ASSUME NEW s \in Saves, ReadClock(s) PROVE TranscriptsTypeOK'
  <2>1. [at |-> "timed", time |-> nanos] \in Writers
    BY DEF Writers
  <2> QED
    BY <1>5, <2>1 DEF ReadClock
<1>6. ASSUME NEW s \in Saves, DrawSeq(s) PROVE TranscriptsTypeOK'
  <2>1. writer[s] \in [at : {"timed"}, time : Nat]
    BY <1>6 DEF DrawSeq, Writers
  <2>2. ProcessOf[s] \in Range(ProcessOf) /\ KindOf[s] \in {"council", "auto"}
    BY TranscriptsAssumption DEF TranscriptsAssumption, Range
  <2>3. [at |-> "named", name |-> <<writer[s].time, Tiebreaker(ProcessOf[s]), KindOf[s]>>] \in Writers
    BY <2>1, <2>2 DEF Writers, FileNames, Tiebreaker
  <2> QED
    BY <1>6, <2>2, <2>3 DEF DrawSeq
<1>7. ASSUME NEW s \in Saves, CreateFile(s) PROVE TranscriptsTypeOK'
  <2>1. writer[s] \in [at : {"named", "created", "saved"}, name : FileNames]
    BY <1>7 DEF CreateFile, Writers
  <2>2. [writer[s] EXCEPT !.at = "created"] \in Writers
    BY <2>1 DEF Writers
  <2>3. writer' \in [Saves -> Writers]
    BY <1>7, <2>2 DEF CreateFile
  <2>4. IsFiniteSet(DOMAIN runsDir \cup {writer[s].name})
    BY FS_AddElement
  <2>5. /\ DOMAIN runsDir' = DOMAIN runsDir \cup {writer[s].name}
        /\ \A f \in DOMAIN runsDir' : runsDir'[f] \in Saves \cup {"partial"}
    BY <1>7 DEF CreateFile
  <2>6. clashed' \subseteq DOMAIN runsDir'
    BY <1>7, <2>5 DEF CreateFile
  <2> QED
    BY <1>7, <2>1, <2>3, <2>4, <2>5, <2>6 DEF CreateFile
<1>8. ASSUME NEW s \in Saves, WriteFile(s) PROVE TranscriptsTypeOK'
  <2>1. writer[s] \in [at : {"named", "created", "saved"}, name : FileNames]
    BY <1>8 DEF WriteFile, Writers
  <2>2. [writer[s] EXCEPT !.at = "saved"] \in Writers
    BY <2>1 DEF Writers
  <2>3. writer' \in [Saves -> Writers]
    BY <1>8, <2>2 DEF WriteFile
  <2>4. DOMAIN runsDir' = DOMAIN runsDir /\ \A f \in DOMAIN runsDir' : runsDir'[f] \in Saves \cup {"partial"}
    BY <1>8 DEF WriteFile
  <2> QED
    BY <1>8, <2>3, <2>4 DEF WriteFile
<1>9. ASSUME NEW s \in Saves, SaveFails(s) PROVE TranscriptsTypeOK'
  <2>1. [at |-> "failed"] \in Writers
    BY DEF Writers
  <2> QED
    BY <1>9, <2>1 DEF SaveFails
<1>10. CASE UNCHANGED transcriptVars
  BY <1>10 DEF transcriptVars
<1> QED
  BY <1>1, <1>2, <1>3, <1>4, <1>5, <1>6, <1>7, <1>8, <1>9, <1>10 DEF TranscriptsNext

(* What the step of a save leaves of the other saves, and of its own. *)
LEMMA WriterKept ==
  ASSUME TranscriptsInv, NEW s \in Saves, NEW w \in Writers, writer' = [writer EXCEPT ![s] = w]
  PROVE  writer'[s] = w /\ \A t \in Saves \ {s} : writer'[t] = writer[t]
  BY DEF TranscriptsInv, TranscriptsTypeOK

(* NumberInv, for a step that draws no number. *)
LEMMA NumbersKept ==
  ASSUME TranscriptsInv, counter' = counter,
         \A t \in Saves : Drawn(t)' => Drawn(t) /\ writer'[t].name = writer[t].name
  PROVE  NumberInv'
  BY DEF TranscriptsInv, NumberInv

(* FileInv, for a step that makes no file and writes none. *)
LEMMA FilesKept ==
  ASSUME TranscriptsInv, UNCHANGED <<runsDir, clashed>>,
         \A t \in Saves : Made(t)' => writer'[t] = writer[t]
  PROVE  FileInv'
  BY DEF TranscriptsInv, FileInv, Made

LEMMA TranscriptsStepFiles ==
  TranscriptsInv /\ [TranscriptsNext]_transcriptVars => NumberInv' /\ FileInv'
<1> SUFFICES ASSUME TranscriptsInv, [TranscriptsNext]_transcriptVars PROVE NumberInv' /\ FileInv'
  OBVIOUS
<1>1. CASE UNCHANGED <<counter, writer, runsDir, clashed>>
  BY <1>1, NumbersKept, FilesKept DEF Drawn, Made
<1>2. ASSUME NEW s \in Saves, ReadClock(s) PROVE NumberInv' /\ FileInv'
  <2> DEFINE w == [at |-> "timed", time |-> nanos]
  <2>1. w \in Writers /\ w.at = "timed" /\ writer' = [writer EXCEPT ![s] = w]
    BY <1>2 DEF ReadClock, TranscriptsInv, TranscriptsTypeOK, Writers
  <2> HIDE DEF w
  <2>2. writer'[s].at = "timed" /\ \A t \in Saves \ {s} : writer'[t] = writer[t]
    BY <2>1, WriterKept
  <2>3. \A t \in Saves : Drawn(t)' \/ Made(t)' => t # s
    BY <2>2 DEF Drawn, Made
  <2>4. \A t \in Saves : Drawn(t)' => Drawn(t) /\ writer'[t].name = writer[t].name
    BY <2>2, <2>3 DEF Drawn
  <2>5. \A t \in Saves : Made(t)' => writer'[t] = writer[t]
    BY <2>2, <2>3
  <2> QED
    BY <1>2, <2>4, <2>5, NumbersKept, FilesKept DEF ReadClock
<1>3. ASSUME NEW s \in Saves, SaveFails(s) PROVE NumberInv' /\ FileInv'
  <2> DEFINE w == [at |-> "failed"]
  <2>1. w \in Writers /\ w.at = "failed" /\ writer' = [writer EXCEPT ![s] = w]
    BY <1>3 DEF SaveFails, Writers
  <2> HIDE DEF w
  <2>2. writer'[s].at = "failed" /\ \A t \in Saves \ {s} : writer'[t] = writer[t]
    BY <2>1, WriterKept
  <2>3. \A t \in Saves : Drawn(t)' \/ Made(t)' => t # s
    BY <2>2 DEF Drawn, Made
  <2>4. \A t \in Saves : Drawn(t)' => Drawn(t) /\ writer'[t].name = writer[t].name
    BY <2>2, <2>3 DEF Drawn
  <2>5. \A t \in Saves : Made(t)' => writer'[t] = writer[t]
    BY <2>2, <2>3
  <2> QED
    BY <1>3, <2>4, <2>5, NumbersKept, FilesKept DEF SaveFails
<1>4. ASSUME NEW s \in Saves, DrawSeq(s) PROVE NumberInv' /\ FileInv'
  <2> DEFINE p == ProcessOf[s]
             w == [at |-> "named", name |-> <<writer[s].time, counter[p], KindOf[s]>>]
  <2>1. writer[s] \in [at : {"timed"}, time : Nat]
    BY <1>4 DEF DrawSeq, TranscriptsInv, TranscriptsTypeOK, Writers
  <2>2. /\ p \in Range(ProcessOf) /\ KindOf[s] \in {"council", "auto"}
        /\ \A t \in Saves : ProcessOf[t] \in Range(ProcessOf)
    BY TranscriptsAssumption DEF TranscriptsAssumption, Range
  <2>3. counter \in [Range(ProcessOf) -> Nat]
    BY DEF TranscriptsInv, TranscriptsTypeOK
  <2>4. w \in Writers
    BY <2>1, <2>2, <2>3 DEF Writers, FileNames
  <2>5. writer' = [writer EXCEPT ![s] = w]
    BY <1>4 DEF DrawSeq, Tiebreaker
  <2>6. writer'[s] = w /\ \A t \in Saves \ {s} : writer'[t] = writer[t]
    BY <2>4, <2>5, WriterKept
  <2>7. counter' = [counter EXCEPT ![p] = counter[p] + 1]
    BY <1>4 DEF DrawSeq
  <2>8. writer'[s].at = "named" /\ writer'[s].name[2] = counter[p]
    BY <2>6
  <2> HIDE DEF w
  <2>9. FileInv'
    <3>1. \A t \in Saves : Made(t)' => writer'[t] = writer[t]
      BY <2>6, <2>8 DEF Made
    <3> QED
      BY <1>4, <3>1, FilesKept DEF DrawSeq
  <2>10. NumberInv'
    <3>1. \A t \in Saves \ {s} : Drawn(t)' = Drawn(t)
      BY <2>6 DEF Drawn
    <3>2. counter'[p] = counter[p] + 1 /\ \A q \in Range(ProcessOf) \ {p} : counter'[q] = counter[q]
      BY <2>2, <2>3, <2>7
    <3>3. \A t \in Saves \ {s} : Drawn(t)' =>
            writer'[t].name = writer[t].name /\ writer[t].name[2] < counter[ProcessOf[t]]
      BY <2>6, <3>1 DEF TranscriptsInv, NumberInv
    <3>4. \A t \in Saves \ {s} : Drawn(t) => writer[t].name[2] \in Nat
      BY DEF TranscriptsInv, TranscriptsTypeOK, Drawn, Writers, FileNames
    <3>5. \A t \in Saves : counter[ProcessOf[t]] \in Nat
      BY <2>2, <2>3
    <3>6. \A t \in Saves : Drawn(t)' => writer'[t].name[2] < counter'[ProcessOf[t]]
      BY <2>2, <2>8, <3>1, <3>2, <3>3, <3>4, <3>5
    <3>7. \A t \in Saves \ {s} : Drawn(t)' /\ ProcessOf[t] = p => writer'[t].name[2] # writer'[s].name[2]
      BY <2>8, <3>1, <3>3, <3>4, <3>5
    <3>8. \A t \in Saves \ {s}, u \in Saves \ {s} :
            Drawn(t)' /\ Drawn(u)' /\ t # u /\ ProcessOf[t] = ProcessOf[u] =>
              writer'[t].name[2] # writer'[u].name[2]
      BY <3>1, <3>3 DEF TranscriptsInv, NumberInv
    <3> QED
      BY <3>6, <3>7, <3>8 DEF NumberInv
  <2> QED
    BY <2>9, <2>10
<1>5. ASSUME NEW s \in Saves, CreateFile(s) PROVE NumberInv' /\ FileInv'
  <2> DEFINE name == writer[s].name
             w == [writer[s] EXCEPT !.at = "created"]
  <2>1. writer[s] \in [at : {"named", "created", "saved"}, name : FileNames] /\ writer[s].at = "named"
    BY <1>5 DEF CreateFile, TranscriptsInv, TranscriptsTypeOK, Writers
  <2>2. w \in Writers /\ w.at = "created" /\ w.name = name
    BY <2>1 DEF Writers
  <2>3. writer' = [writer EXCEPT ![s] = w]
    BY <1>5 DEF CreateFile, TranscriptsInv, TranscriptsTypeOK
  <2>4. writer'[s].at = "created" /\ writer'[s].name = name
          /\ \A t \in Saves \ {s} : writer'[t] = writer[t]
    BY <2>2, <2>3, WriterKept
  <2>5. NumberInv'
    <3>1. \A t \in Saves : Drawn(t)' => Drawn(t) /\ writer'[t].name = writer[t].name
      BY <2>1, <2>4 DEF Drawn
    <3> QED
      BY <1>5, <3>1, NumbersKept DEF CreateFile
  <2>6. /\ DOMAIN runsDir' = DOMAIN runsDir \cup {name}
        /\ runsDir'[name] = "partial"
        /\ \A f \in DOMAIN runsDir : f # name => runsDir'[f] = runsDir[f]
        /\ clashed' = clashed \cup (DOMAIN runsDir \cap {name})
    BY <1>5 DEF CreateFile
  <2>7. \A t \in Saves \ {s} : Made(t)' = Made(t)
    BY <2>4 DEF Made
  <2> HIDE DEF name, w
  <2>8. \A t \in Saves \ {s} : Made(t) => writer[t].name \in DOMAIN runsDir
    BY DEF TranscriptsInv, FileInv
  <2>9. ASSUME NEW t \in Saves, Made(t)'
        PROVE  /\ writer'[t].name \in DOMAIN runsDir'
               /\ writer'[t].name \notin clashed' =>
                    /\ writer'[t].at = "created" => runsDir'[writer'[t].name] = "partial"
                    /\ \A u \in Saves : Made(u)' /\ writer'[u].name = writer'[t].name => u = t
    <3>1. CASE t = s
      BY <2>4, <2>6, <2>7, <2>8, <3>1
    <3>2. CASE t # s
      <4>1. Made(t) /\ writer'[t] = writer[t] /\ writer[t].name \in DOMAIN runsDir
        BY <2>4, <2>7, <2>8, <2>9, <3>2
      <4>2. writer[t].name \notin clashed' => writer[t].name \notin clashed /\ writer[t].name # name
        BY <2>6, <4>1
      <4>3. writer[t].name \notin clashed =>
              /\ writer[t].at = "created" => runsDir[writer[t].name] = "partial"
              /\ \A u \in Saves : Made(u) /\ writer[u].name = writer[t].name => u = t
        BY <4>1 DEF TranscriptsInv, FileInv
      <4> QED
        BY <2>4, <2>6, <2>7, <4>1, <4>2, <4>3
    <3> QED
      BY <3>1, <3>2
  <2>10. FileInv'
    BY <2>9 DEF FileInv
  <2> QED
    BY <2>5, <2>10
<1>6. ASSUME NEW s \in Saves, WriteFile(s) PROVE NumberInv' /\ FileInv'
  <2> DEFINE name == writer[s].name
             w == [writer[s] EXCEPT !.at = "saved"]
  <2>1. writer[s] \in [at : {"named", "created", "saved"}, name : FileNames] /\ writer[s].at = "created"
    BY <1>6 DEF WriteFile, TranscriptsInv, TranscriptsTypeOK, Writers
  <2>2. w \in Writers /\ w.at = "saved" /\ w.name = name
    BY <2>1 DEF Writers
  <2>3. writer' = [writer EXCEPT ![s] = w]
    BY <1>6 DEF WriteFile, TranscriptsInv, TranscriptsTypeOK
  <2>4. writer'[s].at = "saved" /\ writer'[s].name = name
          /\ \A t \in Saves \ {s} : writer'[t] = writer[t]
    BY <2>2, <2>3, WriterKept
  <2>5. NumberInv'
    <3>1. \A t \in Saves : Drawn(t)' => Drawn(t) /\ writer'[t].name = writer[t].name
      BY <2>1, <2>4 DEF Drawn
    <3> QED
      BY <1>6, <3>1, NumbersKept DEF WriteFile
  <2>6. /\ DOMAIN runsDir' = DOMAIN runsDir
        /\ \A f \in DOMAIN runsDir : f # name => runsDir'[f] = runsDir[f]
        /\ clashed' = clashed
    BY <1>6 DEF WriteFile
  <2>7. \A t \in Saves : Made(t)' = Made(t) /\ writer'[t].name = writer[t].name
    BY <2>1, <2>4 DEF Made
  <2> HIDE DEF name, w
  <2>8. ASSUME NEW t \in Saves, Made(t)'
        PROVE  /\ writer'[t].name \in DOMAIN runsDir'
               /\ writer'[t].name \notin clashed' =>
                    /\ writer'[t].at = "created" => runsDir'[writer'[t].name] = "partial"
                    /\ \A u \in Saves : Made(u)' /\ writer'[u].name = writer'[t].name => u = t
    <3>1. Made(t) /\ Made(s)
      BY <2>1, <2>7, <2>8 DEF Made
    <3>2. /\ writer[t].name \in DOMAIN runsDir
          /\ writer[t].name \notin clashed =>
               /\ writer[t].at = "created" => runsDir[writer[t].name] = "partial"
               /\ \A u \in Saves : Made(u) /\ writer[u].name = writer[t].name => u = t
      BY <3>1 DEF TranscriptsInv, FileInv
    <3>3. t # s /\ writer[t].name \notin clashed => writer[t].name # name
      BY <3>1, <3>2 DEF name
    <3> QED
      BY <2>4, <2>6, <2>7, <3>1, <3>2, <3>3
  <2>9. FileInv'
    BY <2>8 DEF FileInv
  <2> QED
    BY <2>5, <2>9
<1> QED
  BY <1>1, <1>2, <1>3, <1>4, <1>5, <1>6
  DEF TranscriptsNext, TimePasses, ListRuns, ScanFile, PageIn, transcriptVars

(* No file loses what was read of it, unless its name was created twice.   *)
DirKeeps ==
  /\ DOMAIN runsDir \subseteq DOMAIN runsDir' /\ clashed \subseteq clashed'
  /\ \A f \in DOMAIN runsDir : f \notin clashed' /\ Parses(f) => runsDir'[f] = runsDir[f]

LEMMA SavesKeepFiles ==
  ASSUME TranscriptsInv, NEW s \in Saves,
         ReadClock(s) \/ DrawSeq(s) \/ CreateFile(s) \/ WriteFile(s) \/ SaveFails(s)
  PROVE  DirKeeps /\ recall' = recall
<1>1. CASE CreateFile(s)
  <2>1. \A f \in DOMAIN runsDir : f \notin clashed' => f # writer[s].name
    BY <1>1 DEF CreateFile
  <2> QED
    BY <1>1, <2>1 DEF CreateFile, DirKeeps
<1>2. CASE WriteFile(s)
  <2>1. writer[s].name \notin clashed => ~Parses(writer[s].name)
    BY <1>2 DEF WriteFile, TranscriptsInv, FileInv, Made, Parses
  <2>2. \A f \in DOMAIN runsDir : f # writer[s].name => runsDir'[f] = runsDir[f]
    BY <1>2 DEF WriteFile
  <2> QED
    BY <1>2, <2>1, <2>2 DEF WriteFile, DirKeeps
<1> QED
  BY <1>1, <1>2 DEF ReadClock, DrawSeq, SaveFails, DirKeeps

LEMMA SearchKept ==
  ASSUME TranscriptsInv, DirKeeps, recall' = recall
  PROVE  SearchInv' /\ PageInv'
<1>1. PageInv'
  BY DEF TranscriptsInv, PageInv, DirKeeps
<1>2. CASE recall.at \notin {"scanning", "hits"}
  BY <1>1, <1>2 DEF SearchInv
<1>3. CASE recall.at \in {"scanning", "hits"}
  <2>1. Ids' = Ids
    BY DEF Ids
  <2>2. recall.left \cup recall.there \cup Ids \subseteq DOMAIN runsDir
    BY <1>3 DEF TranscriptsInv, SearchInv
  <2>3. \A f \in DOMAIN runsDir : f \notin clashed' /\ Parses(f) =>
          f \notin clashed /\ Parses(f)' /\ (IsHit(f) => IsHit(f)') /\ runsDir'[f] = runsDir[f]
    BY DEF DirKeeps, Parses, IsHit
  <2>4. \A f \in recall.there \ clashed' : IsHit(f)' /\ f \in recall.left \cup Ids
    <3>1. \A f \in recall.there \ clashed : IsHit(f) /\ Parses(f) /\ f \in recall.left \cup Ids
      BY <1>3 DEF TranscriptsInv, SearchInv, IsHit
    <3> QED
      BY <2>2, <2>3, <3>1 DEF DirKeeps
  <2>5. \A n \in DOMAIN recall.hits : recall.hits[n].id \notin clashed' =>
          runsDir'[recall.hits[n].id] = recall.hits[n].of /\ Parses(recall.hits[n].id)'
    <3>1. \A n \in DOMAIN recall.hits : recall.hits[n].id \in Ids
      BY DEF Ids
    <3>2. \A n \in DOMAIN recall.hits : recall.hits[n].id \notin clashed =>
            runsDir[recall.hits[n].id] = recall.hits[n].of /\ Parses(recall.hits[n].id)
      BY <1>3 DEF TranscriptsInv, SearchInv
    <3> QED
      BY <2>2, <2>3, <3>1, <3>2 DEF DirKeeps
  <2>6. /\ IsFiniteSet(Ids) /\ Cardinality(Ids) = Len(recall.hits) /\ Ids \cap recall.left = {}
        /\ \A g \in Ids, f \in recall.left : Newer(g, f)
        /\ recall.at = "hits" => recall.left = {} \/ Len(recall.hits) = HitLimit
    BY <1>3 DEF TranscriptsInv, SearchInv
  <2>7. recall.left \cup recall.there \cup Ids \subseteq DOMAIN runsDir'
    BY <2>2 DEF DirKeeps
  <2>8. SearchInv'
    BY <2>1, <2>4, <2>5, <2>6, <2>7 DEF SearchInv
  <2> QED
    BY <1>1, <2>8
<1> QED
  BY <1>2, <1>3

LEMMA ListRunsSearch ==
  ASSUME TranscriptsInv, ListRuns
  PROVE  SearchInv' /\ PageInv'
<1>1. /\ recall'.at = "scanning" /\ recall'.left = DOMAIN runsDir /\ recall'.hits = <<>>
      /\ recall'.there = {f \in DOMAIN runsDir : IsHit(f)}
      /\ runsDir' = runsDir /\ clashed' = clashed
  BY DEF ListRuns
<1>2. Ids' = {} /\ DOMAIN recall'.hits = {} /\ Len(recall'.hits) = 0
  BY <1>1 DEF Ids
<1>3. \A f : IsHit(f)' = IsHit(f)
  BY <1>1 DEF IsHit, Parses
<1> QED
  BY <1>1, <1>2, <1>3, FS_EmptySet DEF SearchInv, PageInv

LEMMA ScanFileSearch ==
  ASSUME TranscriptsInv, ScanFile
  PROVE  SearchInv' /\ PageInv'
<1>1. /\ recall \in Searches /\ recall.at = "scanning"
      /\ recall' \in Searches /\ recall'.there = recall.there
  BY ScanFileStep
<1>2. runsDir' = runsDir /\ clashed' = clashed
  BY DEF ScanFile
<1>3. PageInv'
  BY <1>1 DEF PageInv, Searches
<1>4. \A f : (IsHit(f)' = IsHit(f)) /\ (Parses(f)' = Parses(f))
  BY <1>2 DEF IsHit, Parses
<1>5. /\ recall.left \cup recall.there \cup Ids \subseteq DOMAIN runsDir
      /\ IsFiniteSet(Ids) /\ Cardinality(Ids) = Len(recall.hits) /\ Ids \cap recall.left = {}
      /\ \A g \in Ids, f \in recall.left : Newer(g, f)
      /\ \A f \in recall.there \ clashed : IsHit(f) /\ f \in recall.left \cup Ids
      /\ \A n \in DOMAIN recall.hits : recall.hits[n].id \notin clashed =>
           runsDir[recall.hits[n].id] = recall.hits[n].of /\ Parses(recall.hits[n].id)
  BY <1>1 DEF TranscriptsInv, SearchInv
<1>6. CASE /\ recall.left = {} \/ Len(recall.hits) = HitLimit
           /\ recall'.left = recall.left /\ recall'.hits = recall.hits
  <2>1. Ids' = Ids
    BY <1>6 DEF Ids
  <2> QED
    BY <1>1, <1>2, <1>3, <1>4, <1>5, <1>6, <2>1 DEF SearchInv
<1>7. ASSUME NEW f \in recall.left,
             \A g \in recall.left \ {f} : Newer(f, g),
             recall'.at = "scanning", recall'.left = recall.left \ {f},
             recall'.hits = IF IsHit(f) THEN Append(recall.hits, [id |-> f, of |-> runsDir[f]])
                                        ELSE recall.hits
      PROVE  SearchInv'
  <2>1. CASE ~IsHit(f)
    <3>1. Ids' = Ids
      BY <1>7, <2>1 DEF Ids
    <3>2. f \notin recall.there \ clashed
      BY <1>5, <2>1
    <3> QED
      BY <1>1, <1>2, <1>4, <1>5, <1>7, <2>1, <3>1, <3>2 DEF SearchInv
  <2>2. CASE IsHit(f)
    <3> DEFINE hit == [id |-> f, of |-> runsDir[f]]
    <3>1. hit.id = f /\ hit.of = runsDir[f]
      OBVIOUS
    <3>2. recall'.hits = Append(recall.hits, hit)
      BY <1>7, <2>2
    <3> HIDE DEF hit
    <3>3. recall.hits \in Seq(Hits)
      BY <1>1 DEF Searches
    <3>4. /\ DOMAIN recall'.hits = DOMAIN recall.hits \cup {Len(recall.hits) + 1}
          /\ Len(recall'.hits) = Len(recall.hits) + 1
          /\ recall'.hits[Len(recall.hits) + 1] = hit
          /\ \A n \in DOMAIN recall.hits : recall'.hits[n] = recall.hits[n]
      BY <3>2, <3>3
    <3>5. Ids' = Ids \cup {f}
      BY <3>1, <3>4 DEF Ids
    <3>6. f \notin Ids
      BY <1>5
    <3>7. IsFiniteSet(Ids') /\ Cardinality(Ids') = Len(recall'.hits)
      BY <1>5, <3>4, <3>5, <3>6, FS_AddElement
    <3>8. /\ recall'.left \cup recall'.there \cup Ids' \subseteq DOMAIN runsDir'
          /\ Ids' \cap recall'.left = {}
          /\ \A g \in Ids', h \in recall'.left : Newer(g, h)
          /\ \A h \in recall'.there \ clashed' : IsHit(h)' /\ h \in recall'.left \cup Ids'
      BY <1>1, <1>2, <1>4, <1>5, <1>7, <3>5
    <3>9. \A n \in DOMAIN recall'.hits : recall'.hits[n].id \notin clashed =>
            runsDir[recall'.hits[n].id] = recall'.hits[n].of /\ runsDir[recall'.hits[n].id] # "partial"
      BY <1>5, <2>2, <3>1, <3>4 DEF IsHit, Parses
    <3> QED
      BY <1>2, <1>7, <3>7, <3>8, <3>9 DEF SearchInv, Parses
  <2> QED
    BY <2>1, <2>2
<1> QED
  BY <1>3, <1>6, <1>7, ScanFileStep

(* An id names its own file and no other. *)
LEMMA NamesItself ==
  ASSUME NEW id \in FileNames, DOMAIN runsDir \subseteq FileNames
  PROVE  Named(id) = {f \in DOMAIN runsDir : f = id /\ Parses(f)}
<1>1. Len(id) = 3 /\ \A f \in FileNames : SubSeq(f, 1, 3) = f
  BY DEF FileNames
<1> QED
  BY <1>1 DEF Named

LEMMA PageInSearch ==
  ASSUME TranscriptsInv, PageIn
  PROVE  SearchInv' /\ PageInv'
<1>1. recall \in Searches /\ recall.at = "hits"
  BY DEF PageIn, TranscriptsInv, TranscriptsTypeOK, Pages
<1>2. PICK n \in DOMAIN recall.hits :
        /\ recall'.at = "paged" /\ recall'.hit = recall.hits[n]
        /\ recall'.got = {runsDir[f] : f \in Named(recall.hits[n].id)}
  BY DEF PageIn
<1>3. recall.hits[n] \in Hits /\ recall.hits[n].id \in FileNames
  <2>1. recall.hits \in Seq(Hits) /\ n \in DOMAIN recall.hits
    BY <1>1 DEF Searches
  <2>2. recall.hits[n] \in Hits
    BY <2>1
  <2> QED
    BY <2>2 DEF Hits
<1>4. recall.hits[n].id \in DOMAIN runsDir
  BY <1>1 DEF TranscriptsInv, SearchInv, Ids
<1>5. recall.hits[n].id \notin clashed =>
        runsDir[recall.hits[n].id] = recall.hits[n].of /\ Parses(recall.hits[n].id)
  BY <1>1 DEF TranscriptsInv, SearchInv
<1>6. Named(recall.hits[n].id) = {f \in DOMAIN runsDir : f = recall.hits[n].id /\ Parses(f)}
  BY <1>3, NamesItself DEF TranscriptsInv, TranscriptsTypeOK
<1>7. clashed' = clashed
  BY DEF PageIn
<1> QED
  BY <1>2, <1>4, <1>5, <1>6, <1>7 DEF SearchInv, PageInv

LEMMA TranscriptsStepInv == TranscriptsInv /\ [TranscriptsNext]_transcriptVars => TranscriptsInv'
<1> SUFFICES ASSUME TranscriptsInv, [TranscriptsNext]_transcriptVars PROVE SearchInv' /\ PageInv'
  BY TranscriptsStepTypeOK, TranscriptsStepFiles DEF TranscriptsInv
<1>1. CASE UNCHANGED <<recall, runsDir, clashed>>
  BY <1>1, SearchKept DEF DirKeeps
<1> QED
  BY <1>1, SavesKeepFiles, SearchKept, ListRunsSearch, ScanFileSearch, PageInSearch
  DEF TranscriptsNext, TimePasses, transcriptVars

LEMMA TranscriptsAlwaysInv == TranscriptsSpec => []TranscriptsInv
  BY TranscriptsInitInv, TranscriptsStepInv, PTL DEF TranscriptsSpec

(* transcript.rs, mcp.rs: a transcript that was saved is recalled, whatever*)
(* the processes, the clock and the limit of the search, with other runs   *)
(* saving, failing or ending between any two steps of it.                  *)
THEOREM TranscriptsRecalled == TranscriptsSpec => []SavedIsRecalled
<1>1. TranscriptsInv => SavedIsRecalled
  <2> SUFFICES ASSUME TranscriptsInv PROVE SavedIsRecalled
    OBVIOUS
  <2>1. ASSUME NEW s \in Saves, NEW t \in Saves, s # t,
               {writer[s].at, writer[t].at} \subseteq {"named", "created", "saved"},
               writer[s].name = writer[t].name
        PROVE  ProcessOf[s] # ProcessOf[t]
    BY <2>1 DEF TranscriptsInv, NumberInv, Drawn
  <2>2. ASSUME recall.at = "hits", NEW f \in recall.there \ clashed
        PROVE  f \in Ids \/ (Cardinality(Ids) = HitLimit /\ \A g \in Ids : Newer(g, f))
    BY <2>2 DEF TranscriptsInv, SearchInv
  <2>3. (recall.at = "paged" /\ recall.hit.id \notin clashed) => recall.got = {recall.hit.of}
    BY DEF TranscriptsInv, PageInv
  <2> QED
    BY <2>1, <2>2, <2>3 DEF SavedIsRecalled, Ids
<1> QED
  BY <1>1, TranscriptsAlwaysInv, PTL
-----------------------------------------------------------------------------
Rows == [task : {Tasks[i] : i \in DOMAIN Tasks}, approach : {Approaches[j] : j \in DOMAIN Approaches},
         pipelineOk : BOOLEAN, success : BOOLEAN, verifyRan : BOOLEAN, solved : BOOLEAN, committed : BOOLEAN]
AtTrial == {"running", "restoring", "scoring"}

EvalTypeOK ==
  /\ suite \in {"next", "aborted", "reported"} \cup AtTrial
  /\ nth \in Nat /\ nth <= Matrix
  /\ suite \in AtTrial => nth < Matrix
  /\ copy \in Copies /\ head \in Copies /\ claim \in BOOLEAN
  /\ results \in Seq(Rows) /\ Len(results) = nth

(* Each result is of the trial that was due. *)
OrderInv ==
  /\ \A n \in DOMAIN results : results[n].task = TaskOf(n - 1) /\ results[n].approach = ApproachOf(n - 1)
  /\ suite = "reported" => nth = Matrix

(* The test that scores is the committed one, if it is protected. *)
JudgeInv ==
  /\ suite = "scoring" /\ TaskOf(nth) \in Protected => copy.test = head.test
  /\ \A n \in DOMAIN results : results[n].task \in Guarded /\ results[n].success =>
       results[n].solved \/ results[n].committed

EvalInv == EvalTypeOK /\ OrderInv /\ JudgeInv
-----------------------------------------------------------------------------
LEMMA DivIs ==
  ASSUME NEW q \in Nat, NEW b \in Nat, NEW r \in Nat, r < b
  PROVE  (q * b + r) \div b = q /\ (q * b + r) % b = r
  OBVIOUS

LEMMA DivMod ==
  ASSUME NEW a \in Nat, NEW b \in Nat, 0 < b
  PROVE  \E q, r \in Nat : r < b /\ a = q * b + r
<1>1. /\ a \div b \in Nat /\ a % b \in Nat /\ a % b < b
      /\ a = (a \div b) * b + (a % b)
  OBVIOUS
<1>2. PICK q, r : q = a \div b /\ r = a % b
  OBVIOUS
<1> QED
  BY <1>1, <1>2

LEMMA DivLess ==
  ASSUME NEW a \in Nat, NEW b \in Nat, NEW c \in Nat, a < c * b
  PROVE  a \div b < c
  OBVIOUS

LEMMA SuiteSizes ==
  /\ Len(Tasks) \in Nat /\ Len(Approaches) \in Nat /\ TrialCount \in Nat
  /\ DOMAIN Tasks = 1 .. Len(Tasks) /\ DOMAIN Approaches = 1 .. Len(Approaches)
  BY SuiteAssumption DEF SuiteAssumption

(* The trials in their order: those of a task together, and in them those  *)
(* of an approach.                                                         *)
PlaceOf(i, j, k) == ((i - 1) * Len(Approaches) + (j - 1)) * TrialCount + (k - 1)

LEMMA PlaceIs ==
  ASSUME NEW i \in DOMAIN Tasks, NEW j \in DOMAIN Approaches, NEW k \in 1 .. TrialCount
  PROVE  /\ PlaceOf(i, j, k) \in Nat /\ PlaceOf(i, j, k) < Matrix
         /\ TaskOf(PlaceOf(i, j, k)) = Tasks[i] /\ ApproachOf(PlaceOf(i, j, k)) = Approaches[j]
         /\ PlaceOf(i, j, k) \div (Len(Approaches) * TrialCount) = i - 1
         /\ (PlaceOf(i, j, k) \div TrialCount) % Len(Approaches) = j - 1
         /\ PlaceOf(i, j, k) % TrialCount = k - 1
<1>1. /\ Len(Tasks) \in Nat /\ Len(Approaches) \in Nat /\ TrialCount \in Nat
      /\ i - 1 \in Nat /\ j - 1 \in Nat /\ k - 1 \in Nat
      /\ i - 1 < Len(Tasks) /\ j - 1 < Len(Approaches) /\ k - 1 < TrialCount
  BY SuiteSizes
<1>2. (i - 1) + 1 = i /\ (j - 1) + 1 = j
  BY SuiteSizes
<1>3. PICK n, t, A, K, x, y, z :
        /\ n = PlaceOf(i, j, k) /\ t = Len(Tasks) /\ A = Len(Approaches) /\ K = TrialCount
        /\ x = i - 1 /\ y = j - 1 /\ z = k - 1
  OBVIOUS
<1>4. /\ t \in Nat /\ A \in Nat /\ K \in Nat /\ x \in Nat /\ y \in Nat /\ z \in Nat
      /\ x < t /\ y < A /\ z < K
  BY <1>1, <1>3
<1>5. n = (x * A + y) * K + z
  BY <1>3 DEF PlaceOf
<1>6. /\ n \in Nat /\ n < t * A * K /\ n % K = z
      /\ (n \div K) % A = y /\ n \div (A * K) = x
  <2> USE <1>4
  <2>1. PICK q : q = x * A + y
    OBVIOUS
  <2>2. x * A \in Nat /\ q \in Nat
    BY <2>1
  <2>3. q % A = y
    BY <2>1, DivIs
  <2>4. n = q * K + z
    BY <1>5, <2>1
  <2>5. n \div K = q /\ n % K = z
    BY <2>2, <2>4, DivIs
  <2>6. PICK b : b = A * K
    OBVIOUS
  <2>7. PICK r : r = y * K + z
    OBVIOUS
  <2>8. b \in Nat /\ r \in Nat /\ y * K \in Nat
    BY <2>6, <2>7
  <2>9. r < b
    <3>1. (y + 1) * K <= A * K
      OBVIOUS
    <3>2. (y + 1) * K = y * K + K
      OBVIOUS
    <3> QED
      BY <2>6, <2>7, <2>8, <3>1, <3>2
  <2>10. n = x * b + r
    <3>1. (x * A + y) * K = x * A * K + y * K
      OBVIOUS
    <3>2. x * A * K = x * (A * K)
      OBVIOUS
    <3>3. x * (A * K) \in Nat
      OBVIOUS
    <3> QED
      BY <1>5, <2>6, <2>7, <2>8, <3>1, <3>2, <3>3
  <2>11. n \div b = x
    BY <2>8, <2>9, <2>10, DivIs
  <2>12. n < t * b
    <3>1. (x + 1) * b <= t * b
      BY <2>8
    <3>2. (x + 1) * b = x * b + b /\ x * b \in Nat
      BY <2>8
    <3>3. t * b \in Nat
      BY <2>8
    <3> QED
      BY <2>8, <2>9, <2>10, <3>1, <3>2, <3>3
  <2>13. t * A * K = t * b
    BY <2>6
  <2>14. n \in Nat
    BY <2>8, <2>10
  <2> QED
    BY <2>1, <2>3, <2>5, <2>6, <2>11, <2>12, <2>13, <2>14
<1> QED
  BY <1>2, <1>3, <1>6 DEF Matrix, TaskOf, ApproachOf

(* Every trial of the suite is of some task, approach and turn. *)
LEMMA PlaceOfTrial ==
  ASSUME NEW n \in Nat, n < Matrix
  PROVE  \E i \in DOMAIN Tasks, j \in DOMAIN Approaches, k \in 1 .. TrialCount : n = PlaceOf(i, j, k)
<1>1. Len(Tasks) \in Nat /\ Len(Approaches) \in Nat /\ TrialCount \in Nat
  BY SuiteSizes
<1>2. PICK A \in Nat : A = Len(Approaches)
  BY <1>1
<1>3. PICK K \in Nat : K = TrialCount
  BY <1>1
<1>4. PICK t \in Nat : t = Len(Tasks)
  BY <1>1
<1>5. n < t * A * K
  BY <1>2, <1>3, <1>4 DEF Matrix
<1>6. 0 < K /\ 0 < A
  <2>1. K # 0
    BY <1>5
  <2>2. A # 0
    BY <1>5
  <2> QED
    BY <2>1, <2>2
<1>7. PICK q, z \in Nat : z < K /\ n = q * K + z
  BY <1>6, DivMod
<1>8. q < t * A
  <2>1. t * A \in Nat
    OBVIOUS
  <2>2. n \div K = q
    BY <1>7, DivIs
  <2> QED
    BY <1>5, <1>6, <2>1, <2>2, DivLess
<1>9. PICK x, y \in Nat : y < A /\ q = x * A + y
  BY <1>6, DivMod
<1>10. x < t
  <2>1. q \div A = x
    BY <1>9, DivIs
  <2> QED
    BY <1>6, <1>8, <2>1, DivLess
<1>11. x + 1 \in DOMAIN Tasks /\ y + 1 \in DOMAIN Approaches /\ z + 1 \in 1 .. TrialCount
  BY <1>2, <1>3, <1>4, <1>7, <1>9, <1>10, SuiteSizes
<1>12. n = PlaceOf(x + 1, y + 1, z + 1)
  BY <1>2, <1>3, <1>7, <1>9 DEF PlaceOf
<1> QED
  BY <1>11, <1>12

(* A suite that was run through has, for a task and an approach, the       *)
(* trials that were due and no other.                                      *)
LEMMA EveryTrialCounts ==
  ASSUME EvalInv, nth = Matrix, NEW task, NEW approach
  PROVE  /\ IsFiniteSet(Trials(task, approach))
         /\ Cardinality(Trials(task, approach)) = Cardinality(Due(task, approach))
<1> DEFINE ns == Trials(task, approach)
           due == Due(task, approach)
           f == [d \in due |-> PlaceOf(d[1], d[2], d[3]) + 1]
<1>1. DOMAIN results = 1 .. Matrix /\ Matrix \in Nat
  BY DEF EvalInv, EvalTypeOK
<1>2. ns = {n \in 1 .. Matrix : TaskOf(n - 1) = task /\ ApproachOf(n - 1) = approach}
  BY <1>1 DEF Trials, EvalInv, OrderInv
<1>3. IsFiniteSet(ns)
  <2>1. ns \in SUBSET (1 .. Matrix)
    BY <1>2
  <2> QED
    BY <1>1, <2>1, FS_Interval, FS_Subset
<1>4. \A d \in due : /\ d[1] \in DOMAIN Tasks /\ d[2] \in DOMAIN Approaches /\ d[3] \in 1 .. TrialCount
                     /\ Tasks[d[1]] = task /\ Approaches[d[2]] = approach
                     /\ d = <<d[1], d[2], d[3]>>
  BY DEF Due
<1>5. \A i \in DOMAIN Tasks, j \in DOMAIN Approaches, k \in 1 .. TrialCount :
        Tasks[i] = task /\ Approaches[j] = approach => <<i, j, k>> \in due
  BY DEF Due
<1> HIDE DEF ns, due
<1>6. f \in [due -> ns]
  <2> SUFFICES ASSUME NEW d \in due PROVE PlaceOf(d[1], d[2], d[3]) + 1 \in ns
    OBVIOUS
  <2>1. PICK n : n = PlaceOf(d[1], d[2], d[3])
    OBVIOUS
  <2>2. n \in Nat /\ n < Matrix /\ TaskOf(n) = task /\ ApproachOf(n) = approach
    BY <1>4, <2>1, PlaceIs
  <2>3. n + 1 \in 1 .. Matrix /\ (n + 1) - 1 = n
    BY <1>1, <2>2
  <2>4. n + 1 \in ns
    BY <1>2, <2>2, <2>3
  <2> QED
    BY <2>1, <2>4
<1>7. \A d, e \in due : f[d] = f[e] => d = e
  <2> SUFFICES ASSUME NEW d \in due, NEW e \in due,
                      PlaceOf(d[1], d[2], d[3]) + 1 = PlaceOf(e[1], e[2], e[3]) + 1
               PROVE  d = e
    OBVIOUS
  <2>1. PICK m, n : m = PlaceOf(d[1], d[2], d[3]) /\ n = PlaceOf(e[1], e[2], e[3])
    OBVIOUS
  <2>2. /\ m \in Nat /\ m \div (Len(Approaches) * TrialCount) = d[1] - 1
        /\ (m \div TrialCount) % Len(Approaches) = d[2] - 1 /\ m % TrialCount = d[3] - 1
    BY <1>4, <2>1, PlaceIs
  <2>3. /\ n \in Nat /\ n \div (Len(Approaches) * TrialCount) = e[1] - 1
        /\ (n \div TrialCount) % Len(Approaches) = e[2] - 1 /\ n % TrialCount = e[3] - 1
    BY <1>4, <2>1, PlaceIs
  <2>4. m = n
    BY <2>1, <2>2, <2>3
  <2>5. d[1] - 1 = e[1] - 1 /\ d[2] - 1 = e[2] - 1 /\ d[3] - 1 = e[3] - 1
    BY <2>2, <2>3, <2>4
  <2>6. d[1] = e[1] /\ d[2] = e[2] /\ d[3] = e[3]
    BY <1>4, <2>5, SuiteSizes
  <2> QED
    BY <1>4, <2>6
<1>8. \A n \in ns : \E d \in due : f[d] = n
  <2> SUFFICES ASSUME NEW n \in ns PROVE \E d \in due : f[d] = n
    OBVIOUS
  <2>1. n \in 1 .. Matrix /\ TaskOf(n - 1) = task /\ ApproachOf(n - 1) = approach
    BY <1>2
  <2>2. n - 1 \in Nat /\ n - 1 < Matrix /\ (n - 1) + 1 = n
    BY <1>1, <2>1
  <2>3. PICK i \in DOMAIN Tasks, j \in DOMAIN Approaches, k \in 1 .. TrialCount :
          n - 1 = PlaceOf(i, j, k)
    BY <2>2, PlaceOfTrial
  <2>4. Tasks[i] = task /\ Approaches[j] = approach
    BY <2>1, <2>3, PlaceIs
  <2>5. <<i, j, k>> \in due
    BY <1>5, <2>4
  <2>6. f[<<i, j, k>>] = PlaceOf(i, j, k) + 1
    BY <2>5
  <2> QED
    BY <2>2, <2>3, <2>5, <2>6
<1> HIDE DEF f
<1>9. f \in Injection(due, ns) /\ f \in Surjection(due, ns)
  BY <1>6, <1>7, <1>8 DEF Injection, IsInjective, Surjection
<1> QED
  BY <1>3, <1>9, FS_Injection DEF ns, due

LEMMA ConcatMiddle ==
  ASSUME NEW S, NEW b \in Seq(S), NEW x \in S, NEW l \in Seq(S)
  PROVE  Len(b) + 1 \in DOMAIN (b \o <<x>> \o l) /\ (b \o <<x>> \o l)[Len(b) + 1] = x
<1>1. <<x>> \in Seq(S) /\ Len(<<x>>) = 1 /\ <<x>>[1] = x
  OBVIOUS
<1>2. b \o <<x>> \in Seq(S) /\ Len(b \o <<x>>) = Len(b) + 1
  BY <1>1
<1>3. (b \o <<x>>)[Len(b) + 1] = x
  BY <1>1
<1> QED
  BY <1>2, <1>3

(* verify.rs: a tree that is verified at all runs a test, unless only      *)
(* other commands were given.                                              *)
LEMMA SomeCommandTests ==
  ASSUME NEW given, NEW files, given = {} \/ "test" \in given, Resolved(given, files) # <<>>
  PROVE  \E n \in DOMAIN Resolved(given, files) : Resolved(given, files)[n].label = "test"
<1> DEFINE From(label) == IF label \in given THEN "config" ELSE Ecosystem(files)
           Named3 == [label : {"build", "test", "lint"}, command : {From(l) : l \in {"build", "test", "lint"}}]
           Row(label) == [label |-> label, command |-> From(label)]
           Some(label) == IF label \in given \cup Detected(files) THEN <<Row(label)>> ELSE <<>>
<1>1. Resolved(given, files) = Some("build") \o Some("test") \o Some("lint")
  BY DEF Resolved
<1>2. Row("build") \in Named3 /\ Row("test") \in Named3 /\ Row("lint") \in Named3 /\ Row("test").label = "test"
  OBVIOUS
<1>3. Detected(files) \in {{"build", "test", "lint"}, {}, {"test"}}
  BY DEF Detected
<1> HIDE DEF Named3, Row
<1>4. Some("build") \in Seq(Named3) /\ Some("test") \in Seq(Named3) /\ Some("lint") \in Seq(Named3)
  BY <1>2
<1>5. "test" \in given \cup Detected(files)
  <2>1. CASE "test" \in given
    BY <2>1
  <2>2. CASE given = {} /\ Detected(files) = {}
    <3>1. Some("build") = <<>> /\ Some("test") = <<>> /\ Some("lint") = <<>>
      BY <2>2
    <3> QED
      BY <1>1, <3>1
  <2> QED
    BY <1>3, <2>1, <2>2
<1>6. Some("test") = <<Row("test")>>
  BY <1>5
<1> HIDE DEF Some
<1>7. Resolved(given, files)[Len(Some("build")) + 1] = Row("test")
        /\ Len(Some("build")) + 1 \in DOMAIN Resolved(given, files)
  BY <1>1, <1>2, <1>4, <1>6, ConcatMiddle
<1> QED
  BY <1>2, <1>7

LEMMA EvalInitInv == EvalInit => EvalInv
<1> SUFFICES ASSUME EvalInit PROVE EvalInv
  OBVIOUS
<1>1. Matrix \in Nat
  BY SuiteSizes DEF Matrix
<1>2. Starter \in Copies
  BY DEF Starter, Copies
<1>3. DOMAIN results = {} /\ Len(results) = 0 /\ results \in Seq(Rows)
  BY DEF EvalInit
<1>4. suite = "next" /\ suite \notin AtTrial
  BY DEF EvalInit, AtTrial
<1>5. EvalTypeOK
  <2>1. nth \in Nat /\ nth <= Matrix
    BY <1>1 DEF EvalInit
  <2>2. copy \in Copies /\ head \in Copies /\ claim \in BOOLEAN
    BY <1>2 DEF EvalInit
  <2>3. Len(results) = nth
    BY <1>3 DEF EvalInit
  <2> QED
    BY <1>3, <1>4, <2>1, <2>2, <2>3 DEF EvalTypeOK
<1> QED
  BY <1>3, <1>4, <1>5 DEF EvalInv, OrderInv, JudgeInv

LEMMA TaskIsNamed ==
  ASSUME NEW n \in Nat, n < Matrix
  PROVE  /\ TaskOf(n) \in {Tasks[i] : i \in DOMAIN Tasks}
         /\ ApproachOf(n) \in {Approaches[j] : j \in DOMAIN Approaches}
<1>1. PICK i \in DOMAIN Tasks, j \in DOMAIN Approaches, k \in 1 .. TrialCount : n = PlaceOf(i, j, k)
  BY PlaceOfTrial
<1>2. TaskOf(n) = Tasks[i] /\ ApproachOf(n) = Approaches[j]
  BY <1>1, PlaceIs
<1> QED
  BY <1>2

(* The score of a trial: a guarded task passes by the test of the last     *)
(* commit, which is the test of the baseline if nothing was committed.     *)
LEMMA ScoreStep ==
  ASSUME EvalInv, Score
  PROVE  \E row \in Rows :
           /\ results' = Append(results, row)
           /\ row.task = TaskOf(nth) /\ row.approach = ApproachOf(nth)
           /\ row.task \in Guarded /\ row.success => row.solved \/ row.committed
<1> DEFINE commands == Resolved(VerifyOf[TaskOf(nth)], MarkersOf(copy))
<1>1. PICK outcome \in [DOMAIN commands -> CommandOutcomes] :
        /\ \A n \in DOMAIN commands : outcome[n] \in OutcomeOf(commands[n].label, copy)
        /\ results' = Append(results,
            [task |-> TaskOf(nth), approach |-> ApproachOf(nth), pipelineOk |-> claim,
             success |-> VerifyPassed(commands, outcome), verifyRan |-> VerifyRan(commands),
             solved |-> copy.solved, committed |-> head # Starter])
  BY DEF Score
<1>2. PICK success : success = VerifyPassed(commands, outcome)
  OBVIOUS
<1>3. success \in BOOLEAN /\ VerifyRan(commands) \in BOOLEAN
  BY <1>2 DEF VerifyPassed, VerifyRan
<1>4. TaskOf(nth) \in Guarded /\ success => copy.solved \/ head # Starter
  <2> SUFFICES ASSUME TaskOf(nth) \in Guarded, success, ~copy.solved, head = Starter
               PROVE  FALSE
    BY DEF EvalInv, EvalTypeOK, Copies
  <2>1. copy.test = "baseline"
    BY DEF EvalInv, JudgeInv, Score, Guarded, Starter
  <2>2. commands # <<>> /\ \A n \in DOMAIN commands : Blocking(commands[n].label) => outcome[n] = "ok"
    BY <1>2 DEF VerifyPassed, VerifyRan
  <2>3. VerifyOf[TaskOf(nth)] = {} \/ "test" \in VerifyOf[TaskOf(nth)]
    BY DEF Guarded
  <2>4. PICK n \in DOMAIN commands : commands[n].label = "test"
    BY <2>2, <2>3, SomeCommandTests
  <2>5. outcome[n] = "ok" /\ outcome[n] \in OutcomeOf("test", copy)
    BY <1>1, <2>2, <2>4 DEF Blocking
  <2> QED
    BY <2>1, <2>5 DEF OutcomeOf, Judges
<1> HIDE DEF commands
<1> DEFINE row == [task |-> TaskOf(nth), approach |-> ApproachOf(nth), pipelineOk |-> claim,
                   success |-> success, verifyRan |-> VerifyRan(commands),
                   solved |-> copy.solved, committed |-> head # Starter]
<1>5. row \in Rows
  <2>1. /\ TaskOf(nth) \in {Tasks[i] : i \in DOMAIN Tasks}
        /\ ApproachOf(nth) \in {Approaches[j] : j \in DOMAIN Approaches}
    <3>1. nth \in Nat /\ nth < Matrix
      BY DEF Score, EvalInv, EvalTypeOK, AtTrial
    <3> QED
      BY <3>1, TaskIsNamed
  <2>2. copy.solved \in BOOLEAN /\ claim \in BOOLEAN /\ (head # Starter) \in BOOLEAN
    BY DEF EvalInv, EvalTypeOK, Copies
  <2> QED
    BY <1>3, <2>1, <2>2 DEF Rows
<1> QED
  BY <1>1, <1>2, <1>4, <1>5

LEMMA EvalStepInv == EvalInv /\ [EvalNext]_evalVars => EvalInv'
<1> SUFFICES ASSUME EvalInv, [EvalNext]_evalVars PROVE EvalInv'
  OBVIOUS
<1> USE DEF EvalInv
<1>1. CASE PrepareTrial
  <2>1. nth < Matrix /\ suite' \in {"running", "aborted"} /\ UNCHANGED <<nth, results, copy, head, claim>>
    BY <1>1 DEF PrepareTrial, trialVars
  <2> QED
    BY <2>1 DEF EvalTypeOK, OrderInv, JudgeInv, AtTrial
<1>2. CASE WorkerEdits
  <2>1. copy' \in Copies
    <3>1. PICK f \in {"solved", "test", "manifest"}, t \in Copies : copy' = [copy EXCEPT ![f] = t[f]]
      BY <1>2 DEF WorkerEdits
    <3>2. CASE f = "solved"
      BY <3>1, <3>2 DEF EvalTypeOK, Copies
    <3>3. CASE f = "test"
      BY <3>1, <3>3 DEF EvalTypeOK, Copies
    <3>4. CASE f = "manifest"
      BY <3>1, <3>4 DEF EvalTypeOK, Copies
    <3> QED
      BY <3>1, <3>2, <3>3, <3>4
  <2> QED
    BY <1>2, <2>1 DEF WorkerEdits, EvalTypeOK, OrderInv, JudgeInv
<1>3. CASE WorkerCommits
  BY <1>3 DEF WorkerCommits, EvalTypeOK, OrderInv, JudgeInv
<1>4. CASE PipelineVerifies
  BY <1>4 DEF PipelineVerifies, EvalTypeOK, OrderInv, JudgeInv
<1>5. CASE ApproachEnds
  BY <1>5 DEF ApproachEnds, EvalTypeOK, OrderInv, JudgeInv, AtTrial
<1>6. CASE Restore
  <2>1. copy' \in Copies
    BY <1>6 DEF Restore, Restored, EvalTypeOK, Copies
  <2>2. TaskOf(nth) \in Protected => copy'.test = head.test
    BY <1>6 DEF Restore, Restored, EvalTypeOK, Copies
  <2>3. suite = "restoring" /\ suite' \in {"aborted", "scoring"} /\ UNCHANGED <<nth, head, claim, results>>
    BY <1>6 DEF Restore
  <2>4. EvalTypeOK'
    BY <2>1, <2>3 DEF EvalTypeOK, AtTrial
  <2>5. TaskOf(nth)' = TaskOf(nth)
    BY <2>3 DEF TaskOf
  <2> QED
    BY <2>2, <2>3, <2>4, <2>5 DEF OrderInv, JudgeInv
<1>7. CASE Score
  <2>1. PICK row \in Rows :
          /\ results' = Append(results, row)
          /\ row.task = TaskOf(nth) /\ row.approach = ApproachOf(nth)
          /\ row.task \in Guarded /\ row.success => row.solved \/ row.committed
    BY <1>7, ScoreStep
  <2>2. nth \in Nat /\ nth < Matrix /\ results \in Seq(Rows) /\ Len(results) = nth
    BY <1>7 DEF Score, EvalTypeOK, AtTrial
  <2>3. /\ results' \in Seq(Rows) /\ DOMAIN results' = DOMAIN results \cup {nth + 1}
        /\ Len(results') = nth + 1 /\ results'[nth + 1] = row
        /\ \A n \in DOMAIN results : results'[n] = results[n]
    BY <2>1, <2>2
  <2>4. /\ suite' = "next" /\ nth' = nth + 1 /\ copy' = Starter /\ head' = Starter /\ claim' = FALSE
    BY <1>7 DEF Score, FreshTrial
  <2>5. Starter \in Copies
    BY DEF Starter, Copies
  <2>6. Matrix \in Nat
    BY SuiteSizes DEF Matrix
  <2>7. EvalTypeOK'
    <3>1. nth' \in Nat /\ nth' <= Matrix
      BY <2>2, <2>4, <2>6
    <3>2. copy' \in Copies /\ head' \in Copies /\ claim' \in BOOLEAN
      BY <2>4, <2>5
    <3>3. suite' = "next" /\ suite' \notin AtTrial
      BY <2>4 DEF AtTrial
    <3>4. results' \in Seq(Rows) /\ Len(results') = nth'
      BY <2>3, <2>4
    <3> QED
      BY <3>1, <3>2, <3>3, <3>4 DEF EvalTypeOK
  <2>8. (nth + 1) - 1 = nth
    BY <2>2
  <2>9. \A n \in DOMAIN results' : results'[n].task = TaskOf(n - 1) /\ results'[n].approach = ApproachOf(n - 1)
    BY <2>1, <2>3, <2>8 DEF OrderInv
  <2>10. \A n \in DOMAIN results' : results'[n].task \in Guarded /\ results'[n].success =>
           results'[n].solved \/ results'[n].committed
    BY <2>1, <2>3 DEF JudgeInv
  <2> QED
    BY <2>4, <2>7, <2>9, <2>10 DEF OrderInv, JudgeInv
<1>8. CASE ReportSuite
  BY <1>8 DEF ReportSuite, EvalTypeOK, OrderInv, JudgeInv, AtTrial, trialVars
<1>9. CASE UNCHANGED evalVars
  BY <1>9 DEF evalVars, trialVars, EvalTypeOK, OrderInv, JudgeInv
<1> QED
  BY <1>1, <1>2, <1>3, <1>4, <1>5, <1>6, <1>7, <1>8, <1>9 DEF EvalNext

LEMMA EvalAlwaysInv == EvalSpec => []EvalInv
  BY EvalInitInv, EvalStepInv, PTL DEF EvalSpec

(* eval.rs: the reported score is earned, for any suite, any number of     *)
(* trials and whatever the approaches edit, commit, delete or claim.       *)
THEOREM EvalScoreEarned == EvalSpec => []ScoreIsEarned
<1>1. EvalInv => ScoreIsEarned
  <2> SUFFICES ASSUME EvalInv, suite = "reported", NEW task, NEW approach
               PROVE  LET ns == Trials(task, approach)
                          unearned == {n \in ns : ~results[n].solved /\ ~results[n].committed}
                          passes == {n \in ns : results[n].success}
                      IN  /\ Cardinality(ns) = Cardinality(Due(task, approach))
                          /\ task \in Guarded =>
                               Cardinality(passes) + Cardinality(unearned) <= Cardinality(ns)
    BY DEF ScoreIsEarned, Cell
  <2> DEFINE ns == Trials(task, approach)
             unearned == {n \in ns : ~results[n].solved /\ ~results[n].committed}
             passes == {n \in ns : results[n].success}
  <2>1. nth = Matrix
    BY DEF EvalInv, OrderInv
  <2>2. IsFiniteSet(ns) /\ Cardinality(ns) = Cardinality(Due(task, approach))
    BY <2>1, EveryTrialCounts
  <2>3. ASSUME task \in Guarded
        PROVE  Cardinality(passes) + Cardinality(unearned) <= Cardinality(ns)
    <3>1. passes \in SUBSET ns /\ unearned \in SUBSET ns
      OBVIOUS
    <3>2. passes \cap unearned = {}
      BY <2>3 DEF Trials, EvalInv, JudgeInv
    <3>3. passes \cup unearned \in SUBSET ns
      OBVIOUS
    <3> HIDE DEF passes, unearned, ns
    <3>4. IsFiniteSet(passes) /\ IsFiniteSet(unearned)
      BY <2>2, <3>1, FS_Subset
    <3>5. Cardinality(passes \cup unearned) <= Cardinality(ns)
      BY <2>2, <3>3, FS_Subset
    <3>6. Cardinality(passes) \in Nat /\ Cardinality(unearned) \in Nat
      BY <3>4, FS_CardinalityType
    <3>7. Cardinality(passes \cup unearned) = Cardinality(passes) + Cardinality(unearned)
      <4>1. Cardinality(passes \cap unearned) = 0
        BY <3>2, FS_EmptySet
      <4>2. Cardinality(passes \cup unearned)
              = Cardinality(passes) + Cardinality(unearned) - Cardinality(passes \cap unearned)
        BY <3>4, FS_Union
      <4> QED
        BY <3>6, <4>1, <4>2
    <3> QED
      BY <3>5, <3>7
  <2> QED
    BY <2>2, <2>3
<1> QED
  BY <1>1, EvalAlwaysInv, PTL
================================================================================
