------------------------------ MODULE Transcripts ------------------------------
(***************************************************************************)
(* The transcripts under ~/.consilium/runs: saved by runs, recalled by a   *)
(* host (orchestrator/transcript.rs; search_recall and page_in of mcp.rs). *)
(*                                                                         *)
(* A transcript is timed, numbered, created and written in steps of its    *)
(* own, by runs of several processes, any of which may end in between; a   *)
(* search lists the directory and then reads file by file.                 *)
(***************************************************************************)
EXTENDS Naturals, Sequences, FiniteSets, Functions

CONSTANTS
  Saves,      \* transcripts to be saved
  ProcessOf,  \* the process that saves each
  KindOf,     \* its kind: what the run was
  Relevant,   \* those that match the query of the host
  HitLimit,   \* the limit of a search
  LastNano    \* bound on the clock

ASSUME TranscriptsAssumption ==
  /\ DOMAIN ProcessOf = Saves /\ KindOf \in [Saves -> {"council", "auto"}]
  /\ Relevant \subseteq Saves /\ {HitLimit, LastNano} \subseteq Nat

VARIABLES
  nanos,    \* the system clock
  counter,  \* COUNTER of each process
  writer,   \* what each save is doing
  runsDir,  \* the files under runs, by name: the save they are of, or "partial"
  recall,   \* the search of the host, then the page_in of one of its hits
  clashed   \* history: names that more than one save has created

transcriptVars == <<nanos, counter, writer, runsDir, recall, clashed>>

TranscriptsInit ==
  /\ nanos = 0 /\ counter = [p \in Range(ProcessOf) |-> 0]
  /\ writer = [s \in Saves |-> [at |-> "idle"]]
  /\ runsDir = <<>> /\ clashed = {} /\ recall = [at |-> "idle"]

TimePasses ==
  /\ nanos < LastNano /\ nanos' = nanos + 1
  /\ UNCHANGED <<counter, writer, runsDir, recall, clashed>>
-----------------------------------------------------------------------------
(* TranscriptStore::save.  The clock is read, *)
ReadClock(s) ==
  /\ writer[s].at = "idle"
  /\ writer' = [writer EXCEPT ![s] = [at |-> "timed", time |-> nanos]]
  /\ UNCHANGED <<nanos, counter, runsDir, recall, clashed>>

(* Mutant of Tiebreaker: the time is enough. *)
TiebreakerNone(p) == 0
Tiebreaker(p) == counter[p]

(* the counter of the process drawn: the name is time, number and kind, *)
DrawSeq(s) ==
  LET p == ProcessOf[s] IN
  /\ writer[s].at = "timed"
  /\ writer' = [writer EXCEPT ![s] =
       [at |-> "named", name |-> <<@.time, Tiebreaker(p), KindOf[s]>>]]
  /\ counter' = [counter EXCEPT ![p] = @ + 1]
  /\ UNCHANGED <<nanos, runsDir, recall, clashed>>

(* the file is created, or cut to nothing if it is there, *)
CreateFile(s) ==
  LET name == writer[s].name IN
  /\ writer[s].at = "named"
  /\ writer' = [writer EXCEPT ![s].at = "created"]
  /\ runsDir' = [f \in DOMAIN runsDir \cup {name} |-> IF f = name THEN "partial" ELSE runsDir[f]]
  /\ clashed' = clashed \cup (DOMAIN runsDir \cap {name})
  /\ UNCHANGED <<nanos, counter, recall>>

(* and written. *)
WriteFile(s) ==
  /\ writer[s].at = "created"
  /\ writer' = [writer EXCEPT ![s].at = "saved"]
  /\ runsDir' = [runsDir EXCEPT ![writer[s].name] = s]
  /\ UNCHANGED <<nanos, counter, recall, clashed>>

(* A call fails, or the process ends. *)
SaveFails(s) ==
  /\ writer[s].at \in {"timed", "named", "created"}
  /\ writer' = [writer EXCEPT ![s] = [at |-> "failed"]]
  /\ UNCHANGED <<nanos, counter, runsDir, recall, clashed>>
-----------------------------------------------------------------------------
Parses(f) == runsDir[f] # "partial"
IsHit(f) == Parses(f) /\ runsDir[f] \in Relevant

(* The reverse order of the file names. *)
Newer(f, g) ==
  \/ f[1] > g[1]
  \/ f[1] = g[1] /\ f[2] > g[2]
  \/ f[1] = g[1] /\ f[2] = g[2] /\ f[3] = "council" /\ g[3] = "auto"

(* TranscriptStore::search: the directory is listed and sorted *)
ListRuns ==
  /\ recall.at # "scanning"
  /\ recall' = [at |-> "scanning", left |-> DOMAIN runsDir, hits |-> <<>>,
                there |-> {f \in DOMAIN runsDir : IsHit(f)}]
  /\ UNCHANGED <<nanos, counter, writer, runsDir, clashed>>

(* and read, the newest file first; one that does not parse is passed over.*)
(* The payloads have no id of their own, so a hit is told by its file stem.*)
ScanFile ==
  /\ recall.at = "scanning"
  /\ IF recall.left = {} \/ Len(recall.hits) = HitLimit
       THEN recall' = [recall EXCEPT !.at = "hits"]
     ELSE LET f == CHOOSE g \in recall.left : \A h \in recall.left \ {g} : Newer(g, h) IN
          recall' = [recall EXCEPT !.left = @ \ {f},
            !.hits = IF IsHit(f) THEN Append(@, [id |-> f, of |-> runsDir[f]]) ELSE @]
  /\ UNCHANGED <<nanos, counter, writer, runsDir, clashed>>

(* load_by_id: some file that parses and is named by the id, or by the id  *)
(* and what follows a hyphen.                                              *)
Named(id) == {f \in DOMAIN runsDir : SubSeq(f, 1, Len(id)) = id /\ Parses(f)}

PageIn ==
  /\ recall.at = "hits"
  /\ \E n \in DOMAIN recall.hits :
       LET hit == recall.hits[n] IN
       recall' = [at |-> "paged", hit |-> hit, got |-> {runsDir[f] : f \in Named(hit.id)}]
  /\ UNCHANGED <<nanos, counter, writer, runsDir, clashed>>

TranscriptsNext ==
  \/ TimePasses \/ ListRuns \/ ScanFile \/ PageIn
  \/ \E s \in Saves : ReadClock(s) \/ DrawSeq(s) \/ CreateFile(s) \/ WriteFile(s) \/ SaveFails(s)

TranscriptsSpec == TranscriptsInit /\ [][TranscriptsNext]_transcriptVars
-----------------------------------------------------------------------------
(* A transcript that was saved is recalled: two saves of a process never   *)
(* take one file, a search leaves out none that was there and matches but  *)
(* for newer ones, and paging in a hit gives the transcript that was hit,  *)
(* while other runs save, fail or end half way.  Only saves of different   *)
(* processes in the same nanosecond can take each other's file.            *)
SavedIsRecalled ==
  /\ \A s, t \in Saves :
       (s # t /\ {writer[s].at, writer[t].at} \subseteq {"named", "created", "saved"}
          /\ writer[s].name = writer[t].name) => ProcessOf[s] # ProcessOf[t]
  /\ recall.at = "hits" =>
       \A f \in recall.there \ clashed :
         LET ids == {recall.hits[n].id : n \in DOMAIN recall.hits} IN
         f \in ids \/ (Cardinality(ids) = HitLimit /\ \A g \in ids : Newer(g, f))
  /\ (recall.at = "paged" /\ recall.hit.id \notin clashed) => recall.got = {recall.hit.of}
================================================================================
