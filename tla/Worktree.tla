------------------------------- MODULE Worktree -------------------------------
(***************************************************************************)
(* Detached worktrees: core/src/safety/git.rs on Unix.                     *)
(*                                                                         *)
(* Processes that share a state root create a worktree for a run, remove   *)
(* it, and after a restart reopen it from its summary.  A worktree is      *)
(* three durable things: a directory under the state root, a registration  *)
(* in the source repository and a marker file beside the directory.  Every *)
(* system call or Git command is a step of its own; people delete, move,   *)
(* lock and unlock worktrees between the steps, any step may fail, and a   *)
(* process may end after any of them.                                      *)
(*                                                                         *)
(* The state root and its worktrees directory, once opened, stay where     *)
(* they are: validate_fd_path refuses to go on when they do not.           *)
(***************************************************************************)
EXTENDS Naturals, FiniteSets

CONSTANTS
  Procs,    \* processes
  Names,    \* random ids: each is drawn once
  Entries,  \* the committed entries of a worktree
  Faults    \* bound on the failures and on what people do

ASSUME FaultsAssumption == Faults \in Nat

Roots == {"absent", "private", "shared_empty", "shared_used", "others", "in_source"}
Sources == {"not_git", "no_commit", "committed", "odd_entry"}

VARIABLES
  source,    \* the repository a worktree is made of
  root,      \* the state root
  dir,       \* where the directory made for an id is
  files,     \* its entries
  stranger,  \* another directory that took its name
  reg,       \* Git's registration of its path
  marker,    \* the ids with a marker
  handed,    \* history: the ids whose creation returned
  step,      \* what a process is doing
  holds,     \* with which id
  purpose,   \* what a cleanup is part of
  faults     \* faults still allowed

repoVars == <<source, root>>
dirVars == <<dir, files, stranger>>
procVars == <<step, holds, purpose>>
wtVars == <<repoVars, dirVars, reg, marker, handed, procVars, faults>>

Creating == {"reserved", "adding", "materialising", "materialised", "marking"}
Cleaning == {"asked", "cleanup", "missing", "missing_pruned", "quarantining", "pruning",
             "pruned", "emptying", "unmarking"}

WtTypeOK ==
  /\ source \in Sources /\ root \in Roots
  /\ dir \in [Names -> {"none", "path", "quarantine", "away", "gone"}]
  /\ files \in [Names -> SUBSET Entries]
  /\ stranger \in [Names -> {"none", "path", "checkout", "quarantine"}]
  /\ reg \in [Names -> {"none", "present", "locked"}]
  /\ marker \subseteq Names /\ handed \subseteq Names
  /\ step \in [Procs -> {"idle", "holding", "removed"} \cup Creating \cup Cleaning]
  /\ holds \in [Procs -> Names]
  /\ purpose \in [Procs -> {"remove", "undo", "drop"}]
  /\ faults \in 0 .. Faults

WtInit ==
  /\ source \in Sources /\ root \in Roots
  /\ dir = [i \in Names |-> "none"] /\ files = [i \in Names |-> {}]
  /\ stranger = [i \in Names |-> "none"] /\ reg = [i \in Names |-> "none"]
  /\ marker = {} /\ handed = {}
  /\ step = [p \in Procs |-> "idle"] /\ holds \in [Procs -> Names]
  /\ purpose = [p \in Procs |-> "remove"]
  /\ faults = Faults

IsAt(p, where) == step[p] = where
Goto(p, there) == step' = [step EXCEPT ![p] = there] /\ UNCHANGED <<holds, purpose>>
Walk(p, from, to) == IsAt(p, from) /\ Goto(p, to)
CleanUp(p, reason) ==
  /\ step' = [step EXCEPT ![p] = "cleanup"]
  /\ purpose' = [purpose EXCEPT ![p] = reason]
  /\ UNCHANGED holds
OneFault == faults > 0 /\ faults' = faults - 1

(* A cleanup that returns an error: remove_worktree leaves the handle as   *)
(* it was; a reservation is dropped, and its drop cleans up once more.     *)
GiveUp(p) ==
  \/ purpose[p] = "remove" /\ Goto(p, "holding")
  \/ purpose[p] = "undo" /\ CleanUp(p, "drop")
  \/ purpose[p] = "drop" /\ Goto(p, "idle")
-----------------------------------------------------------------------------
(* require_repository. *)
HasCommit == source \in {"committed", "odd_entry"}

(* prospective_canonical_path, open_state_path and                         *)
(* secure_dedicated_state_root: a root that is missing is made, an empty   *)
(* one of ours is closed to others, and any other open one is refused, as  *)
(* is one inside the source.                                               *)
Secured(r) == IF r \in {"absent", "shared_empty"} THEN "private" ELSE r

(* prepare_unix_capability: an id nobody uses. *)
Reserve(p) ==
  /\ HasCommit
  /\ Secured(root) = "private"
  /\ root' = "private"
  /\ \E i \in Names :
       /\ dir[i] = "none"
       /\ dir' = [dir EXCEPT ![i] = "path"]
       /\ holds' = [holds EXCEPT ![p] = i]
  /\ IsAt(p, "idle") /\ step' = [step EXCEPT ![p] = "reserved"]
  /\ UNCHANGED <<purpose, source, files, stranger, reg, marker, handed, faults>>

(* validate_live_paths, before Git and after it.  A failure drops the      *)
(* reservation.                                                            *)
InPlace(i) == dir[i] = "path"

ValidatePaths(p) ==
  LET i == holds[p] IN
  /\ \/ InPlace(i) /\ Walk(p, "reserved", "adding")
     \/ InPlace(i) /\ Walk(p, "materialised", "marking")
     \/ ~InPlace(i) /\ step[p] \in {"reserved", "materialised"} /\ CleanUp(p, "drop")
  /\ UNCHANGED <<repoVars, dirVars, reg, marker, handed, faults>>

(* git worktree add: it takes an empty directory and makes a missing one.  *)
AddWorktree(p) ==
  LET i == holds[p] IN
  /\ Walk(p, "adding", "materialising")
  /\ stranger[i] # "path"
  /\ reg' = [reg EXCEPT ![i] = "present"]
  /\ stranger' = IF InPlace(i) THEN stranger ELSE [stranger EXCEPT ![i] = "checkout"]
  /\ UNCHANGED <<repoVars, dir, files, marker, handed, faults>>

(* It fails, or is killed and leaves its registration locked. *)
AddFails(p) ==
  LET i == holds[p] IN
  /\ IsAt(p, "adding") /\ CleanUp(p, "undo")
  /\ \/ stranger[i] = "path" /\ UNCHANGED <<reg, faults>>
     \/ OneFault /\ \E r \in {"none", "locked"} : reg' = [reg EXCEPT ![i] = r]
  /\ UNCHANGED <<repoVars, dirVars, marker, handed>>

(* materialize_tree_entry: files, links and submodule directories, under   *)
(* paths that stay inside; any other entry is an error.                    *)
Placeable == source # "odd_entry"

(* materialize_without_repository_commands: through the descriptor of the  *)
(* directory, which may have lost its name, but not without its Git file.  *)
Materialise(p) ==
  LET i == holds[p] IN
  /\ InPlace(i) /\ Placeable
  /\ Walk(p, "materialising", "materialised")
  /\ files' = [files EXCEPT ![i] = Entries]
  /\ UNCHANGED <<repoVars, dir, stranger, reg, marker, handed, faults>>

MaterialiseFails(p) ==
  LET i == holds[p] IN
  /\ IsAt(p, "materialising") /\ CleanUp(p, "undo")
  /\ \/ ~InPlace(i) /\ UNCHANGED <<files, faults>>
     \/ InPlace(i) /\ (IF Placeable THEN OneFault ELSE UNCHANGED faults)
          /\ \E some \in SUBSET Entries : files' = [files EXCEPT ![i] = some]
  /\ UNCHANGED <<repoVars, dir, stranger, reg, marker, handed>>

(* write_marker, and the handle is returned. *)
WriteMarker(p) ==
  /\ Walk(p, "marking", "holding")
  /\ marker' = marker \cup {holds[p]} /\ handed' = handed \cup {holds[p]}
  /\ UNCHANGED <<repoVars, dirVars, reg, faults>>

(* A failure to sync the directory comes after the marker is in place.     *)
WriteMarkerFails(p) ==
  /\ IsAt(p, "marking") /\ CleanUp(p, "undo")
  /\ OneFault
  /\ marker' \in {marker, marker \cup {holds[p]}}
  /\ UNCHANGED <<repoVars, dirVars, reg, handed>>

CreateWorktree(p) ==
  \/ Reserve(p) \/ ValidatePaths(p) \/ AddWorktree(p) \/ AddFails(p) \/ Materialise(p)
  \/ MaterialiseFails(p) \/ WriteMarker(p) \/ WriteMarkerFails(p)
-----------------------------------------------------------------------------
(* remove_worktree: validate_public_handle, the removed flag and           *)
(* validate_marker.                                                        *)
AskRemoval(p) ==
  /\ IsAt(p, "holding") /\ holds[p] \in marker
  /\ step' = [step EXCEPT ![p] = "asked"] /\ purpose' = [purpose EXCEPT ![p] = "remove"]
  /\ UNCHANGED <<holds, repoVars, dirVars, reg, marker, handed, faults>>

Taken(i) == stranger[i] \in {"path", "checkout"}

(* Its look at the registration: a locked one is refused; without one, a   *)
(* name in use is refused and a free one leaves only the marker to remove. *)
LookFirst(p) ==
  LET i == holds[p] IN
  /\ IsAt(p, "asked")
  /\ \/ reg[i] = "locked" /\ Goto(p, "holding")
     \/ reg[i] = "present" /\ CleanUp(p, "remove")
     \/ reg[i] = "none" /\ Goto(p, IF InPlace(i) \/ Taken(i) THEN "holding" ELSE "unmarking")
  /\ UNCHANGED <<repoVars, dirVars, reg, marker, handed, faults>>

(* remove_marker_at, and the handle is marked removed. *)
Unmark(p) ==
  /\ Walk(p, "unmarking", "removed")
  /\ marker' = marker \ {holds[p]}
  /\ UNCHANGED <<repoVars, dirVars, reg, handed, faults>>

RemoveWorktree(p) == AskRemoval(p) \/ LookFirst(p) \/ Unmark(p)
-----------------------------------------------------------------------------
(* Mutant of LookAgain: a directory that is gone needs no prune. *)
LookAgainUnpruned(p) ==
  LET i == holds[p] IN
  /\ IsAt(p, "cleanup")
  /\ IF reg[i] = "locked" \/ Taken(i) THEN GiveUp(p)
     ELSE IF InPlace(i) THEN Goto(p, "quarantining")
     ELSE IF purpose[p] = "remove" THEN Goto(p, "unmarking") ELSE Goto(p, "idle")
  /\ UNCHANGED <<repoVars, dirVars, reg, marker, handed, faults>>

(* secure_cleanup_inner.  It looks at the registration and at the name:    *)
LookAgain(p) ==
  LET i == holds[p] IN
  /\ IsAt(p, "cleanup")
  /\ IF reg[i] = "locked" \/ Taken(i) THEN GiveUp(p)
     ELSE Goto(p, IF InPlace(i) THEN "quarantining" ELSE "missing")
  /\ UNCHANGED <<repoVars, dirVars, reg, marker, handed, faults>>

(* It renames what has the name to a new one, and goes on when that was    *)
(* the directory it holds open.                                            *)
Quarantine(p) ==
  LET i == holds[p] IN
  /\ IsAt(p, "quarantining")
  /\ dir' = IF InPlace(i) THEN [dir EXCEPT ![i] = "quarantine"] ELSE dir
  /\ stranger' = IF Taken(i) THEN [stranger EXCEPT ![i] = "quarantine"] ELSE stranger
  /\ IF InPlace(i) THEN Goto(p, "pruning") ELSE GiveUp(p)
  /\ UNCHANGED <<repoVars, files, reg, marker, handed, faults>>

(* git worktree prune drops every registration that has lost its directory *)
(* and is not locked.                                                      *)
Prunable(i) == reg[i] = "present" /\ ~InPlace(i) /\ stranger[i] # "checkout"

Prune(p) ==
  /\ \/ Walk(p, "pruning", "pruned")
     \/ Walk(p, "missing", "missing_pruned")
  /\ reg' = [i \in Names |-> IF Prunable(i) THEN "none" ELSE reg[i]]
  /\ UNCHANGED <<repoVars, dirVars, marker, handed, faults>>

(* The marker of a reservation was never written. *)
Conclude(p) == Goto(p, IF purpose[p] = "remove" THEN "unmarking" ELSE "idle")

(* Mutant of AfterPrune: the prune is taken at its word. *)
AfterPruneTrusting(p) ==
  /\ \/ Walk(p, "pruned", "emptying")
     \/ IsAt(p, "missing_pruned") /\ Conclude(p)
  /\ UNCHANGED <<repoVars, dirVars, reg, marker, handed, faults>>

(* The registration is looked at again: it stays when it is locked by now  *)
(* or the directory is back.                                               *)
AfterPrune(p) ==
  LET gone == reg[holds[p]] = "none" IN
  /\ \/ gone /\ Walk(p, "pruned", "emptying")
     \/ gone /\ IsAt(p, "missing_pruned") /\ Conclude(p)
     \/ ~gone /\ step[p] \in {"pruned", "missing_pruned"} /\ GiveUp(p)
  /\ UNCHANGED <<repoVars, dirVars, reg, marker, handed, faults>>

(* remove_directory_contents, an entry at a time, through the descriptor.  *)
EmptyDir(p) ==
  LET i == holds[p] IN
  /\ IsAt(p, "emptying")
  /\ \E f \in files[i] : files' = [files EXCEPT ![i] = @ \ {f}]
  /\ UNCHANGED <<repoVars, dir, stranger, reg, marker, handed, procVars, faults>>

(* The empty directory goes, when it still is where it was put. *)
RemoveDir(p) ==
  LET i == holds[p] IN
  /\ IsAt(p, "emptying") /\ files[i] = {}
  /\ IF dir[i] = "quarantine"
     THEN dir' = [dir EXCEPT ![i] = "gone"] /\ Conclude(p)
     ELSE UNCHANGED dir /\ GiveUp(p)
  /\ UNCHANGED <<repoVars, files, stranger, reg, marker, handed, faults>>

(* Any call may fail. *)
CleanupFails(p) ==
  /\ step[p] \in Cleaning
  /\ OneFault
  /\ GiveUp(p)
  /\ UNCHANGED <<repoVars, dirVars, reg, marker, handed>>

CleanupStep(p) ==
  \/ LookAgain(p) \/ Quarantine(p) \/ Prune(p) \/ AfterPrune(p) \/ EmptyDir(p) \/ RemoveDir(p)
  \/ CleanupFails(p)
-----------------------------------------------------------------------------
(* reopen_prepared_worktree, with the summary of a finished creation: the  *)
(* directory is there and ours alone, marked and registered.  A directory  *)
(* people put in its place is open to others and is refused.               *)
Reopen(p) ==
  /\ root = "private"
  /\ \E i \in handed :
       /\ InPlace(i) /\ i \in marker /\ reg[i] # "none"
       /\ holds' = [holds EXCEPT ![p] = i]
  /\ IsAt(p, "idle") /\ step' = [step EXCEPT ![p] = "holding"]
  /\ UNCHANGED <<purpose, repoVars, dirVars, reg, marker, handed, faults>>

(* The process ends: handles and reservations are forgotten. *)
ProcessEnds(p) ==
  /\ ~IsAt(p, "idle") /\ Goto(p, "idle")
  /\ OneFault
  /\ UNCHANGED <<repoVars, dirVars, reg, marker, handed>>

(* What people do: remove the worktree, with its registration or without,  *)
(* move it away and put something else there, bring it back, lock it.      *)
Delete(i) ==
  /\ InPlace(i)
  /\ dir' = [dir EXCEPT ![i] = "gone"] /\ files' = [files EXCEPT ![i] = {}]
  /\ \/ UNCHANGED reg
     \/ reg[i] = "present" /\ reg' = [reg EXCEPT ![i] = "none"]
  /\ UNCHANGED <<stranger, marker>>

Replace(i) ==
  /\ InPlace(i)
  /\ dir' = [dir EXCEPT ![i] = "away"] /\ stranger' = [stranger EXCEPT ![i] = "path"]
  /\ UNCHANGED <<files, reg, marker>>

BringBack(i) ==
  /\ dir[i] \in {"away", "quarantine"}
  /\ dir' = [dir EXCEPT ![i] = "path"] /\ stranger' = [stranger EXCEPT ![i] = "none"]
  /\ UNCHANGED <<files, reg, marker>>

LockOrUnlock(i) ==
  /\ reg[i] # "none"
  /\ \E r \in {"present", "locked"} \ {reg[i]} : reg' = [reg EXCEPT ![i] = r]
  /\ UNCHANGED <<dirVars, marker>>

People ==
  /\ \E i \in Names : Delete(i) \/ Replace(i) \/ BringBack(i) \/ LockOrUnlock(i)
  /\ OneFault
  /\ UNCHANGED <<repoVars, handed, procVars>>

WtNext ==
  \/ \E p \in Procs : CreateWorktree(p) \/ RemoveWorktree(p) \/ CleanupStep(p) \/ Reopen(p) \/ ProcessEnds(p)
  \/ People

WtSpec == WtInit /\ [][WtNext]_wtVars
-----------------------------------------------------------------------------
(* The record of a worktree outlives it: as long as Git knows a worktree   *)
(* that was handed out its marker is there, whatever people did to it and  *)
(* wherever a removal stopped, so that it is never registered for ever.    *)
RecordOutlivesWorktree == \A i \in handed : reg[i] # "none" => i \in marker

(* What Git still knows is whole: a cleanup that people race with a lock,  *)
(* that fails half way or is cut short by a crash never leaves a           *)
(* registered worktree with a part of its files.                           *)
RegisteredIsWhole ==
  \A i \in handed : reg[i] # "none" /\ dir[i] # "gone" => files[i] = Entries
===============================================================================
