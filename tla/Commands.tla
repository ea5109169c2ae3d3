------------------------------- MODULE Commands -------------------------------
(***************************************************************************)
(* The verification commands of a repository: how they are resolved and    *)
(* disclosed (core/src/safety/commands.rs, preflight.rs), and trusted      *)
(* (safety/trust.rs over the atomic writes of safety/fs.rs).               *)
(*                                                                         *)
(* Processes share the trust file.  Trusting is to load, modify and        *)
(* replace the file without a lock, while repositories change; a process   *)
(* may fail or end between any two steps.  The digest of a command list is *)
(* taken to be the list: SHA-256 has no collisions here.                   *)
(***************************************************************************)
EXTENDS Evidence

CONSTANTS
  Stores,   \* processes with an open trust store
  Repos,    \* canonical repositories
  Trees,    \* what may be at the root of one: sets of marker files
  Configs,  \* labels for which its configuration gives a command
  Kinds,    \* what kind of repository each is
  Attached, \* processes that work in the session of a host
  MaxEdits  \* bound on the edits of repositories

ASSUME ShapesAssumption ==
  /\ Trees \subseteq SUBSET Markers /\ Configs \subseteq SUBSET {"build", "test", "lint"}
  /\ Kinds \in [Repos -> {"non_git", "unborn", "committed"}] /\ Attached \subseteq Stores
  /\ MaxEdits \in Nat

VARIABLES
  markers,     \* the marker files of each repository
  configured,  \* its configured labels
  trustFile,   \* the keys in the trust file
  report,      \* the last preflight report of each process
  trusting,    \* what each process is doing with it
  leftovers,   \* processes whose temporary file is there
  trusted,     \* history: the keys somebody asked to trust
  edits        \* edits still to come

cmdVars == <<markers, configured, trustFile, report, trusting, leftovers, trusted, edits>>

-----------------------------------------------------------------------------
(* resolve_commands_with_provenance, on the repository as it is. *)
Resolve(r) == Resolved(configured[r], markers[r])

(* digest_commands and trust_key. *)
Key(r) == [repo |-> r, digest |-> Resolve(r)]

(* TrustStore::load and is_trusted: no file is no trust. *)
IsTrusted(r) == Key(r) \in trustFile
-----------------------------------------------------------------------------
Quiet == [at |-> "idle"]
Unseen == [mode |-> "none"]

CmdInit ==
  /\ markers \in [Repos -> Trees] /\ configured \in [Repos -> Configs]
  /\ trustFile = {} /\ trusted = {} /\ leftovers = {}
  /\ trusting = [p \in Stores |-> Quiet] /\ report = [p \in Stores |-> Unseen]
  /\ edits = MaxEdits

(* Somebody edits a repository: a person, or a worker at a task. *)
Edit(r) ==
  /\ \/ markers' \in {[markers EXCEPT ![r] = t] : t \in Trees} /\ UNCHANGED configured
     \/ configured' \in {[configured EXCEPT ![r] = c] : c \in Configs} /\ UNCHANGED markers
  /\ edits > 0 /\ edits' = edits - 1
  /\ UNCHANGED <<trustFile, report, trusting, leftovers, trusted>>

(* preflight::inspect: the mode it proposes, and the commands as they are. *)
Mode(kind, attached) ==
  IF attached THEN "in_place"
  ELSE IF kind = "committed" THEN "safe_worktree" ELSE "read_only"

Inspect(p, r) ==
  /\ trusting[p] = Quiet
  /\ report' = [report EXCEPT ![p] = [key |-> Key(r), mode |-> Mode(Kinds[r], p \in Attached)]]
  /\ UNCHANGED <<markers, configured, trustFile, trusting, leftovers, trusted, edits>>

(* Mutant of Replaced: the keys of the repository are kept. *)
ReplacedNothing(keys, key) == keys \cup {key}

(* TrustStore::trust, of the commands of a report: one key for each        *)
(* repository.                                                             *)
Replaced(keys, key) == {k \in keys : k.repo # key.repo} \cup {key}

LoadTrust(p) ==
  /\ trusting[p] = Quiet /\ report[p] # Unseen
  /\ LET key == report[p].key IN
       /\ trusting' = [trusting EXCEPT ![p] = [at |-> "loaded", keys |-> Replaced(trustFile, key)]]
       /\ trusted' = trusted \cup {key}
  /\ UNCHANGED <<markers, configured, trustFile, report, leftovers, edits>>

(* write_owner_only_json_at: inspect_destination has nothing to refuse, a  *)
(* temporary file is written and synced beside the file,                   *)
WriteTemp(p) ==
  /\ trusting[p].at = "loaded"
  /\ trusting' = [trusting EXCEPT ![p].at = "written"]
  /\ leftovers' = leftovers \cup {p}
  /\ UNCHANGED <<markers, configured, trustFile, report, trusted, edits>>

(* and renamed over it.  The sync of the directory that follows may fail:  *)
(* trust returns an error although the file is replaced.                   *)
ReplaceFile(p) ==
  /\ trusting[p].at = "written"
  /\ trustFile' = trusting[p].keys
  /\ leftovers' = leftovers \ {p}
  /\ trusting' = [trusting EXCEPT ![p] = Quiet]
  /\ UNCHANGED <<markers, configured, report, trusted, edits>>

(* A step fails: TemporaryEntry::drop unlinks the temporary file.  A       *)
(* process that ends there leaves it.                                      *)
TrustFails(p) ==
  /\ trusting[p] # Quiet
  /\ trusting' = [trusting EXCEPT ![p] = Quiet]
  /\ leftovers' \in {leftovers, leftovers \ {p}}
  /\ UNCHANGED <<markers, configured, trustFile, report, trusted, edits>>
-----------------------------------------------------------------------------
CmdNext ==
  \/ \E r \in Repos : Edit(r) \/ \E p \in Stores : Inspect(p, r)
  \/ \E p \in Stores : LoadTrust(p) \/ WriteTemp(p) \/ ReplaceFile(p) \/ TrustFails(p)

CmdSpec == CmdInit /\ [][CmdNext]_cmdVars
-----------------------------------------------------------------------------
(* Trust fails closed: whatever processes race, fail or end, a repository  *)
(* has one trusted command list at most, and commands are trusted only if  *)
(* somebody trusted exactly these, from that source, for that repository:  *)
(* an edit of the repository always makes them untrusted until then.       *)
TrustFailsClosed ==
  /\ \A k, l \in trustFile : k.repo = l.repo => k = l
  /\ \A r \in Repos : IsTrusted(r) => Key(r) \in trusted
===============================================================================
