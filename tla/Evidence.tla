------------------------------- MODULE Evidence -------------------------------
(***************************************************************************)
(* What is taken as evidence of a worker's work: the verification commands *)
(* and their outcomes (orchestrator/verify.rs, safety/commands.rs), the    *)
(* captured changes (changes.rs) and the verdict of a reviewer (review.rs). *)
(***************************************************************************)
EXTENDS Naturals, Sequences

Markers == {"Cargo.toml", "package.json", "pyproject.toml", "pytest.ini", "Makefile"}

(* detect_commands: the first ecosystem whose marker file is there decides. *)
Ecosystem(files) ==
  LET order == <<"Cargo.toml", "package.json", "pyproject.toml", "pytest.ini", "Makefile">>
      here == SelectSeq(order, LAMBDA f : f \in files)
  IN  CASE here = <<>> -> "none"
        [] here # <<>> -> IF Head(here) = "pytest.ini" THEN "pyproject.toml" ELSE Head(here)

Detected(files) ==
  CASE Ecosystem(files) = "Cargo.toml" -> {"build", "test", "lint"}
    [] Ecosystem(files) = "none" -> {}
    [] OTHER -> {"test"}

(* resolve_commands_with_provenance: label by label, what the              *)
(* configuration gives wins over what is detected.                         *)
Resolved(given, files) ==
  LET From(label) == IF label \in given THEN "config" ELSE Ecosystem(files)
      Command(label) == IF label \in given \cup Detected(files)
                          THEN <<[label |-> label, command |-> From(label)]>> ELSE <<>>
  IN  Command("build") \o Command("test") \o Command("lint")

(* run_resolved_verify.  A command that exits with an error, is killed at  *)
(* its time-out or cannot be launched has failed; without a command        *)
(* nothing ran and nothing passed; a linter never blocks.                  *)
CommandOutcomes == {"ok", "failed"}
Blocking(label) == label # "lint"
VerifyRan(commands) == commands # <<>>
VerifyPassed(commands, outcome) ==
  /\ VerifyRan(commands)
  /\ \A n \in DOMAIN commands : Blocking(commands[n].label) => outcome[n] = "ok"

(* capture_changes: the whole diff of the tracked files and the text of    *)
(* the new ones.  A new file that cannot be read as text is left out.  The *)
(* caps (8 KiB of a new file, 40 KiB for all of them) are left out.        *)
Captured(edits) == {e \in edits : e.form # "binary"}

(* parse_verdict and has_critical.  An unknown severity is minor; a review *)
(* without findings that can be read has no verdict.                       *)
Reviews == {"unreadable", "none", "minor", "important", "critical"}
Readable(review) == review # "unreadable"
HasCritical(review) == review = "critical"
================================================================================
