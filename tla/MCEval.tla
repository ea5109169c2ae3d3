-------------------------------- MODULE MCEval --------------------------------
(* One task with a command of its own and one without, alone and by the    *)
(* pipeline without grounding.                                             *)
EXTENDS Eval

MCTasks == <<"fix-sum", "parse-kv">>
MCVerifyOf == [t \in {"fix-sum", "parse-kv"} |-> IF t = "fix-sum" THEN {"test"} ELSE {}]
MCApproaches == <<"solo", "conduct-no-grounding">>
================================================================================
