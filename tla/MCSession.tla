------------------------------ MODULE MCSession ------------------------------
(* A session whose child writes up to three times.  One line may carry no  *)
(* event, a report without tokens, or several events, a terminal one first *)
(* or last.                                                                *)
EXTENDS Session

MCLines  == {<<>>, <<"message">>, <<"zero_usage">>, <<"usage", "completed">>, <<"failed">>}
MCFinals == {<<>>, <<"message", "completed">>}
=============================================================================
