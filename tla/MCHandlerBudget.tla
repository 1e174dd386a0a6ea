-------------------------- MODULE MCHandlerBudget --------------------------
(* The calls of the three subjects: check_alias, set_target, get_forward.     *)
EXTENDS HandlerBudget, TLC

MCPlan == {<<"http">>, <<"auth", "http", "http">>, <<"auth", "http">>}
Messages == Permutations(Message)
=============================================================================
