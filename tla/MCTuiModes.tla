----------------------------- MODULE MCTuiModes -----------------------------
(* TuiModes with two agents and two harnesses that share no model. *)
EXTENDS TuiModes

MCModels == [h \in Harnesses |-> IF h = "claude" THEN {"opus"} ELSE {"gpt"}]
=============================================================================
