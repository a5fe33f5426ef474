---------------------------- MODULE MCLifecycle ----------------------------
(* Lifecycle with one web handler and the TUI, or AgentInput with two      *)
(* agents, the second of codex, and two requests at a time: two parts that *)
(* share no state, one chosen at the start.                                *)
EXTENDS Lifecycle

CONSTANTS None, Agents, OfCodex, Senders, Texts, Skills, Surveys, Cards, MaxRequests, MaxIncidents

VARIABLES part, window, agent, card, buffer, sender, requests, incidents

MCWord(name) == [name |-> name, sigil |-> FALSE, plugin |-> FALSE]

MCTexts == {<<[MCWord("pr") EXCEPT !.sigil = TRUE], MCWord("now")>>}

(* A question with one answer and one with many; cards that pick, and that *)
(* write an answer of their own.                                           *)
MCSurveys == {<<[options |-> 2, multi |-> FALSE], [options |-> 2, multi |-> TRUE]>>}

MCChoice(multi, picks, other) == [options |-> 2, multi |-> multi, picks |-> picks, other |-> other]

MCCards ==
    {<<MCChoice(FALSE, <<1>>, <<>>), MCChoice(TRUE, <<1, 0>>, <<>>)>>,
     <<MCChoice(FALSE, <<>>, <<MCWord("else")>>), MCChoice(TRUE, <<0>>, <<>>)>>}

Input ==
    INSTANCE AgentInput WITH Codex <- OfCodex, MaxEvents <- MaxIncidents, events <- incidents

ASSUME InputAssumption == Input!Sendable

inputVars == <<window, agent, card, buffer, sender, requests, incidents>>

MCInit ==
    /\ Init /\ Input!Init
    /\ part \in {"lifecycle", "input"}
    /\ part = "lifecycle" => window = CHOOSE w \in Input!SetToSeqs(Agents) : TRUE

MCNext ==
    /\ UNCHANGED part
    /\ \/ part = "lifecycle" /\ Next /\ UNCHANGED inputVars
       \/ part = "input" /\ Input!Next /\ UNCHANGED vars

MCSpec ==
    /\ MCInit /\ [][MCNext]_<<part, vars, inputVars>>
    /\ part = "lifecycle" => Fairness

(* What was asked arrives at the agent, whole and unmixed (AgentInput).    *)
InputArrives == Input!InputArrives
=============================================================================
