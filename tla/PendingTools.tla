---------------------------- MODULE PendingTools ----------------------------
(***************************************************************************)
(* What an agent waits for, as its transcript tells: the plan or question  *)
(* that overrides the state its hooks reported, and the question the web   *)
(* shows a card for (internal/conversation and internal/codex/conversation, *)
(* the scans for blocking tools).  The two are separate scans, of files    *)
(* that subagents write to as well.                                        *)
(*                                                                         *)
(* A message or a call is known by the number of its line.                 *)
(***************************************************************************)
EXTENDS Integers, SequencesExt

CONSTANTS
    None,
    MaxLog,   \* bound on the lines of the transcript
    Window    \* lines in the last 32 KB of it

(* Lines are counted, and no line is None. *)
LinesCount == Window \in Nat /\ None \notin Nat

VARIABLES
    harness,
    log,      \* the transcript
    asked,    \* history: the questions that wait for an answer
    answered, \* history: the last one had its answer, and no word since
    misled    \* history: the prompt of a subagent came while one waited

vars == <<harness, log, asked, answered, misled>>

Init ==
    /\ harness \in {"claude", "codex"}
    /\ log = <<>> /\ asked = {} /\ answered = FALSE /\ misled = FALSE

(* The tool calls of a claude message, which asks no more than once. *)
Messages == {<<>>, <<"other">>, <<"plan">>, <<"ask">>, <<"plan", "ask">>}

Assistant(tools) == [by |-> "assistant", tools |-> tools]

User(human, results) == [by |-> "user", human |-> human, results |-> results]

Foreign == 0   \* the id of a subagent's tool call

-----------------------------------------------------------------------------
(* The scans.                                                              *)

Lines == 1..Len(log)

Tail32 == {i \in Lines : i > Len(log) - Window}

IsCall(i, tools) == log[i].by = "assistant" /\ \E t \in ToSet(log[i].tools) : t \in tools

LastOf(S) == IF S = {} THEN None ELSE Max(S)

isHumanUserEntry(i) == log[i].by = "user" /\ log[i].human

(* Mistake: the result of any tool is taken for the answer. *)
anyToolResult(i, id) == log[i].by = "user" /\ log[i].results # {}

hasToolResultFor(i, id) == log[i].by = "user" /\ id \in log[i].results

(* Only questions have an id in the eyes of the scan. *)
toolUseID(i) == IF IsCall(i, {"ask"}) THEN i ELSE None

Replied(i, j) == isHumanUserEntry(j) \/ hasToolResultFor(j, toolUseID(i))

(* Among the given lines, the last call of a tool, if nobody replied. *)
Open(lines, tool) ==
    LET i == LastOf({j \in lines : IsCall(j, {tool})})
    IN  IF i # None /\ \E j \in lines : j > i /\ Replied(i, j) THEN None ELSE i

readPendingQuestionClaude == Open(Lines, "ask")

hasPendingToolCall(tool) == Open(Tail32, tool) # None

(* The last tool of a message that blocks. *)
LastBlocking(tools) == tools[Max({n \in DOMAIN tools : tools[n] # "other"})]

(* The last tool that blocks, unless a human wrote since; results, which   *)
(* the tools get at once, do not count.                                    *)
LastPendingBlockingTool ==
    LET i == LastOf({j \in Lines : IsCall(j, {"plan", "ask"})})
    IN  IF i = None \/ \E j \in Lines : j > i /\ isHumanUserEntry(j) THEN ""
        ELSE IF LastBlocking(log[i].tools) = "plan" THEN "plan" ELSE "question"

HasPendingToolUse ==
    LET i == LastOf({j \in Tail32 : log[j].by = "assistant"})
    IN  i # None /\ log[i].tools # <<>> /\ \A j \in Tail32 : j > i /\ log[j].by = "user" => log[j].results = {}

Codex(kind, id) == [by |-> kind, id |-> id]

Kind(kinds) == {i \in Lines : log[i].by \in kinds}

Output(id) == \E j \in Lines : log[j] = Codex("output", id)

(* The last plan or question; a question with an output is no more, nor is *)
(* anything once the user wrote.                                           *)
LastPendingBlockingToolCodex ==
    LET i == LastOf(Kind({"plan", "ask"}))
    IN  IF i = None \/ Output(i) \/ \E j \in Kind({"user"}) : j > i THEN ""
        ELSE IF log[i].by = "plan" THEN "plan" ELSE "question"

(* The last question without an output, whatever the user wrote since. *)
ReadPendingQuestionCodex == LastOf({i \in Kind({"ask"}) : ~Output(i)})

ReadPlanContent == LastOf(Kind({"plan"}))

(* What transcriptOverrideFor and ReadPendingQuestion route to. *)
Blocking == IF harness = "codex" THEN LastPendingBlockingToolCodex ELSE LastPendingBlockingTool

Card == IF harness = "codex" THEN ReadPendingQuestionCodex ELSE readPendingQuestionClaude

-----------------------------------------------------------------------------
(* Who writes.  Bounded: nothing is written once a scan was misled, from   *)
(* when on the property says nothing.                                      *)

Write(line) == Len(log) < MaxLog /\ ~misled /\ log' = Append(log, line) /\ UNCHANGED harness

Next1 == Len(log) + 1

(* A new question of claude takes the place of the one before. *)
Say(tools) ==
    /\ harness = "claude" /\ Write(Assistant(tools))
    /\ IF "ask" \in ToSet(tools) THEN asked' = {Next1} /\ answered' = FALSE ELSE UNCHANGED <<asked, answered>>
    /\ UNCHANGED misled

(* The results of one user entry, which may carry words as well. *)
Reply(human, results) ==
    /\ harness = "claude" /\ Write(User(human, results))
    /\ human \/ results # {}
    /\ asked' = IF human THEN {} ELSE asked \ results
    /\ answered' = (~human /\ (answered \/ asked \cap results # {}))
    /\ UNCHANGED misled

(* A prompt for a subagent reads like a word of the human. *)
SubagentPrompt ==
    /\ harness = "claude" /\ asked # {} /\ Write(User(TRUE, {}))
    /\ misled' = TRUE
    /\ UNCHANGED <<asked, answered>>

CodexPlan == harness = "codex" /\ Write(Codex("plan", Next1)) /\ UNCHANGED <<asked, answered, misled>>

CodexAsk ==
    /\ harness = "codex" /\ Write(Codex("ask", Next1))
    /\ asked' = asked \cup {Next1} /\ UNCHANGED <<answered, misled>>

CodexOutput ==
    /\ harness = "codex"
    /\ \E id \in asked \cup {Foreign} : Write(Codex("output", id)) /\ asked' = asked \ {id}
    /\ UNCHANGED <<answered, misled>>

CodexUser == harness = "codex" /\ Write(Codex("user", Next1)) /\ UNCHANGED <<asked, answered, misled>>

Next ==
    \/ \E tools \in Messages : Say(tools)
    \/ \E human \in BOOLEAN, results \in {{}, {Foreign}} \cup {{id} : id \in asked} : Reply(human, results)
    \/ SubagentPrompt
    \/ CodexPlan \/ CodexAsk \/ CodexOutput \/ CodexUser

-----------------------------------------------------------------------------
(* The card is that of the last question that waits, however many calls and *)
(* results came after it.  An agent shown as asking has its card, unless it *)
(* is a claude agent whose question has its answer and nobody wrote a word  *)
(* since: that override the scan for blocking tools does not end.  Excepted *)
(* is the prompt of a subagent while a question waits: the scans take it    *)
(* for a word of the human (isHumanUserEntry) and drop the question,        *)
(* although readPendingQuestionClaude expects such lines and calls for no   *)
(* more than a scan of the whole file.                                      *)
StateAndCardAgree ==
    ~misled =>
        /\ Card = LastOf(asked)
        /\ Blocking = "question" => Card # None \/ answered
        /\ harness = "claude" => /\ Card # None => Blocking # ""
                                 /\ hasPendingToolCall("ask") <=> Card # None /\ Card \in Tail32
=============================================================================
