---------------------------- MODULE AgentHooks ----------------------------
(***************************************************************************)
(* The hooks that turn the events of one Claude Code session into its      *)
(* agent record.  The session (external) emits events in the order of a    *)
(* turn; each event starts a process of its own, marked async in           *)
(* hooks.json, that                                                        *)
(*    enter   stamps its report_seq with the wall clock,                   *)
(*    read    reads the record without the lock and decides on an update,  *)
(*    write   asks writeState to merge the update.                         *)
(* Between these steps any other hook may run.  writeState is one step     *)
(* here: AgentStore shows that it is one.                                  *)
(*                                                                         *)
(* Times the model relies on, all of the session and none of the hooks'    *)
(* own: a round trip to the language model outlasts the start of a         *)
(* process (MayTakeTurn), and a person answers no sooner than the hooks    *)
(* of the turn are done (UserMayAct).  How long a hook takes between its   *)
(* entry and its write is left open.                                       *)
(***************************************************************************)
EXTENDS AgentRecord

CONSTANTS
    Slots,         \* hook processes alive at a time
    MaxEvents,     \* bound on the events of the session
    MaxSubagents,  \* bound on the subagents alive at a time
    Detected       \* what detectState may make of a finished turn

ASSUME BoundAssumption ==
    /\ MaxEvents \in Nat
    /\ MaxSubagents \in Nat
    /\ Detected \subseteq {"question", "idle_prompt", "done"}

VARIABLES
    file,     \* the record on disk, or NoRecord
    clock,    \* the wall clock, in the ticks report_seq is made of
    session,  \* the Claude Code session: [phase, tool, subagents]
    hooks,    \* the hook process in each slot, or Free
    events,   \* events so far
    stateBy,  \* history: the event of the main agent whose hook decided
              \* file.state last, 0 if the hook of a subagent's event did
    seen      \* history: the kinds of event so far

vars == <<file, clock, session, hooks, events, stateBy, seen>>

(* The tools that matter to some hook; "Plan" is the Agent tool with the   *)
(* subagent type Plan.                                                     *)
Tools == {"Bash", "AskUserQuestion", "ExitPlanMode", "Agent", "Plan"}

Delegating == {"Agent", "Plan"}

toolName(tool) == IF tool = "Plan" THEN "Agent" ELSE tool

(* The tools whose result is an answer of the user. *)
UserTools == {"AskUserQuestion", "ExitPlanMode"}

Free == [pc |-> "free"]

(* The request of a hook that has nothing to write. *)
NoChange == [update |-> NoRecord, guard |-> {"unchanged"}, preserve |-> FALSE]

(* A process that has just been started for event n. *)
Hook(script, name, tool, detected) ==
    [pc |-> "start", script |-> script, name |-> name, tool |-> tool,
     detected |-> detected, n |-> events + 1, seq |-> NoSeq, write |-> NoChange]

InFlight == {s \in Slots : hooks[s] # Free}

Quiet == InFlight = {}

SubagentEvents == {"SubagentStart", "SubagentStop"}

(* The hooks of the main agent's turn. *)
TurnHooks == {s \in InFlight : hooks[s].name \notin SubagentEvents}

-----------------------------------------------------------------------------
(* What the hooks write.  The fields left out of the record (effort,       *)
(* permission_mode, worktree pin, files_changed, ...) matter here only as  *)
(* further reasons to write; `other` says that one of them differs.        *)

(* An update that names only some of the fields given. *)
Only(values, fields) == [f \in fields |-> values[f]]

Unguarded(update) == [update |-> update, guard |-> {}, preserve |-> FALSE]

(* resolveState of agent-state-fast.js *)
resolveState(name, tool) ==
    IF name # "PostToolUse" /\ tool = "ExitPlanMode" THEN "plan"
    ELSE IF name # "PostToolUse" /\ tool = "AskUserQuestion" THEN "question"
    ELSE IF name = "PermissionRequest" THEN "permission"
    ELSE IF name = "PreToolUse" /\ tool = "Plan" THEN "plan"
    ELSE "running"

(* Mistake: the write of a PostToolUse is not guarded. *)
noFastGuard(post) == {}

(* The guardStates of fastUpdate. *)
fastGuard(post) == IF post THEN StopStates ELSE {}

(* buildUpdate of agent-state-fast.js, and the writeState options of       *)
(* fastUpdate.                                                             *)
buildUpdate(hook, existing, other) ==
    LET post == hook.name = "PostToolUse"
        asks == hook.tool = "AskUserQuestion"
        consumeBlocked == existing.hook_blocked /\ hook.name = "PreToolUse"
        resolved == resolveState(hook.name, hook.tool)
        state == IF consumeBlocked /\ resolved = "running" THEN "permission" ELSE resolved
        currentTool == IF post THEN "" ELSE toolName(hook.tool)
        stampPendingQ == ~post /\ asks
        clearPendingQ == /\ ~stampPendingQ
                         /\ existing.pending_question
                         /\ IF asks THEN post ELSE hook.name = "PreToolUse"
        question == IF stampPendingQ \/ clearPendingQ THEN {"pending_question"} ELSE {}
        blocked == IF consumeBlocked THEN {"hook_blocked"} ELSE {}
        values == [state |-> state, current_tool |-> currentTool,
                   pending_question |-> stampPendingQ, hook_blocked |-> FALSE]
        changed == \/ existing.state # state
                   \/ existing.current_tool # currentTool
                   \/ consumeBlocked \/ stampPendingQ \/ clearPendingQ \/ other
    IN  IF post /\ existing.state \in StopStates
        THEN IF clearPendingQ \/ other THEN Unguarded(Only(values, question)) ELSE NoChange
        ELSE IF ~changed THEN NoChange
        ELSE [update |-> Only(values, {"state", "current_tool"} \cup question \cup blocked),
              guard |-> fastGuard(post),
              preserve |-> FALSE]

(* resolveStopState of agent-state-reporter.js *)
resolveStopState(hook, existing, hasPendingTool) ==
    IF hook.name = "SubagentStop" \/ hasPendingTool
    THEN IF existing.state = "" THEN "running" ELSE existing.state
    ELSE hook.detected

(* Mistake: a SubagentStop that finds no subagent counts one down. *)
uncheckedCount(name, count) ==
    CASE name = "SubagentStart" -> count + 1
      [] name = "SubagentStop"  -> count - 1
      [] OTHER -> count

subagentCount(name, count) ==
    CASE name = "SubagentStart" -> count + 1
      [] name = "SubagentStop" /\ count > 0 -> count - 1
      [] OTHER -> count

(* Mistake: only the SubagentStop is guarded. *)
guardSubagentStop(name, hasPendingTool) == name = "SubagentStop"

shouldGuardWrite(name, hasPendingTool) ==
    name = "SubagentStop" \/ (name = "Stop" /\ hasPendingTool)

(* Replies differ from event to event, so a preview is named by its event; *)
(* a start has none.                                                       *)
buildReportEntry(hook, existing, state) == [
    state          |-> state,
    subagent_count |-> subagentCount(hook.name, existing.subagent_count),
    preview        |-> IF hook.name \in {"SessionStart", "SubagentStart"} THEN 0 ELSE hook.n]

(* report of agent-state-reporter.js.  The transcript has a tool_use       *)
(* without a result while the session runs a tool.                         *)
report(hook, existing, hasPendingTool, other) ==
    LET starts == hook.name \in {"SessionStart", "SubagentStart"}
        state == IF starts THEN "running"
                 ELSE resolveStopState(hook, existing, hasPendingTool)
        entry == buildReportEntry(hook, existing, state)
        changed == other \/ \E f \in DOMAIN entry : existing[f] # entry[f]
        finalSubagentStop == /\ hook.name = "SubagentStop"
                             /\ ~hasPendingTool
                             /\ entry.subagent_count = 0
        guarded == shouldGuardWrite(hook.name, hasPendingTool)
    IN  IF (hook.name = "Stop" /\ existing.pinned_state = "merged") \/ ~changed
        THEN NoChange
        ELSE [update   |-> entry,
              guard    |-> IF guarded THEN StopStates ELSE {},
              preserve |-> guarded /\ finalSubagentStop]

(* pr-detect.js on `gh pr create` and `gh pr merge`, pr-skill-detect.js on *)
(* the /pr command, warn-destructive.js on a command it blocks.            *)
prUpdate(hook) ==
    CASE hook.script = "pr-create" -> [state |-> "pr", pinned_state |-> "pr"]
      [] hook.script = "pr-merge"  -> [state |-> "merged", pinned_state |-> "merged"]
      [] hook.script = "gate"      -> [hook_blocked |-> TRUE]

-----------------------------------------------------------------------------
(* The session is about to start, or has been seen to start. *)
Started == [Empty EXCEPT !.state = "running", !.report_seq = 1]

Init ==
    /\ clock = 1
    /\ \/ file = NoRecord /\ session = [phase |-> "new", tool |-> "", subagents |-> 0]
       \/ file = Started /\ session = [phase |-> "idle", tool |-> "", subagents |-> 0]
    /\ hooks = [s \in Slots |-> Free]
    /\ events = 0
    /\ stateBy = 0
    /\ seen = {}

(* Delegation and pull requests go by names of their own. *)
Kind(hook) ==
    IF hook.script \in {"pr-create", "pr-merge"} THEN "pr"
    ELSE IF hook.tool \in Delegating THEN "delegation"
    ELSE hook.name

(* The session, external: it emits an event and goes on without waiting    *)
(* for the hook.                                                           *)
Emit(hook) ==
    /\ events < MaxEvents
    /\ events' = events + 1
    /\ \E s \in Slots : hooks[s] = Free /\ hooks' = [hooks EXCEPT ![s] = hook]
    /\ seen' = seen \cup {Kind(hook)}
    /\ UNCHANGED <<file, stateBy>>

MayTakeTurn ==
    /\ \A s \in TurnHooks : hooks[s].pc # "start" /\ hooks[s].script # "gate"
    /\ clock' \in {clock, clock + 1}
    /\ \A s \in TurnHooks : hooks[s].name # "PostToolUse" => hooks[s].seq < clock'

UserMayAct == TurnHooks = {} /\ clock' = clock + 1

SessionStart ==
    /\ session.phase = "new"
    /\ Emit(Hook("reporter", "SessionStart", "", ""))
    /\ session' = [session EXCEPT !.phase = "idle"]
    /\ UNCHANGED clock

(* A plain prompt starts no hook that writes. *)
UserPrompt ==
    /\ session.phase = "idle"
    /\ UserMayAct
    /\ session' = [session EXCEPT !.phase = "thinking"]
    /\ \/ UNCHANGED <<hooks, events, file, stateBy, seen>>
       \/ Emit(Hook("pr-create", "UserPromptSubmit", "", ""))

PreToolUse ==
    /\ session.phase = "thinking"
    /\ MayTakeTurn
    /\ \E tool \in Tools :
          /\ Emit(Hook("fast", "PreToolUse", tool, ""))
          /\ session' = [session EXCEPT !.phase = "tool", !.tool = tool]

(* A destructive command: the gate blocks it, and the session waits for    *)
(* the gate but not for the other hook of the same event.                  *)
PreToolUseBlocked ==
    /\ session.phase = "thinking"
    /\ MayTakeTurn
    /\ events < MaxEvents
    /\ events' = events + 1
    /\ \E s, g \in Slots :
          /\ s # g /\ hooks[s] = Free /\ hooks[g] = Free
          /\ hooks' = [hooks EXCEPT ![s] = Hook("fast", "PreToolUse", "Bash", ""),
                                    ![g] = Hook("gate", "PreToolUse", "Bash", "")]
    /\ seen' = seen \cup {"gate"}
    /\ UNCHANGED <<file, stateBy, session>>

PermissionRequest ==
    /\ session.phase = "tool"
    /\ session.tool \notin Delegating
    /\ Emit(Hook("fast", "PermissionRequest", session.tool, ""))
    /\ session' = [session EXCEPT !.phase = "asking"]
    /\ UNCHANGED clock

(* fastUpdate leaves `gh pr create|merge` to pr-detect. *)
PostToolUse ==
    /\ session.phase \in {"tool", "asking"}
    /\ IF session.phase = "asking" \/ session.tool \in UserTools
       THEN UserMayAct ELSE UNCHANGED clock
    /\ \E script \in IF session.tool = "Bash" THEN {"fast", "pr-create", "pr-merge"} ELSE {"fast"} :
          Emit(Hook(script, "PostToolUse", session.tool, ""))
    /\ session' = [session EXCEPT !.phase = "thinking", !.tool = ""]

SubagentStart ==
    /\ session.phase = "tool"
    /\ session.tool \in Delegating
    /\ session.subagents < MaxSubagents
    /\ Emit(Hook("reporter", "SubagentStart", "", ""))
    /\ session' = [session EXCEPT !.subagents = @ + 1]
    /\ UNCHANGED clock

(* A background subagent may outlive the tool call that started it. *)
SubagentStop ==
    /\ session.subagents > 0
    /\ Emit(Hook("reporter", "SubagentStop", "", ""))
    /\ session' = [session EXCEPT !.subagents = @ - 1]
    /\ UNCHANGED clock

(* The turn ends, or the session stops for an answer of the user while a   *)
(* tool is in flight (agent-state-reporter.js:311-315).                    *)
Stop ==
    /\ MayTakeTurn
    /\ \/ /\ session.phase = "thinking"
          /\ session' = [session EXCEPT !.phase = "idle"]
       \/ /\ session.phase \in {"tool", "asking"}
          /\ session.tool \in UserTools
          /\ UNCHANGED session
    /\ \E detected \in Detected :
          Emit(Hook("reporter", "Stop", "", detected))

-----------------------------------------------------------------------------
(* The hook processes. *)

Enter(s) ==
    /\ hooks[s] # Free
    /\ hooks[s].pc = "start"
    /\ hooks[s].script \in {"fast", "reporter"}
    /\ clock' \in {clock, clock + 1}
    /\ hooks' = [hooks EXCEPT ![s] = [@ EXCEPT !.pc = "entered", !.seq = clock']]
    /\ UNCHANGED <<file, session, events, stateBy, seen>>

Ready(hook, write) ==
    IF write = NoChange THEN Free
    ELSE [hook EXCEPT !.pc = "write", !.write = write]

Read(s) ==
    /\ hooks[s].pc = "entered"
    /\ \E other \in BOOLEAN :
          LET hook == hooks[s]
              existing == Existing(file)
              write == IF hook.script = "fast"
                       THEN buildUpdate(hook, existing, other)
                       ELSE report(hook, existing, session.phase \in {"tool", "asking"}, other)
              stamped == [write EXCEPT !.update = Stamp(@, hook.seq)]
          IN  hooks' = [hooks EXCEPT ![s] = Ready(hook, IF write = NoChange THEN write ELSE stamped)]
    /\ UNCHANGED <<file, clock, session, events, stateBy, seen>>

(* pr-detect and pr-skill-detect stamp right before they call writeState;  *)
(* warn-destructive does not stamp.                                        *)
ReadyUnread(s) ==
    /\ hooks[s].pc = "start"
    /\ hooks[s].script \notin {"fast", "reporter"}
    /\ LET hook == hooks[s]
       IN  \/ /\ hook.script = "gate"
              /\ hooks' = [hooks EXCEPT ![s] = Ready(hook, Unguarded(prUpdate(hook)))]
              /\ UNCHANGED clock
           \/ /\ hook.script # "gate"
              /\ clock' \in {clock, clock + 1}
              /\ hooks' = [hooks EXCEPT ![s] =
                     Ready([hook EXCEPT !.seq = clock'], Unguarded(Stamp(prUpdate(hook), clock')))]
    /\ UNCHANGED <<file, session, events, stateBy, seen>>

Write(s) ==
    /\ hooks[s].pc = "write"
    /\ LET existing == Existing(file)
           write == hooks[s].write
       IN  IF Rejected(existing, write, clock)
           THEN UNCHANGED <<file, stateBy>>
           ELSE /\ file' = Merged(existing, write, clock)
                /\ stateBy' = IF Preserved(existing, write) \/ "state" \notin DOMAIN write.update
                              THEN stateBy
                              ELSE IF hooks[s].name \in SubagentEvents THEN 0 ELSE hooks[s].n
    /\ hooks' = [hooks EXCEPT ![s] = Free]
    /\ UNCHANGED <<clock, session, events, seen>>

SessionStep ==
    \/ SessionStart \/ UserPrompt \/ PreToolUse \/ PreToolUseBlocked \/ PermissionRequest
    \/ PostToolUse \/ SubagentStart \/ SubagentStop \/ Stop

HookStep(s) == Enter(s) \/ Read(s) \/ ReadyUnread(s) \/ Write(s)

Next == SessionStep \/ \E s \in Slots : HookStep(s)

Spec == Init /\ [][Next]_vars

-----------------------------------------------------------------------------
TypeOK ==
    /\ file = NoRecord \/ IsRecord(file)
    /\ clock \in Nat
    /\ session \in [phase : {"new", "idle", "thinking", "tool", "asking"},
                    tool : Tools \cup {""},
                    subagents : 0..MaxSubagents]
    /\ \A s \in Slots : hooks[s].pc \in {"free", "start", "entered", "write"}
    /\ events \in 0..MaxEvents
    /\ stateBy \in 0..events
    /\ seen \subseteq {"SessionStart", "PreToolUse", "PermissionRequest", "PostToolUse",
                  "SubagentStart", "SubagentStop", "Stop", "delegation", "pr", "gate"}

Runs(s) == hooks'[s] # hooks[s]

(* A stop state stands against every earlier event: once the hook of an    *)
(* event has put the agent into a stop state, no hook of an earlier event  *)
(* of the main agent takes it out again, however late it writes; and no    *)
(* PostToolUse or SubagentStop ever does (agent-state-fast.js:335-337,     *)
(* agent-state-reporter.js:304-309).                                       *)
StopStateStands ==
    [][\A s \in InFlight :
          (/\ Runs(s)
           /\ hooks[s].script \in {"fast", "reporter"}
           /\ hooks[s].name # "SubagentStart"
           /\ Existing(file).state \in StopStates
           /\ Existing(file').state \notin StopStates)
              => /\ hooks[s].n > stateBy
                 /\ hooks[s].name \notin {"SubagentStop", "PostToolUse"}]_vars

(* When every hook has finished, the record says what the session does,    *)
(* in sessions that delegate nothing and open no pull request: a finished  *)
(* turn shows a stop state, a running command shows as running or as       *)
(* waiting for a permission.  With delegation this does not hold: a hook   *)
(* that finds nothing to change leaves no stamp, so the hook of an earlier *)
(* call of the Plan agent can still put the state to "plan" after it       *)
(* (agent-state-fast.js:260-262).                                            *)
RestingStateIsRight ==
    (Quiet /\ seen \cap {"delegation", "pr", "gate"} = {}) =>
        /\ session.phase = "idle" /\ "Stop" \in seen => file.state \in StopStates
        /\ session.phase \in {"tool", "asking"} /\ session.tool = "Bash"
              => file.state \in {"running", "permission"}

(* The count of subagents is right when no hook is in flight, as           *)
(* "SubagentStart/Stop events are allowed through so subagent_count stays  *)
(* accurate" (agent-state-reporter.js:240) has it.  The code does not keep *)
(* this.                                                                   *)
SubagentCountAccurate ==
    (Quiet /\ file # NoRecord) => file.subagent_count = session.subagents

(* While the session waits for the user's answer, and no hook is in        *)
(* flight, the record shows the question.  The code does not keep this.    *)
QuestionIsShown ==
    (Quiet /\ session.phase \in {"tool", "asking"} /\ session.tool = "AskUserQuestion")
        => file.state = "question" /\ file.pending_question
=============================================================================
