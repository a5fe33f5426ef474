--------------------------- MODULE MCAgentStore ---------------------------
(* AgentStore with two hooks and one dashboard goroutine, or WorktreeClaim *)
(* with two sessions: two parts that share no state, one chosen at the     *)
(* start.                                                                  *)
(*                                                                         *)
(* The requests are the shapes the hooks use: an unguarded stamped state     *)
(* change (PreToolUse, Stop, pr-detect), one guarded by the stop states    *)
(* (PostToolUse), one that is guarded but keeps the state and lands        *)
(* (the last SubagentStop), and an unstamped one (warn-destructive).       *)
EXTENDS AgentStore

CONSTANTS None, Main, Linked, Sessions, Ghost, Dashboards, MaxResolves

VARIABLES part, cwd, exists, marker, staged, record, proc, claims, reaped, resolves

Claim == INSTANCE WorktreeClaim

ASSUME ClaimAssumption == Claim!NamesDiffer

claimVars == <<cwd, exists, marker, staged, record, proc, claims, reaped, resolves>>

MCInit ==
    /\ Init /\ Claim!Init
    /\ \/ part = "records" /\ exists = {}
       \/ part = "claims" /\ file = NoRecord

MCNext ==
    /\ UNCHANGED part
    /\ \/ part = "records" /\ Next /\ UNCHANGED claimVars
       \/ part = "claims" /\ Claim!Next /\ UNCHANGED vars

MCSpec ==
    /\ MCInit /\ [][MCNext]_<<part, vars, claimVars>>
    /\ part = "claims" => Claim!Fairness

(* Two living sessions never both claim a worktree (WorktreeClaim). *)
ClaimIsExclusive == Claim!ClaimIsExclusive

(* An agent that was spawned in a worktree comes to be pinned to it. *)
SpawnedIsPinned == Claim!SpawnedIsPinned

MCRequests == {
    [update |-> [state |-> "idle_prompt"],
     guard |-> {}, preserve |-> FALSE, stamped |-> TRUE],
    [update |-> [state |-> "merged", pinned_state |-> "merged"],
     guard |-> {}, preserve |-> FALSE, stamped |-> TRUE],
    [update |-> [state |-> "running", current_tool |-> ""],
     guard |-> StopStates, preserve |-> FALSE, stamped |-> TRUE],
    [update |-> [state |-> "running", subagent_count |-> 0],
     guard |-> StopStates, preserve |-> TRUE, stamped |-> TRUE],
    [update |-> [hook_blocked |-> TRUE],
     guard |-> {}, preserve |-> FALSE, stamped |-> FALSE]}

MCStamps == {[pinned_state |-> "merged"]}
=============================================================================
