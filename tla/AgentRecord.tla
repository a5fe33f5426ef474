---------------------------- MODULE AgentRecord ----------------------------
(***************************************************************************)
(* The record kept in agents/<session_id>.json and the rule by which       *)
(* writeState (packages/agent-state/index.js) merges an update into it.    *)
(* Only the fields that some writer's decision depends on are kept; the    *)
(* ones that identify the pane never change during a session.              *)
(***************************************************************************)
EXTENDS Integers

CONSTANT Slack  \* REPORT_SEQ_FUTURE_SLACK, in ticks of the clock

ASSUME SlackAssumption == Slack \in Nat

States == {"", "running", "permission", "question", "plan",
           "idle_prompt", "done", "pr", "merged"}

(* STOP_STATES of agent-state-fast.js and agent-state-reporter.js. *)
StopStates == {"idle_prompt", "done", "question", "plan"}

(* report_seq 0 stands for an absent or non-finite stamp. *)
NoSeq == 0

Values == [
    state            |-> States,
    pinned_state     |-> {"", "pr", "merged"},
    current_tool     |-> {"", "Bash", "AskUserQuestion", "ExitPlanMode", "Agent"},
    pending_question |-> BOOLEAN,
    hook_blocked     |-> BOOLEAN,
    subagent_count   |-> Nat,
    preview          |-> Nat,
    report_seq       |-> Nat]

Fields == DOMAIN Values

(* An update names some fields; a record has them all. *)
IsUpdate(u) ==
    /\ DOMAIN u \subseteq Fields
    /\ \A f \in DOMAIN u : u[f] \in Values[f]

IsRecord(r) == DOMAIN r = Fields /\ \A f \in Fields : r[f] \in Values[f]

(* No file: a record without fields, the {} of the code. *)
NoRecord == [f \in {} |-> NoSeq]

(* What a reader of a missing file works with: readAgentState(id) || {}. *)
Empty == [
    state            |-> "",
    pinned_state     |-> "",
    current_tool     |-> "",
    pending_question |-> FALSE,
    hook_blocked     |-> FALSE,
    subagent_count   |-> 0,
    preview          |-> 0,
    report_seq       |-> NoSeq]

Existing(r) == IF r = NoRecord THEN Empty ELSE r

(* {...existing, ...update} *)
Merge(existing, update) ==
    [f \in Fields |-> IF f \in DOMAIN update THEN update[f] ELSE existing[f]]

Stamp(update, seq) ==
    [f \in DOMAIN update \cup {"report_seq"} |->
        IF f = "report_seq" THEN seq ELSE update[f]]

(* A stamp too far in the future comes from a corrupt file or a clock jump *)
(* and does not order anything.                                            *)
Plausible(seq, now) == seq # NoSeq /\ seq <= now + Slack

StaleReportSeq(existing, update, now) ==
    /\ "report_seq" \in DOMAIN update
    /\ Plausible(existing.report_seq, now)
    /\ update.report_seq < existing.report_seq

(* A write request is [update, guard, preserve]: the update, the           *)
(* guardStates option ({} if absent) and the preserveGuardedState option.  *)
GuardHit(existing, write) == existing.state \in write.guard

Preserved(existing, write) == GuardHit(existing, write) /\ write.preserve

(* Mistake: guardStates is looked at for stale updates only. *)
RejectedWhenStale(existing, write, now) ==
    StaleReportSeq(existing, write.update, now) /\ ~Preserved(existing, write)

(* The two early returns of writeState. *)
Rejected(existing, write, now) ==
    \/ StaleReportSeq(existing, write.update, now) /\ ~Preserved(existing, write)
    \/ GuardHit(existing, write) /\ ~write.preserve

(* Mistake: an update that lands despite its older stamp keeps that stamp. *)
MergedWithOwnStamp(existing, write, now) ==
    LET merged == Merge(existing, write.update)
    IN  IF Preserved(existing, write)
        THEN [merged EXCEPT !["state"] = existing.state]
        ELSE merged

(* The record written: existing and update merged, except that a preserved *)
(* state and the newer stamp are put back.                                 *)
Merged(existing, write, now) ==
    LET merged == Merge(existing, write.update)
        stateKept == IF Preserved(existing, write)
                     THEN [merged EXCEPT !["state"] = existing.state]
                     ELSE merged
    IN  IF StaleReportSeq(existing, write.update, now)
        THEN [stateKept EXCEPT !["report_seq"] = existing.report_seq]
        ELSE stateKept
=============================================================================
