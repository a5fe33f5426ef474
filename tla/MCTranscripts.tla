--------------------------- MODULE MCTranscripts ---------------------------
(* Transcripts, PendingTools, or CodexSessions: three parts that share no  *)
(* state, one chosen at the start.                                         *)
EXTENDS Transcripts

CONSTANTS MaxLog, Window, Sessions

VARIABLES part, harness, log, asked, answered, misled,
    owner, rollout, index, sessions, metas, details, job, listed, subagents, selected, conv

Pending == INSTANCE PendingTools

ASSUME PendingAssumption == Pending!LinesCount

pendingVars == <<harness, log, asked, answered, misled>>

(* A session that is resumed, or a subagent of one without a file yet.     *)
MCParents == [s \in Sessions |-> IF s = "sub" THEN "top" ELSE None]

MCLayouts == {<<"top", "top">>, <<"sub">>, <<>>}

ASSUME LayoutsAssumption == \A l \in MCLayouts : ToSet(l) \subseteq Sessions

Codex ==
    INSTANCE CodexSessions WITH ParentOf <- MCParents, Layouts <- MCLayouts, MaxLines <- 2

codexVars == <<owner, rollout, index, sessions, metas, details, job, listed, subagents, selected, conv>>

(* The row that is selected is of the session that is followed; what is    *)
(* not chosen has nothing to do.                                           *)
MCInit ==
    /\ Init /\ Pending!Init /\ Codex!Init
    /\ selected = IF owner = <<>> THEN None ELSE owner[1]
    /\ \/ part = "contents" /\ harness = "claude" /\ owner = <<>> /\ reader # None
       \/ part = "pending" /\ reader = None /\ owner = <<>>
       \/ part = "codex" /\ harness = "claude" /\ reader = None /\ owner # <<>>

MCNext ==
    /\ UNCHANGED part
    /\ \/ part = "contents" /\ Next /\ UNCHANGED <<pendingVars, codexVars>>
       \/ part = "pending" /\ Pending!Next /\ UNCHANGED <<vars, codexVars>>
       \/ part = "codex" /\ Codex!Next /\ UNCHANGED <<vars, pendingVars>>

MCSpec ==
    /\ MCInit /\ [][MCNext]_<<part, vars, pendingVars, codexVars>>
    /\ Fairness /\ Codex!Fairness

(* The state and the card of a question agree, unless a subagent was       *)
(* prompted while it waits (PendingTools).                                 *)
StateAndCardAgree == Pending!StateAndCardAgree

(* Subagents of codex leave the list and are shown complete, for           *)
(* CodexSessions.                                                          *)
SubagentsAreShown == Codex!SubagentsAreShown

(* A resumed codex session comes to show its newest rollout, for           *)
(* CodexSessions.                                                          *)
ConversationFollowsResume == Codex!ConversationFollowsResume
=============================================================================
