----------------------------- MODULE AgentList -----------------------------
(***************************************************************************)
(* The decisions the dashboard takes on the records it reads               *)
(* (internal/state/state.go): which state is shown, in which order agents  *)
(* are listed, which dead agent is worth resuming, which record is pruned. *)
(* Pure operators on records; a record here is what ReadState returns.     *)
(***************************************************************************)
EXTENDS Integers, FiniteSets

CONSTANTS
    NoPane,        \* the empty tmux_pane_id
    NoServer,      \* the empty tmux_server_pid
    ResumableTTL   \* resumableTTL, in ticks of the clock

ASSUME TTLAssumption == ResumableTTL \in Nat

IdleStates == {"idle_prompt", "done", "question"}

FinishedStates == {"done", "pr", "merged"}

(* A state of no group has priority 0 in the table and sorts last, as 99. *)
StatePriority(state) ==
    CASE state \in {"permission", "plan"}  -> 1
      [] state \in {"question", "error"}   -> 2
      [] state = "running"                 -> 3
      [] state \in {"idle_prompt", "done"} -> 4
      [] state = "pr"                      -> 5
      [] state = "merged"                  -> 6
      [] OTHER                             -> 99

ResumablePriority == 7

(* A pin decides over a resting state, then a blocker found in the         *)
(* transcript ("" if there is none), then the state the hooks reported.    *)
arbitrateState(agent, transcriptOverride) ==
    IF agent.pin # "" /\ agent.state \in IdleStates THEN agent.pin
    ELSE IF transcriptOverride # "" THEN transcriptOverride
    ELSE agent.state

isIdleCandidate(agent) ==
    \/ agent.state \in {"idle_prompt", "permission"}
    \/ agent.harness = "codex" /\ agent.state = "done"

(* The transcript is consulted only when no pin decides and the agent      *)
(* looks idle; pending is what the transcript would say.                   *)
ApplyStateArbitration(agent, pending) ==
    LET pinWins == agent.pin # "" /\ agent.state \in IdleStates
    IN  arbitrateState(agent, IF ~pinWins /\ isIdleCandidate(agent) THEN pending ELSE "")

(* The pane died with its tmux server, and there is work to go on with.    *)
(* serverPID is NoServer exactly when the panes could not be listed.       *)
IsResumableOrphan(a, livePanes, serverPID, now, dirs) ==
    /\ a.state # "" /\ a.pane # NoPane
    /\ serverPID # NoServer
    /\ a.pane \notin livePanes
    /\ a.server \notin {NoServer, serverPID}
    /\ arbitrateState(a, "") \notin FinishedStates
    /\ a.branch
    /\ a.dir \in dirs
    /\ now - a.updated <= ResumableTTL

sortPriority(a) == IF a.resumable THEN ResumablePriority ELSE StatePriority(a.state)

(* SortedAgents lists a before b. *)
SortsBefore(a, b) ==
    \/ sortPriority(a) < sortPriority(b)
    \/ sortPriority(a) = sortPriority(b) /\ a.window < b.window
    \/ sortPriority(a) = sortPriority(b) /\ a.window = b.window /\ a.paneIndex < b.paneIndex

-----------------------------------------------------------------------------
(* PruneDead.  files maps the session of each readable file to its record. *)

(* Mistake: all but the oldest. *)
DedupAllButOldest(files) ==
    {f \in DOMAIN files :
        /\ files[f].pane # NoPane
        /\ \E g \in DOMAIN files : /\ files[g].pane = files[f].pane
                                   /\ files[g].updated < files[f].updated}

(* Of several records of one pane all but the newest; equal stamps tie. *)
DedupPaths(files) ==
    {f \in DOMAIN files :
        /\ files[f].pane # NoPane
        /\ \E g \in DOMAIN files : /\ files[g].pane = files[f].pane
                                   /\ files[f].updated < files[g].updated}

(* Mistake: every record whose branch is open is taken for a survivor. *)
DeadPathsAnyServer(files, live, serverPID, now, dirs, merged) ==
    {f \in DOMAIN files \ DedupPaths(files) :
        /\ files[f].pane = NoPane \/ files[f].pane \notin live
        /\ files[f].state \in FinishedStates \/ files[f].dir \in merged}

(* Records without a live pane, but for survivors whose branch is open. *)
DeadPaths(files, live, serverPID, now, dirs, merged) ==
    {f \in DOMAIN files \ DedupPaths(files) :
        /\ files[f].pane = NoPane \/ files[f].pane \notin live
        /\ IsResumableOrphan(files[f], live, serverPID, now, dirs) => files[f].dir \in merged}

(* Nothing dead is removed if the two kinds together are all there is. *)
SafetyNet(files, dedup, dead) == dead \cup dedup = DOMAIN files /\ dead # {}

PruneRemovals(files, live, serverPID, now, dirs, merged) ==
    LET dedup == DedupPaths(files)
        dead  == DeadPaths(files, live, serverPID, now, dirs, merged)
    IN  [dedup |-> dedup, dead |-> IF SafetyNet(files, dedup, dead) THEN {} ELSE dead]
=============================================================================
