----------------------------- MODULE Lifecycle -----------------------------
(***************************************************************************)
(* The life of agents in tmux panes: sessions that report, panes that are  *)
(* closed, tmux servers that restart, and what the two front ends do about *)
(* it: create, resume, close, merge, clean up and prune.  A front end sees *)
(* a list (the TUI's may be old), checks something with tmux, and acts on  *)
(* panes and files in separate steps.                                      *)
(*                                                                         *)
(* All agents work on one repository, each in a worktree of its own, named *)
(* like its session; their panes share the windows of that repository.     *)
(***************************************************************************)
EXTENDS AgentList

CONSTANTS
    Sessions,           \* session ids
    States,             \* the states their hooks report
    Codex,              \* those of codex, whose resume gets a new session id
    Branchless,         \* those without a branch
    InSource,           \* those launched in the repository, not in their worktree
    Web,                \* request handlers of the web server
    Tui,                \* commands of the terminal UI
    OwnPane,            \* the pane the TUI runs in
    NoSession,
    NoRecord,
    MaxPane,            \* bound on the panes one tmux server hands out
    MaxServer,          \* bound on the tmux servers
    MaxClock,           \* bound on the clock
    MaxEvents,          \* bound on what users do
    MaxPanesPerWindow

Fronts == Web \cup Tui

ASSUME SessionAssumption ==
    /\ Codex \subseteq Sessions /\ Branchless \subseteq Sessions /\ InSource \subseteq Sessions
    /\ NoSession \notin Sessions
ASSUME FrontAssumption == Web \cap Tui = {}
ASSUME BoundAssumption ==
    /\ MaxPane \in Nat /\ MaxServer \in Nat /\ MaxClock \in Nat
    /\ MaxEvents \in Nat /\ MaxPanesPerWindow \in Nat
ASSUME PaneAssumption ==
    /\ NoPane \notin 1..MaxPane /\ OwnPane \notin 1..MaxPane \cup {NoPane}
    /\ NoServer \notin 1..MaxServer

VARIABLES
    server,    \* pid of the tmux server
    opened,    \* how many panes this server has handed out: ids are never reused by one server
    panes,     \* live pane -> [sid, window]
    started,   \* sessions that ever ran
    file,      \* session -> its record on disk, or NoRecord
    dirs,      \* sessions whose worktree exists
    shipped,   \* sessions whose branch is an ancestor of the default branch
    op,        \* front end -> the command it is executing
    prune,     \* the prune cycle
    clock,
    events     \* how much users have done

vars == <<server, opened, panes, started, file, dirs, shipped, op, prune, clock, events>>

tmux == <<server, opened, panes>>

Live == DOMAIN panes

NoWindow == 0

Windows == {panes[p].window : p \in Live}

PanesIn(w) == {p \in Live : panes[p].window = w}

Record(s, p, state, pin) ==
    [sid |-> s, pane |-> p, server |-> server, state |-> state, pin |-> pin,
     branch |-> s \notin Branchless, dir |-> s, updated |-> clock]

Readable(f) == {s \in Sessions : f[s] # NoRecord}

Files == [s \in Readable(file) |-> file[s]]

Idle == [cmd |-> "none", at |-> "idle", sid |-> NoSession, rec |-> NoRecord, window |-> NoWindow,
         counted |-> {}]

NoPrune == [at |-> "idle", server |-> NoServer, live |-> {}, read |-> [s \in {} |-> NoRecord],
            dedup |-> {}, dead |-> {}]

Init ==
    /\ server = 1 /\ opened = 0 /\ panes = [p \in {} |-> NoSession]
    /\ started = {}
    /\ file = [s \in Sessions |-> NoRecord]
    /\ dirs = Sessions
    /\ shipped = {}
    /\ op = [f \in Fronts |-> Idle]
    /\ prune = NoPrune
    /\ clock = 1
    /\ events = 0

-----------------------------------------------------------------------------
(* tmux and the sessions in its panes.                                     *)

Event == events < MaxEvents /\ events' = events + 1

FreshWindow == CHOOSE w \in 1..(MaxPane + 1) : w \notin Windows /\ \A v \in 1..(w - 1) : v \in Windows

(* A new pane, in which session s starts, or nothing yet. *)
OpenPane(s, w) ==
    /\ opened < MaxPane
    /\ opened' = opened + 1
    /\ panes' = [p \in Live \cup {opened + 1} |->
                    IF p = opened + 1 THEN [sid |-> s, window |-> w] ELSE panes[p]]
    /\ started' = started \cup ({s} \cap Sessions)

ClosePane(p) == panes' = [q \in Live \ {p} |-> panes[q]]

(* The user opens a pane, in a window of its own or next to others. *)
OpenByHand ==
    /\ Event
    /\ \E w \in Windows \cup {FreshWindow} : OpenPane(NoSession, w)
    /\ UNCHANGED <<server, file, dirs, shipped, op, prune, clock>>

(* A hook of the session in pane p writes its record; a pin is kept. *)
Report(p) ==
    /\ p \in Live /\ panes[p].sid # NoSession
    /\ LET s   == panes[p].sid
           pin == IF file[s] = NoRecord THEN "" ELSE file[s].pin
       IN  \E state \in States :
               file' = [file EXCEPT ![s] = Record(s, p, state, pin)]
    /\ UNCHANGED <<tmux, started, dirs, shipped, op, prune, clock, events>>

(* An agent that starts in pane p, or /clear: another session there. *)
NewSession(p) ==
    /\ p \in Live
    /\ \E s \in Sessions \ started :
           /\ panes' = [panes EXCEPT ![p].sid = s]
           /\ started' = started \cup {s}
    /\ UNCHANGED <<server, opened, file, dirs, shipped, op, prune, clock, events>>

(* The pane is closed under the living server. *)
ExitPane(p) ==
    /\ Event
    /\ p \in Live
    /\ ClosePane(p)
    /\ UNCHANGED <<server, opened, started, file, dirs, shipped, op, prune, clock>>

(* The server dies with all panes, the TUI among them; the next one counts *)
(* its panes from the start again.                                         *)
RestartServer ==
    /\ server < MaxServer
    /\ server' = server + 1
    /\ opened' = 0
    /\ panes' = [p \in {} |-> NoSession]
    /\ op' = [f \in Fronts |-> IF f \in Tui THEN Idle ELSE op[f]]
    /\ prune' = NoPrune
    /\ UNCHANGED <<started, file, dirs, shipped, clock, events>>

ShipBranch(s) ==
    /\ Event
    /\ s \in started \ (shipped \cup Branchless)
    /\ shipped' = shipped \cup {s}
    /\ UNCHANGED <<tmux, started, file, dirs, op, prune, clock>>

Tick ==
    /\ Event
    /\ clock < MaxClock
    /\ clock' = clock + 1
    /\ UNCHANGED <<tmux, started, file, dirs, shipped, op, prune>>

-----------------------------------------------------------------------------
(* Commands of the front ends.                                             *)

Become(f, o) == op' = [op EXCEPT ![f] = o]

Step(f, at) == Become(f, [op[f] EXCEPT !.at = at])

Finish(f) == Become(f, Idle)

(* All that is left to do is to remove the record. *)
RemoveNext(f) == Become(f, [Idle EXCEPT !.cmd = op[f].cmd, !.at = "remove", !.sid = op[f].sid])

(* FindWindowForRepo: the window of some listed agent, by now perhaps gone *)
(* if its pane is; no agent, no window.                                    *)
FoundWindows ==
    UNION {IF file[s].pane \in Live THEN {panes[file[s].pane].window} ELSE 1..(MaxPane + 1)
             : s \in Readable(file)}

(* FindWindowByName, asked when no agent is listed, finds any window. *)
Places ==
    IF Readable(file) = {} THEN Windows \cup {NoWindow} ELSE FoundWindows

(* A command acts on the record and the window seen when it starts.  The   *)
(* web server reads them for the request; the TUI takes them from the list *)
(* it shows, so that much may have happened before its first step.         *)
Command(f, cmd, at, s) ==
    /\ op[f] = Idle
    /\ Event
    /\ \E w \in IF at \in {"place", "check"} THEN Places ELSE {NoWindow} :
           Become(f, [Idle EXCEPT !.cmd = cmd, !.at = at, !.sid = s, !.window = w,
                                  !.rec = IF s = NoSession THEN NoRecord ELSE file[s]])
    /\ UNCHANGED <<tmux, started, file, dirs, shipped, prune, clock>>

Orphan(rec) == IsResumableOrphan(rec, Live, server, clock, dirs)

StartCreate(f) == Command(f, "create", "place", NoSession)

(* The web server looks for the directory first; the TUI offers to resume  *)
(* what its list flags.                                                    *)
StartResume(f, s) ==
    /\ file[s] # NoRecord
    /\ IF f \in Web THEN s \in dirs ELSE Orphan(file[s])
    /\ Command(f, "resume", "check", s)

(* A survivor's row is dismissed without a pane to kill, which is a close. *)
StartClose(f, s) == file[s] # NoRecord /\ Command(f, "close", "kill", s)

StartMerge(f, s) ==
    file[s] # NoRecord /\ s \notin Branchless /\ Command(f, "merge", "merge", s)

StartCleanup(f, s) == file[s] # NoRecord /\ Command(f, "cleanup", "kill", s)

(* Mistake: what was looked up is taken for an orphan. *)
CheckNothing(f) ==
    /\ op[f].at = "check"
    /\ Step(f, "place")
    /\ UNCHANGED <<tmux, started, file, dirs, shipped, prune, clock, events>>

(* The orphan is checked against the panes there are now; the check fails, *)
(* as it does when the panes cannot be listed, or the command goes on.     *)
CheckOrphan(f) ==
    /\ op[f].at = "check"
    /\ \/ /\ Orphan(op[f].rec)
          /\ Step(f, "place")
       \/ Finish(f)
    /\ UNCHANGED <<tmux, started, file, dirs, shipped, prune, clock, events>>

(* Mistake: the limit is tested with > instead of >=. *)
PlaceOneMore(f) ==
    /\ op[f].at = "place"
    /\ LET in == PanesIn(op[f].window)
       IN  CASE in = {} -> Step(f, "open")
             [] Cardinality(in) > MaxPanesPerWindow -> Finish(f)
             [] OTHER -> Become(f, [op[f] EXCEPT !.at = "split", !.counted = in])
    /\ UNCHANGED <<tmux, started, file, dirs, shipped, prune, clock, events>>

(* Panes are counted first.  A full window refuses the command; one that   *)
(* is gone, or none, makes it open a new window.                           *)
Place(f) ==
    /\ op[f].at = "place"
    /\ LET in == PanesIn(op[f].window)
       IN  CASE in = {} -> Step(f, "open")
             [] Cardinality(in) >= MaxPanesPerWindow -> Finish(f)
             [] OTHER -> Become(f, [op[f] EXCEPT !.at = "split", !.counted = in])
    /\ UNCHANGED <<tmux, started, file, dirs, shipped, prune, clock, events>>

(* The session that starts in the new pane: --resume keeps claude's id. *)
Spawned(f) ==
    IF op[f].cmd = "resume" /\ op[f].sid \notin Codex
    THEN op[f].sid
    ELSE NoSession

(* split-window or new-window; either may fail. *)
Spawn(f) ==
    /\ \/ /\ OpenPane(Spawned(f), IF op[f].at = "split" THEN op[f].window ELSE FreshWindow)
          /\ IF op[f].cmd = "resume" THEN RemoveNext(f) ELSE Finish(f)
       \/ Finish(f) /\ UNCHANGED <<opened, panes, started>>
    /\ op[f].at \in {"split", "open"}
    /\ op[f].at = "split" => op[f].window \in Windows
    /\ UNCHANGED <<server, file, dirs, shipped, prune, clock, events>>

SplitGone(f) ==
    /\ op[f].at = "split" /\ op[f].window \notin Windows
    /\ Finish(f)
    /\ UNCHANGED <<tmux, started, file, dirs, shipped, prune, clock, events>>

AfterKill(f) == IF op[f].cmd = "cleanup" THEN Step(f, "worktree") ELSE RemoveNext(f)

Launched(f) == f \in Tui /\ op[f].cmd = "cleanup" => op[f].sid \in dirs \cup InSource

Refuses(f) ==
    /\ f \in Tui /\ op[f].cmd = "cleanup"
    /\ Finish(f)
    /\ UNCHANGED panes

(* The pane of the record is killed if there is one.  When tmux fails the  *)
(* TUI gives up closing; everything else goes on.  A cleanup of the TUI    *)
(* may refuse beforehand, for a submodule or a missing branch, and does    *)
(* when the directory the agent was launched in is gone.                   *)
Kill(f) ==
    /\ op[f].at = "kill"
    /\ \/ Refuses(f)
       \/ /\ Launched(f)
          /\ op[f].rec.pane \in Live
          /\ ClosePane(op[f].rec.pane)
          /\ AfterKill(f)
       \/ /\ Launched(f)
          /\ IF op[f].rec.pane \in Live /\ f \in Tui /\ op[f].cmd = "close"
             THEN Finish(f) ELSE AfterKill(f)
          /\ UNCHANGED panes
    /\ UNCHANGED <<server, opened, started, file, dirs, shipped, prune, clock, events>>

(* Mistake: a failed worktree removal is ignored. *)
RemoveWorktreeOrNot(f) ==
    /\ op[f].at = "worktree"
    /\ dirs' \in {dirs, dirs \ {op[f].sid}}
    /\ Step(f, "refresh")
    /\ UNCHANGED <<tmux, started, file, shipped, prune, clock, events>>

(* git removes a worktree only once, and where it refuses the TUI removes  *)
(* the directory.  The TUI looks at the directory the agent was launched   *)
(* in: when that is the repository it removes nothing.  A failure ends the *)
(* cleanup, in the TUI that of git worktree prune too.                     *)
RemoveWorktree(f) ==
    /\ op[f].at = "worktree"
    /\ IF f \in Tui /\ op[f].sid \in InSource
       THEN UNCHANGED dirs /\ Step(f, "refresh")
       ELSE \/ UNCHANGED dirs /\ Finish(f)
            \/ /\ op[f].sid \in dirs \/ f \in Tui
               /\ dirs' = dirs \ {op[f].sid}
               /\ Step(f, "refresh") \/ (f \in Tui /\ Finish(f))
    /\ UNCHANGED <<tmux, started, file, shipped, prune, clock, events>>

(* Checkout and pull of the default branch; the TUI skips them when the    *)
(* source tree has changes.                                                *)
RefreshSource(f) ==
    /\ op[f].at = "refresh"
    /\ RemoveNext(f) \/ Finish(f)
    /\ UNCHANGED <<tmux, started, file, dirs, shipped, prune, clock, events>>

(* RemoveAgent, the last step of close, cleanup and resume. *)
RemoveAgent(f) ==
    /\ op[f].at = "remove"
    /\ file' = [file EXCEPT ![op[f].sid] = NoRecord]
    /\ Finish(f)
    /\ UNCHANGED <<tmux, started, dirs, shipped, prune, clock, events>>

(* gh pr merge, which may fail.  A squash is no ancestor, so shipped does  *)
(* not follow.                                                             *)
MergePR(f) ==
    /\ op[f].at = "merge"
    /\ Step(f, "pin") \/ Finish(f)
    /\ UNCHANGED <<tmux, started, file, dirs, shipped, prune, clock, events>>

(* PinAgentState fails without a record, and its error is ignored. *)
PinMerged(f) ==
    /\ op[f].at = "pin"
    /\ file' = IF file[op[f].sid] = NoRecord THEN file
               ELSE [file EXCEPT ![op[f].sid].pin = "merged"]
    /\ Finish(f)
    /\ UNCHANGED <<tmux, started, dirs, shipped, prune, clock, events>>

-----------------------------------------------------------------------------
(* The prune cycle of the TUI.                                             *)

(* Panes and server pid come from one listing; without panes or pid the    *)
(* cycle is skipped, which leaves it idle.  The TUI's own pane is always   *)
(* listed.                                                                 *)
PruneList ==
    /\ prune.at = "idle"
    /\ prune' = [NoPrune EXCEPT !.at = "listed", !.server = server, !.live = Live \cup {OwnPane}]
    /\ UNCHANGED <<tmux, started, file, dirs, shipped, op, clock, events>>

PruneRead ==
    /\ prune.at = "listed"
    /\ LET removals == PruneRemovals(Files, prune.live, prune.server, clock, dirs, shipped)
           chosen   == removals.dedup \cup removals.dead
       IN  prune' = [prune EXCEPT !.at = "remove", !.read = [s \in chosen |-> file[s]],
                                  !.dedup = removals.dedup, !.dead = removals.dead]
    /\ UNCHANGED <<tmux, started, file, dirs, shipped, op, clock, events>>

(* The files are removed one by one, by path. *)
PruneRemove(s) ==
    /\ prune.at = "remove"
    /\ s \in IF prune.dedup # {} THEN prune.dedup ELSE prune.dead
    /\ file' = [file EXCEPT ![s] = NoRecord]
    /\ prune' = [prune EXCEPT !.dedup = @ \ {s}, !.dead = @ \ {s}]
    /\ UNCHANGED <<tmux, started, dirs, shipped, op, clock, events>>

PruneDone ==
    /\ prune.at = "remove"
    /\ prune.dedup \cup prune.dead = {}
    /\ prune' = NoPrune
    /\ UNCHANGED <<tmux, started, file, dirs, shipped, op, clock, events>>

-----------------------------------------------------------------------------
Environment ==
    \/ OpenByHand \/ RestartServer \/ Tick
    \/ \E p \in Live : Report(p) \/ NewSession(p) \/ ExitPane(p)
    \/ \E s \in Sessions : ShipBranch(s)

User(f) ==
    \/ StartCreate(f)
    \/ \E s \in Sessions : StartResume(f, s) \/ StartClose(f, s) \/ StartMerge(f, s) \/ StartCleanup(f, s)

FrontStep(f) ==
    \/ CheckOrphan(f) \/ Place(f) \/ Spawn(f) \/ SplitGone(f) \/ Kill(f) \/ RemoveWorktree(f)
    \/ RefreshSource(f) \/ RemoveAgent(f) \/ MergePR(f) \/ PinMerged(f)

Prune == PruneList \/ PruneRead \/ PruneDone \/ \E s \in Sessions : PruneRemove(s)

Next == Environment \/ Prune \/ \E f \in Fronts : User(f) \/ FrontStep(f)

(* The TUI's clock starts a prune cycle again and again. *)
Fairness == WF_vars(Prune)

Spec == Init /\ [][Next]_vars /\ Fairness

-----------------------------------------------------------------------------
(* The record of an agent that runs where the record says. *)
Own(s) ==
    /\ file[s] # NoRecord /\ file[s].server = server
    /\ file[s].pane \in Live /\ panes[file[s].pane].sid = s

Pruned(s) == s \in (prune.dedup \cup prune.dead) \ (prune'.dedup \cup prune'.dead) /\ file' # file

(* Prune removes the record of a running agent only if the agent's pane is *)
(* younger than the list of panes it works on, or the record was rewritten *)
(* since it was read (state.go:709-720).                                   *)
PruneSparesLive ==
    [][\A s \in Sessions :
          Pruned(s) /\ Own(s) => file[s].pane \notin prune.live \/ file[s] # prune.read[s]]_vars

(* A record whose pane was closed under the living server does not stay,   *)
(* as long as some agent runs: it is pruned, or the situation changes      *)
(* (state.go:715-716).                                                     *)
ClosedAgentGoes ==
    \A s \in Sessions :
        []<>~(/\ file[s] # NoRecord /\ file[s].server = server /\ file[s].pane \notin Live
              /\ \E t \in Sessions : Own(t))

Resumes(f, s) ==
    /\ op[f].cmd = "resume" /\ op[f].sid = s /\ op'[f] # op[f]
    /\ \E p \in DOMAIN panes' \ Live : panes'[p].sid = s

Runs(s) == \E p \in Live : panes[p].sid = s

(* A resume starts a second copy of a running session only if it acts on a *)
(* record that has changed since, or another resume of the session has not *)
(* yet removed it (actions.go:715-717).                                    *)
ResumeStartsNoCopy ==
    [][\A f \in Fronts, s \in Sessions :
          Resumes(f, s) /\ Runs(s)
              => \/ file[s] = NoRecord
                 \/ file[s] # op[f].rec
                 \/ \E g \in Fronts \ {f} : op[g].sid = s /\ op[g].at = "remove"]_vars

(* A front end overfills a window only with panes that appeared after it   *)
(* had counted them (repowin.go:14-15).                                    *)
OverfullOnlyByOverlap ==
    [][\A f \in Fronts :
          LET w == op[f].window
          IN  /\ op[f].at = "split" /\ w \in Windows
              /\ \E p \in DOMAIN panes' \ Live : panes'[p].window = w
              /\ Cardinality(PanesIn(w)) >= MaxPanesPerWindow
              => ~(PanesIn(w) \subseteq op[f].counted)]_vars

(* Cleanup drops an agent's record only after its worktree is gone, but    *)
(* for the TUI's cleanup of one launched in the repository (actions.go:    *)
(* 472-505, commands.go:1118-1176).                                        *)
CleanupDropsRecordLast ==
    \A f \in Fronts : 
        /\ op[f].cmd = "cleanup" /\ op[f].at = "remove"
        /\ f \in Web \/ op[f].sid \notin InSource
        => op[f].sid \notin dirs

(* What the user could still resume: the session does not run and was the *)
(* last one of its pane, its work is unfinished and unmerged, its          *)
(* directory is there.                                                     *)
Survivor(s) ==
    /\ file[s] # NoRecord /\ ~Runs(s)
    /\ IsResumableOrphan(file[s], {}, server, clock, dirs)
    /\ s \notin shipped
    /\ \A t \in Readable(file) \ {s} :
          file[t].server = file[s].server => file[t].pane # file[s].pane

(* Restart survivors "are kept on disk so the user can find and continue   *)
(* them, and so resuming one doesn't cascade-delete its siblings once it   *)
(* gets a live pane" (state.go:771-774).                                   *)
SurvivorsKept == [][\A s \in Sessions : Pruned(s) => ~Survivor(s)]_vars
=============================================================================
