-------------------------- MODULE LifecycleProofs --------------------------
(***************************************************************************)
(* Proofs about the life of agents, for any sessions, panes, tmux servers, *)
(* request handlers and commands: prune spares agents at work, a resume    *)
(* starts no second copy, windows are overfilled only by commands that     *)
(* overlap, and cleanup drops a record last.  And about what the           *)
(* dashboards type to them, for any agents, requests, texts, questions and *)
(* cards: it arrives whole and unmixed.                                    *)
(*                                                                         *)
(* A window is whatever FreshWindow chooses, so records are typed by their *)
(* shape, not by the sets their fields are in.                             *)
(***************************************************************************)
EXTENDS MCLifecycle, Sequences, FiniteSetTheorems, WellFoundedInduction, TLAPS

PaneShape(p) == p = [sid |-> p.sid, window |-> p.window]

RecordShape(r) ==
    r = [sid |-> r.sid, pane |-> r.pane, server |-> r.server, state |-> r.state, pin |-> r.pin,
         branch |-> r.branch, dir |-> r.dir, updated |-> r.updated]

OpShape(o) ==
    o = [cmd |-> o.cmd, at |-> o.at, sid |-> o.sid, rec |-> o.rec, window |-> o.window,
         counted |-> o.counted]

PruneShape(q) ==
    q = [at |-> q.at, server |-> q.server, live |-> q.live, read |-> q.read,
         dedup |-> q.dedup, dead |-> q.dead]

(* tmux: a server hands out panes in order. *)
PanesFit ==
    /\ server \in Nat /\ opened \in Nat /\ opened <= MaxPane
    /\ panes = [p \in Live |-> panes[p]]
    /\ Live \subseteq 1..opened
    /\ started \subseteq Sessions
    /\ \A p \in Live : PaneShape(panes[p]) /\ panes[p].sid \in started \cup {NoSession}

(* A record is of a session that ran, in a pane that its server had handed *)
(* out, and no younger than the clock.                                     *)
RecordFits(r, sv, n, now) ==
    /\ RecordShape(r)
    /\ r.server \in Nat /\ r.server <= sv
    /\ r.updated \in Nat /\ r.updated <= now
    /\ r.server = sv => r.pane \in 1..n

FilesFit ==
    /\ clock \in Nat
    /\ file = [s \in Sessions |-> file[s]]
    /\ \A s \in Readable(file) : s \in started /\ RecordFits(file[s], server, opened, clock)

(* What a command has found out holds on: the orphan it resumes is of an   *)
(* earlier server; the panes it counted left room; the worktree it cleaned *)
(* up is gone.                                                             *)
OpFits(f, o, sv, ds) ==
    /\ OpShape(o) /\ o.sid \in Sessions \cup {NoSession}
    /\ o.at = "check" => o.rec.server \in Nat /\ o.rec.server <= sv
    /\ o.cmd = "resume" /\ o.at \in {"place", "split", "open"} =>
          o.rec.server \in Nat /\ o.rec.server < sv
    /\ o.at = "split" => IsFiniteSet(o.counted) /\ Cardinality(o.counted) < MaxPanesPerWindow
    /\ o.cmd = "cleanup" /\ o.at \in {"refresh", "remove"} /\ (f \in Web \/ o.sid \notin InSource) =>
          o.sid \notin ds

OpsFit ==
    /\ op = [f \in Fronts |-> op[f]]
    /\ \A f \in Fronts : OpFits(f, op[f], server, dirs)

(* The record of a running agent is the newest of its pane. *)
OwnIsNewest ==
    \A s, t \in Sessions :
        Own(s) /\ file[t] # NoRecord /\ file[t].pane = file[s].pane =>
            file[t].updated <= file[s].updated

(* Who runs again, with a record of the server before, was resumed, and    *)
(* that record is about to go.                                             *)
ResumedIsRemoved ==
    \A s \in Sessions :
        Runs(s) /\ file[s] # NoRecord /\ file[s].server < server =>
            \E g \in Fronts : op[g].sid = s /\ op[g].at = "remove"

(* What prune is about to remove had no pane in its list, or was outdated  *)
(* when it was read and is no running agent's record until it is written   *)
(* again.                                                                  *)
PruneFits ==
    /\ PruneShape(prune)
    /\ prune.at = "remove" =>
        /\ prune.dedup \subseteq Sessions /\ prune.dead \subseteq Sessions
        /\ \A s \in prune.dead : prune.read[s].pane = NoPane \/ prune.read[s].pane \notin prune.live
        /\ \A s \in prune.dedup :
              /\ prune.read[s].updated \in Nat /\ prune.read[s].updated < clock
              /\ Own(s) => file[s].updated # prune.read[s].updated

LifeInv == PanesFit /\ FilesFit /\ OpsFit /\ OwnIsNewest /\ ResumedIsRemoved /\ PruneFits

-----------------------------------------------------------------------------
LEMMA IdleFits ==
    /\ Idle.at = "idle" /\ Idle.cmd = "none"
    /\ \A f, sv, ds : OpFits(f, Idle, sv, ds)
BY DEF Idle, OpFits, OpShape

LEMMA NoPruneFits == PruneShape(NoPrune) /\ NoPrune.at = "idle"
BY DEF NoPrune, PruneShape

LEMMA InitLifeInv == Init => LifeInv
<1> SUFFICES ASSUME Init PROVE LifeInv
  OBVIOUS
<1>1. Live = {} /\ Readable(file) = {}
  BY DEF Init, Live, Readable
<1>2. PanesFit
  BY <1>1, BoundAssumption DEF Init, PanesFit
<1>3. FilesFit
  BY <1>1 DEF Init, FilesFit
<1>4. OpsFit
  BY IdleFits DEF Init, OpsFit
<1>5. OwnIsNewest /\ ResumedIsRemoved
  BY <1>1 DEF OwnIsNewest, ResumedIsRemoved, Own, Runs
<1>6. PruneFits
  BY NoPruneFits DEF Init, PruneFits
<1> QED
  BY <1>2, <1>3, <1>4, <1>5, <1>6 DEF LifeInv

-----------------------------------------------------------------------------
(* What the commands may do: one of them takes a step.                     *)

LEMMA OpStep ==
    ASSUME OpsFit, PanesFit, server' \in Nat, server <= server', dirs' \subseteq dirs,
           NEW f \in Fronts, NEW o, OpFits(f, o, server', dirs'), Become(f, o)
    PROVE  OpsFit' /\ op'[f] = o /\ \A g \in Fronts \ {f} : op'[g] = op[g]
<1>1. op'[f] = o /\ op' = [g \in Fronts |-> op'[g]] /\ \A g \in Fronts \ {f} : op'[g] = op[g]
  BY DEF OpsFit, Become
<1>2. \A g \in Fronts \ {f} : OpFits(g, op[g], server', dirs')
  BY DEF OpsFit, OpFits, PanesFit
<1> QED
  BY <1>1, <1>2 DEF OpsFit

LEMMA OpsUnchanged ==
    ASSUME OpsFit, PanesFit, server' = server, dirs' \subseteq dirs, op' = op
    PROVE  OpsFit'
<1>1. \A g \in Fronts : OpFits(g, op[g], server', dirs')
  BY DEF OpsFit, OpFits, PanesFit
<1> QED
  BY <1>1 DEF OpsFit

(* The record such a command stands for, as its step changes it.           *)
LEMMA AtShape ==
    ASSUME NEW o, OpShape(o), NEW at, NEW n, n = [o EXCEPT !.at = at]
    PROVE  /\ OpShape(n) /\ n.at = at /\ n.cmd = o.cmd /\ n.sid = o.sid /\ n.rec = o.rec
           /\ n.window = o.window /\ n.counted = o.counted
BY DEF OpShape

LEMMA FinishFits ==
    ASSUME OpsFit, PanesFit, server' = server, dirs' \subseteq dirs, NEW f \in Fronts, Finish(f)
    PROVE  OpsFit' /\ op'[f] = Idle /\ \A g \in Fronts \ {f} : op'[g] = op[g]
BY IdleFits, OpStep DEF Finish, PanesFit

(* A step on, to where nothing new is claimed.                             *)
LEMMA StepFits ==
    ASSUME OpsFit, PanesFit, server' = server, dirs' \subseteq dirs, NEW f \in Fronts, NEW at, Step(f, at),
           at \in {"worktree", "pin"} \/ (at = "open" /\ op[f].at = "place")
    PROVE  OpsFit' /\ op'[f].at = at /\ \A g \in Fronts \ {f} : op'[g] = op[g]
<1> PICK n : n = [op[f] EXCEPT !.at = at]
  OBVIOUS
<1>1. OpFits(f, op[f], server, dirs)
  BY DEF OpsFit
<1>2. /\ OpShape(n) /\ n.at = at /\ n.cmd = op[f].cmd /\ n.sid = op[f].sid /\ n.rec = op[f].rec
  BY <1>1, AtShape DEF OpFits
<1>3. OpFits(f, n, server', dirs')
  BY <1>1, <1>2 DEF OpFits
<1>4. Become(f, n)
  BY DEF Step
<1>5. server' \in Nat /\ server <= server'
  BY DEF PanesFit
<1>6. OpsFit' /\ op'[f] = n /\ \A g \in Fronts \ {f} : op'[g] = op[g]
  BY <1>3, <1>4, <1>5, OpStep
<1> QED
  BY <1>2, <1>6

(* A cleanup that goes on has removed the worktree.                        *)
LEMMA RemoveNextFits ==
    ASSUME OpsFit, PanesFit, server' = server, dirs' \subseteq dirs, NEW f \in Fronts, RemoveNext(f),
           op[f].cmd # "cleanup" \/ op[f].at = "refresh"
    PROVE  /\ OpsFit' /\ op'[f].at = "remove" /\ op'[f].sid = op[f].sid
           /\ \A g \in Fronts \ {f} : op'[g] = op[g]
<1> PICK n : n = [Idle EXCEPT !.cmd = op[f].cmd, !.at = "remove", !.sid = op[f].sid]
  OBVIOUS
<1>1. OpFits(f, op[f], server, dirs)
  BY DEF OpsFit
<1>2. OpShape(n) /\ n.at = "remove" /\ n.cmd = op[f].cmd /\ n.sid = op[f].sid
  BY DEF Idle, OpShape
<1>3. OpFits(f, n, server', dirs')
  BY <1>1, <1>2 DEF OpFits
<1>4. Become(f, n)
  BY DEF RemoveNext
<1>5. server' \in Nat /\ server <= server'
  BY DEF PanesFit
<1>6. OpsFit' /\ op'[f] = n /\ \A g \in Fronts \ {f} : op'[g] = op[g]
  BY <1>3, <1>4, <1>5, OpStep
<1> QED
  BY <1>2, <1>6

-----------------------------------------------------------------------------
(* What else each step does, as far as panes, records and prune go.        *)

RemovesStay == \A g \in Fronts : op[g].at = "remove" => op'[g] = op[g]

Thinks == RemovesStay /\ UNCHANGED <<tmux, started, file, prune, clock>>

(* A pane is opened; who is resumed in it has a record about to go. *)
Opens ==
    /\ RemovesStay /\ UNCHANGED <<server, file, prune, clock>>
    /\ \E s \in Sessions \cup {NoSession} :
          /\ \E w : OpenPane(s, w)
          /\ s \in Sessions => \E f \in Fronts : op'[f].at = "remove" /\ op'[f].sid = s

Closes ==
    /\ RemovesStay /\ UNCHANGED <<server, opened, started, file, prune, clock>>
    /\ \E p \in Live : ClosePane(p)

Removes ==
    /\ UNCHANGED <<tmux, started, prune, clock>>
    /\ \E s \in Sessions \cup {NoSession} :
          /\ file' = [file EXCEPT ![s] = NoRecord]
          /\ \A g \in Fronts : op[g].at = "remove" /\ op[g].sid # s => op'[g] = op[g]

Pins ==
    /\ RemovesStay /\ UNCHANGED <<tmux, started, prune, clock>>
    /\ \E s \in Sessions : file[s] # NoRecord /\ file' = [file EXCEPT ![s].pin = "merged"]

LEMMA CommandKeeps ==
    ASSUME LifeInv, NEW f \in Fronts, NEW s \in Sessions \cup {NoSession}, NEW cmd,
           NEW at \in {"place", "check", "kill", "merge"}, Command(f, cmd, at, s),
           cmd = "resume" => at = "check",
           at = "check" => s \in Sessions /\ file[s] # NoRecord
    PROVE  OpsFit' /\ Thinks
<1>1. UNCHANGED <<tmux, started, file, dirs, prune, clock>> /\ op[f] = Idle /\ server' = server
  BY DEF Command, tmux
<1> PICK rec : rec = IF s = NoSession THEN NoRecord ELSE file[s]
  OBVIOUS
<1>2. PICK n, w : /\ n = [Idle EXCEPT !.cmd = cmd, !.at = at, !.sid = s, !.window = w, !.rec = rec]
                  /\ Become(f, n)
  BY DEF Command
<1>3. OpShape(n) /\ n.cmd = cmd /\ n.at = at /\ n.sid = s /\ n.rec = rec
  BY <1>2 DEF Idle, OpShape
<1>4. at = "check" => rec.server \in Nat /\ rec.server <= server
  BY SessionAssumption DEF LifeInv, FilesFit, Readable, RecordFits
<1>5. OpFits(f, n, server', dirs')
  BY <1>1, <1>3, <1>4 DEF OpFits
<1>6. server' \in Nat /\ server <= server'
  BY <1>1 DEF LifeInv, PanesFit
<1>7. OpsFit' /\ \A g \in Fronts \ {f} : op'[g] = op[g]
  BY <1>1, <1>2, <1>5, <1>6, OpStep DEF LifeInv
<1> QED
  BY <1>1, <1>7, IdleFits DEF Thinks, RemovesStay

LEMMA UserKeeps == ASSUME LifeInv, NEW f \in Fronts, User(f) PROVE OpsFit' /\ Thinks
<1>1. CASE StartCreate(f)
  BY <1>1, CommandKeeps DEF StartCreate
<1>2. ASSUME NEW s \in Sessions,
             StartResume(f, s) \/ StartClose(f, s) \/ StartMerge(f, s) \/ StartCleanup(f, s)
      PROVE  OpsFit' /\ Thinks
  BY <1>2, CommandKeeps DEF StartResume, StartClose, StartMerge, StartCleanup
<1> QED
  BY <1>1, <1>2 DEF User

LEMMA RemovesStayFact ==
    ASSUME NEW f \in Fronts, op[f].at # "remove", \A g \in Fronts \ {f} : op'[g] = op[g]
    PROVE  RemovesStay
BY DEF RemovesStay

LEMMA CheckKeeps == ASSUME LifeInv, NEW f \in Fronts, CheckOrphan(f) PROVE OpsFit' /\ Thinks
<1>1. /\ UNCHANGED <<tmux, started, file, dirs, prune, clock>> /\ op[f].at = "check"
      /\ server' = server /\ dirs' \subseteq dirs
  BY DEF CheckOrphan, tmux
<1>2. CASE Finish(f)
  BY <1>1, <1>2, FinishFits, RemovesStayFact DEF LifeInv, Thinks
<1>3. CASE Orphan(op[f].rec) /\ Step(f, "place")
  <2> PICK n : n = [op[f] EXCEPT !.at = "place"]
    OBVIOUS
  <2>1. OpFits(f, op[f], server, dirs)
    BY DEF LifeInv, OpsFit
  <2>2. OpShape(n) /\ n.at = "place" /\ n.cmd = op[f].cmd /\ n.sid = op[f].sid /\ n.rec = op[f].rec
    BY <2>1, AtShape DEF OpFits
  <2>3. op[f].rec.server # server
    BY <1>3 DEF Orphan, IsResumableOrphan
  <2>4. OpFits(f, n, server', dirs')
    BY <1>1, <2>1, <2>2, <2>3 DEF OpFits, LifeInv, PanesFit
  <2>5. Become(f, n) /\ server' \in Nat /\ server <= server'
    BY <1>1, <1>3 DEF Step, LifeInv, PanesFit
  <2>6. OpsFit' /\ \A g \in Fronts \ {f} : op'[g] = op[g]
    BY <1>1, <2>4, <2>5, OpStep DEF LifeInv
  <2> QED
    BY <1>1, <2>6, RemovesStayFact DEF Thinks
<1> QED
  BY <1>2, <1>3 DEF CheckOrphan

LEMMA PlaceKeeps == ASSUME LifeInv, NEW f \in Fronts, Place(f) PROVE OpsFit' /\ Thinks
<1>1. /\ UNCHANGED <<tmux, started, file, dirs, prune, clock>> /\ op[f].at = "place"
      /\ server' = server /\ dirs' \subseteq dirs
  BY DEF Place, tmux
<1> PICK in : in = PanesIn(op[f].window)
  OBVIOUS
<1>2. IsFiniteSet(in) /\ Cardinality(in) \in Nat
  <2>1. in \subseteq 1..opened
    BY DEF PanesIn, LifeInv, PanesFit
  <2>2. IsFiniteSet(1..opened)
    BY FS_Interval DEF LifeInv, PanesFit
  <2> QED
    BY <2>1, <2>2, FS_Subset, FS_CardinalityType
<1>3. \/ Step(f, "open") \/ Finish(f)
      \/ /\ Cardinality(in) < MaxPanesPerWindow
         /\ Become(f, [op[f] EXCEPT !.at = "split", !.counted = in])
  <2>1. CASE in = {}
    BY <2>1 DEF Place
  <2>2. CASE in # {} /\ Cardinality(in) >= MaxPanesPerWindow
    BY <2>2 DEF Place
  <2>3. CASE in # {} /\ ~(Cardinality(in) >= MaxPanesPerWindow)
    <3>1. Cardinality(in) < MaxPanesPerWindow
      BY <1>2, <2>3, BoundAssumption
    <3>2. Become(f, [op[f] EXCEPT !.at = "split", !.counted = in])
      BY <2>3 DEF Place
    <3> QED
      BY <3>1, <3>2
  <2> QED
    BY <2>1, <2>2, <2>3
<1>4. CASE Step(f, "open")
  BY <1>1, <1>4, StepFits, RemovesStayFact DEF LifeInv, Thinks
<1>5. CASE Finish(f)
  BY <1>1, <1>5, FinishFits, RemovesStayFact DEF LifeInv, Thinks
<1>6. CASE /\ Cardinality(in) < MaxPanesPerWindow
           /\ Become(f, [op[f] EXCEPT !.at = "split", !.counted = in])
  <2> PICK n : n = [op[f] EXCEPT !.at = "split", !.counted = in]
    OBVIOUS
  <2>1. OpFits(f, op[f], server, dirs)
    BY DEF LifeInv, OpsFit
  <2>2. /\ OpShape(n) /\ n.at = "split" /\ n.cmd = op[f].cmd /\ n.sid = op[f].sid /\ n.rec = op[f].rec
        /\ n.counted = in
    BY <2>1 DEF OpFits, OpShape
  <2>3. OpFits(f, n, server', dirs')
    BY <1>1, <1>2, <1>6, <2>1, <2>2 DEF OpFits
  <2>4. Become(f, n) /\ server' \in Nat /\ server <= server'
    BY <1>1, <1>6 DEF LifeInv, PanesFit
  <2>5. OpsFit' /\ \A g \in Fronts \ {f} : op'[g] = op[g]
    BY <1>1, <2>3, <2>4, OpStep DEF LifeInv
  <2> QED
    BY <1>1, <2>5, RemovesStayFact DEF Thinks
<1> QED
  BY <1>3, <1>4, <1>5, <1>6

LEMMA WorktreeKeeps ==
    ASSUME LifeInv, NEW f \in Fronts, RemoveWorktree(f) PROVE OpsFit' /\ Thinks
<1>1. /\ UNCHANGED <<tmux, started, file, prune, clock>> /\ op[f].at = "worktree"
      /\ server' = server /\ dirs' \subseteq dirs
  BY DEF RemoveWorktree, tmux
<1>2. CASE Finish(f)
  BY <1>1, <1>2, FinishFits, RemovesStayFact DEF LifeInv, Thinks
<1>3. CASE /\ Step(f, "refresh")
           /\ f \in Web \/ op[f].sid \notin InSource => op[f].sid \notin dirs'
  <2> PICK n : n = [op[f] EXCEPT !.at = "refresh"]
    OBVIOUS
  <2>1. OpFits(f, op[f], server, dirs)
    BY DEF LifeInv, OpsFit
  <2>2. OpShape(n) /\ n.at = "refresh" /\ n.cmd = op[f].cmd /\ n.sid = op[f].sid
    BY <2>1 DEF OpFits, OpShape
  <2>3. OpFits(f, n, server', dirs')
    BY <1>3, <2>1, <2>2 DEF OpFits
  <2>4. Become(f, n) /\ server' \in Nat /\ server <= server'
    BY <1>1, <1>3 DEF Step, LifeInv, PanesFit
  <2>5. OpsFit' /\ \A g \in Fronts \ {f} : op'[g] = op[g]
    BY <1>1, <2>3, <2>4, OpStep DEF LifeInv
  <2> QED
    BY <1>1, <2>5, RemovesStayFact DEF Thinks
<1> QED
  BY <1>2, <1>3, FrontAssumption DEF RemoveWorktree

LEMMA SplitGoneKeeps == ASSUME LifeInv, NEW f \in Fronts, SplitGone(f) PROVE OpsFit' /\ Thinks
BY FinishFits, RemovesStayFact DEF SplitGone, tmux, LifeInv, Thinks

LEMMA RefreshKeeps == ASSUME LifeInv, NEW f \in Fronts, RefreshSource(f) PROVE OpsFit' /\ Thinks
BY FinishFits, RemoveNextFits, RemovesStayFact DEF RefreshSource, tmux, LifeInv, Thinks

LEMMA MergeKeeps == ASSUME LifeInv, NEW f \in Fronts, MergePR(f) PROVE OpsFit' /\ Thinks
BY FinishFits, StepFits, RemovesStayFact DEF MergePR, tmux, LifeInv, Thinks

LEMMA SpawnKeeps ==
    ASSUME LifeInv, NEW f \in Fronts, Spawn(f) PROVE OpsFit' /\ (Thinks \/ Opens)
<1>1. /\ UNCHANGED <<server, file, dirs, prune, clock>> /\ op[f].at \in {"split", "open"}
      /\ dirs' \subseteq dirs
  BY DEF Spawn
<1>2. CASE Finish(f) /\ UNCHANGED <<opened, panes, started>>
  BY <1>1, <1>2, FinishFits, RemovesStayFact DEF LifeInv, Thinks, tmux
<1>3. ASSUME NEW w, w = IF op[f].at = "split" THEN op[f].window ELSE FreshWindow,
             OpenPane(Spawned(f), w),
             IF op[f].cmd = "resume" THEN RemoveNext(f) ELSE Finish(f)
      PROVE  OpsFit' /\ Opens
  <2>1. Spawned(f) \in Sessions \cup {NoSession}
    BY DEF Spawned, LifeInv, OpsFit, OpFits
  <2>2. /\ OpsFit' /\ \A g \in Fronts \ {f} : op'[g] = op[g]
        /\ Spawned(f) \in Sessions => op'[f].at = "remove" /\ op'[f].sid = Spawned(f)
    <3>1. CASE op[f].cmd = "resume"
      BY <1>1, <1>3, <3>1, RemoveNextFits, SessionAssumption DEF LifeInv, Spawned
    <3>2. CASE op[f].cmd # "resume"
      BY <1>1, <1>3, <3>2, FinishFits, SessionAssumption DEF LifeInv, Spawned
    <3> QED
      BY <3>1, <3>2
  <2> QED
    BY <1>1, <1>3, <2>1, <2>2, RemovesStayFact DEF Opens
<1> QED
  BY <1>2, <1>3 DEF Spawn

LEMMA KillKeeps ==
    ASSUME LifeInv, NEW f \in Fronts, Kill(f) PROVE OpsFit' /\ (Thinks \/ Closes)
<1>1. /\ UNCHANGED <<server, opened, started, file, dirs, prune, clock>> /\ op[f].at = "kill"
      /\ dirs' \subseteq dirs
      /\ panes' = panes \/ \E p \in Live : ClosePane(p)
  BY DEF Kill, Refuses
<1>2. Finish(f) \/ (op[f].cmd = "cleanup" /\ Step(f, "worktree"))
                \/ (op[f].cmd # "cleanup" /\ RemoveNext(f))
  BY DEF Kill, Refuses, AfterKill
<1>3. OpsFit' /\ \A g \in Fronts \ {f} : op'[g] = op[g]
  BY <1>1, <1>2, FinishFits, StepFits, RemoveNextFits DEF LifeInv
<1> QED
  BY <1>1, <1>3, RemovesStayFact DEF Thinks, Closes, tmux

LEMMA RemoveAgentKeeps ==
    ASSUME LifeInv, NEW f \in Fronts, RemoveAgent(f) PROVE OpsFit' /\ Removes
<1>1. OpsFit' /\ \A g \in Fronts \ {f} : op'[g] = op[g]
  BY FinishFits DEF RemoveAgent, tmux, LifeInv
<1>2. op[f].sid \in Sessions \cup {NoSession}
  BY DEF LifeInv, OpsFit, OpFits
<1> QED
  BY <1>1, <1>2 DEF RemoveAgent, Removes

LEMMA PinKeeps ==
    ASSUME LifeInv, NEW f \in Fronts, PinMerged(f) PROVE OpsFit' /\ (Thinks \/ Pins)
<1>1. OpsFit' /\ \A g \in Fronts \ {f} : op'[g] = op[g]
  BY FinishFits DEF PinMerged, tmux, LifeInv
<1>2. /\ UNCHANGED <<tmux, started, prune, clock>> /\ op[f].at = "pin"
  BY DEF PinMerged
<1>3. CASE file' = file
  BY <1>1, <1>2, <1>3, RemovesStayFact DEF Thinks
<1>4. CASE file' # file
  <2>1. file[op[f].sid] # NoRecord /\ file' = [file EXCEPT ![op[f].sid].pin = "merged"]
    BY <1>4 DEF PinMerged
  <2>2. op[f].sid \in Sessions
    BY <1>4, <2>1 DEF LifeInv, FilesFit
  <2> QED
    BY <1>1, <1>2, <2>1, <2>2, RemovesStayFact DEF Pins
<1> QED
  BY <1>3, <1>4

Kinds ==
    \/ Thinks \/ Opens \/ Closes \/ Removes \/ Pins
    \/ \E p \in Live : Report(p) \/ NewSession(p)
    \/ RestartServer \/ Tick \/ Prune

LEMMA RestartKeeps == ASSUME LifeInv, RestartServer PROVE OpsFit'
<1>1. /\ server' = server + 1 /\ server \in Nat /\ dirs' = dirs
      /\ op' = [f \in Fronts |-> IF f \in Tui THEN Idle ELSE op[f]]
  BY DEF RestartServer, LifeInv, PanesFit
<1>2. \A f \in Fronts : OpFits(f, op[f], server', dirs')
  BY <1>1 DEF LifeInv, OpsFit, OpFits
<1> QED
  BY <1>1, <1>2, IdleFits DEF OpsFit

LEMMA StepKinds == ASSUME LifeInv, [Next]_vars PROVE OpsFit' /\ Kinds
<1>1. CASE RestartServer
  BY <1>1, RestartKeeps DEF Kinds
<1>2. ASSUME NEW f \in Fronts, User(f) \/ FrontStep(f) PROVE OpsFit' /\ Kinds
  BY <1>2, UserKeeps, CheckKeeps, PlaceKeeps, SpawnKeeps, SplitGoneKeeps, KillKeeps, WorktreeKeeps,
     RefreshKeeps, RemoveAgentKeeps, MergeKeeps, PinKeeps DEF FrontStep, Kinds
<1>3. CASE OpenByHand
  <2>1. OpsFit'
    BY <1>3, OpsUnchanged DEF OpenByHand, LifeInv
  <2>2. Opens
    BY <1>3, SessionAssumption DEF OpenByHand, Opens, RemovesStay
  <2> QED
    BY <2>1, <2>2 DEF Kinds
<1>4. ASSUME NEW p \in Live, ExitPane(p) PROVE OpsFit' /\ Kinds
  <2>1. OpsFit'
    BY <1>4, OpsUnchanged DEF ExitPane, LifeInv
  <2>2. Closes
    BY <1>4 DEF ExitPane, Closes, RemovesStay
  <2> QED
    BY <2>1, <2>2 DEF Kinds
<1>5. ASSUME (\E s \in Sessions : ShipBranch(s)) \/ UNCHANGED vars PROVE OpsFit' /\ Kinds
  <2>1. /\ UNCHANGED <<tmux, started, file, prune, clock>>
        /\ server' = server /\ dirs' = dirs /\ op' = op
    BY <1>5 DEF ShipBranch, tmux, vars
  <2> QED
    BY <2>1, OpsUnchanged DEF LifeInv, Kinds, Thinks, RemovesStay
<1>6. ASSUME Tick \/ Prune \/ \E p \in Live : Report(p) \/ NewSession(p) PROVE OpsFit' /\ Kinds
  <2>1. server' = server /\ dirs' = dirs /\ op' = op
    BY <1>6 DEF Tick, Prune, PruneList, PruneRead, PruneRemove, PruneDone, Report, NewSession, tmux
  <2> QED
    BY <1>6, <2>1, OpsUnchanged DEF LifeInv, Kinds
<1> QED
  BY <1>1, <1>2, <1>3, <1>4, <1>5, <1>6 DEF Next, Environment

-----------------------------------------------------------------------------
(* Panes.                                                                  *)

LEMMA OpenFits ==
    ASSUME PanesFit, NEW s \in Sessions \cup {NoSession}, NEW w, OpenPane(s, w), server' = server
    PROVE  /\ PanesFit' /\ Live' = Live \cup {opened + 1} /\ opened + 1 \notin Live
           /\ panes'[opened + 1].sid = s /\ panes'[opened + 1].window = w
           /\ \A p \in Live : panes'[p] = panes[p]
           /\ started \subseteq started' /\ opened' = opened + 1
<1> PICK new : new = [sid |-> s, window |-> w]
  OBVIOUS
<1>1. /\ opened < MaxPane /\ opened' = opened + 1 /\ opened + 1 \notin Live
      /\ panes' = [p \in Live \cup {opened + 1} |-> IF p = opened + 1 THEN new ELSE panes[p]]
      /\ started' = started \cup ({s} \cap Sessions)
  BY DEF OpenPane, PanesFit
<1>2. Live' = Live \cup {opened + 1}
  BY <1>1 DEF Live
<1>3. \A p \in Live : panes'[p] = panes[p] /\ p # opened + 1
  BY <1>1
<1>4. panes'[opened + 1] = new /\ new.sid = s /\ new.window = w /\ PaneShape(new)
  BY <1>1 DEF PaneShape
<1>5. PanesFit'
  <2>1. /\ server' \in Nat /\ opened' \in Nat /\ opened' <= MaxPane /\ started' \subseteq Sessions
        /\ Live' \subseteq 1..opened'
    BY <1>1, <1>2, BoundAssumption DEF PanesFit
  <2>2. panes' = [p \in Live' |-> panes'[p]]
    BY <1>1, <1>2
  <2>3. \A p \in Live' : PaneShape(panes'[p]) /\ panes'[p].sid \in started' \cup {NoSession}
    BY <1>1, <1>2, <1>3, <1>4 DEF PanesFit
  <2> QED
    BY <2>1, <2>2, <2>3 DEF PanesFit
<1> QED
  BY <1>1, <1>2, <1>3, <1>4, <1>5

LEMMA CloseFits ==
    ASSUME PanesFit, NEW p, ClosePane(p), UNCHANGED <<server, opened, started>>
    PROVE  PanesFit' /\ Live' = Live \ {p} /\ \A q \in Live' : panes'[q] = panes[q]
<1>1. panes' = [q \in Live \ {p} |-> panes[q]]
  BY DEF ClosePane
<1>2. Live' = Live \ {p} /\ \A q \in Live' : panes'[q] = panes[q]
  BY <1>1 DEF Live
<1> QED
  BY <1>1, <1>2 DEF PanesFit

(* Another session in pane p, which has left no record.                    *)
LEMMA NewSessionFits ==
    ASSUME LifeInv, NEW p \in Live, NewSession(p)
    PROVE  /\ PanesFit' /\ Live' = Live /\ \A q \in Live \ {p} : panes'[q] = panes[q]
           /\ panes'[p].sid \in Sessions /\ file[panes'[p].sid] = NoRecord
           /\ started \subseteq started'
<1> PICK s \in Sessions \ started : panes' = [panes EXCEPT ![p].sid = s] /\ started' = started \cup {s}
  BY DEF NewSession
<1>1. UNCHANGED <<server, opened>> /\ PaneShape(panes[p])
  BY DEF NewSession, LifeInv, PanesFit
<1> PICK new : new = [sid |-> s, window |-> panes[p].window]
  OBVIOUS
<1>2. [panes[p] EXCEPT !.sid = s] = new
  BY <1>1 DEF PaneShape
<1>3. panes' = [panes EXCEPT ![p] = new]
  BY <1>2
<1>4. /\ Live' = Live /\ panes' = [q \in Live |-> panes'[q]] /\ panes'[p] = new
      /\ \A q \in Live \ {p} : panes'[q] = panes[q]
  BY <1>3 DEF Live, LifeInv, PanesFit
<1>5. new.sid = s /\ PaneShape(new)
  BY DEF PaneShape
<1>6. PanesFit'
  BY <1>1, <1>4, <1>5 DEF LifeInv, PanesFit
<1> QED
  BY <1>4, <1>5, <1>6 DEF LifeInv, FilesFit, Readable

LEMMA RestartFits ==
    ASSUME PanesFit, RestartServer
    PROVE  PanesFit' /\ Live' = {} /\ server' = server + 1
<1>1. /\ server' = server + 1 /\ opened' = 0 /\ panes' = [p \in {} |-> NoSession] /\ started' = started
  BY DEF RestartServer
<1>2. Live' = {}
  BY <1>1 DEF Live
<1>3. panes' = [p \in Live' |-> panes'[p]]
  BY <1>1, <1>2
<1> QED
  BY <1>1, <1>2, <1>3, BoundAssumption DEF PanesFit

LEMMA PanesKept == ASSUME LifeInv, Kinds PROVE PanesFit'
<1>1. CASE UNCHANGED <<tmux, started>>
  BY <1>1 DEF tmux, LifeInv, PanesFit, Live
<1>2. CASE Opens
  BY <1>2, OpenFits DEF Opens, LifeInv
<1>3. CASE Closes
  BY <1>3, CloseFits DEF Closes, LifeInv
<1>4. ASSUME NEW p \in Live, NewSession(p) PROVE PanesFit'
  BY <1>4, NewSessionFits
<1>5. CASE RestartServer
  BY <1>5, RestartFits DEF LifeInv
<1> QED
  BY <1>1, <1>2, <1>3, <1>4, <1>5
  DEF Kinds, Thinks, Removes, Pins, Report, Tick, Prune, PruneList, PruneRead, PruneRemove, PruneDone

-----------------------------------------------------------------------------
(* Records.                                                                *)

LEMMA SameFilesFit ==
    ASSUME PanesFit, PanesFit', FilesFit, file' = file, started \subseteq started',
           clock' \in Nat, clock <= clock',
           (server' = server /\ opened <= opened') \/ server' = server + 1
    PROVE  FilesFit'
<1>1. ASSUME NEW s \in Readable(file)
      PROVE  s \in started' /\ RecordFits(file[s], server', opened', clock')
  <2>1. s \in started /\ RecordFits(file[s], server, opened, clock)
    BY DEF FilesFit
  <2>2. CASE server' = server /\ opened <= opened'
    BY <2>1, <2>2 DEF RecordFits, PanesFit, FilesFit
  <2>3. CASE server' = server + 1
    BY <2>1, <2>3 DEF RecordFits, PanesFit, FilesFit
  <2> QED
    BY <2>1, <2>2, <2>3
<1> QED
  BY <1>1 DEF FilesFit

LEMMA RemovedFits ==
    ASSUME FilesFit, NEW s, file' = [file EXCEPT ![s] = NoRecord],
           UNCHANGED <<server, opened, started, clock>>
    PROVE  /\ FilesFit' /\ \A t \in Sessions : file'[t] \in {file[t], NoRecord}
           /\ \A t \in Sessions \ {s} : file'[t] = file[t]
           /\ s \in Sessions => file'[s] = NoRecord
BY DEF FilesFit, Readable

LEMMA PinnedFits ==
    ASSUME FilesFit, NEW s \in Sessions, file[s] # NoRecord, file' = [file EXCEPT ![s].pin = "merged"],
           UNCHANGED <<server, opened, started, clock>>
    PROVE  /\ FilesFit'
           /\ \A t \in Sessions \ {s} : file'[t] = file[t]
           /\ file'[s].pane = file[s].pane /\ file'[s].server = file[s].server
           /\ file'[s].updated = file[s].updated
<1> PICK r : r = [file[s] EXCEPT !.pin = "merged"]
  OBVIOUS
<1>1. RecordFits(file[s], server, opened, clock) /\ s \in started
  BY DEF FilesFit, Readable
<1>2. RecordShape(r) /\ r.pane = file[s].pane /\ r.server = file[s].server /\ r.updated = file[s].updated
  BY <1>1 DEF RecordFits, RecordShape
<1>3. RecordFits(r, server, opened, clock)
  BY <1>1, <1>2 DEF RecordFits
<1>4. file' = [file EXCEPT ![s] = r]
  OBVIOUS
<1>5. file' = [t \in Sessions |-> file'[t]] /\ file'[s] = r /\ \A t \in Sessions \ {s} : file'[t] = file[t]
  BY <1>4 DEF FilesFit
<1>6. FilesFit'
  BY <1>1, <1>3, <1>5 DEF FilesFit, Readable
<1> QED
  BY <1>2, <1>5, <1>6

LEMMA ReportFits ==
    ASSUME LifeInv, NEW p \in Live, Report(p)
    PROVE  \E s \in Sessions :
              /\ s = panes[p].sid
              /\ FilesFit' /\ \A t \in Sessions \ {s} : file'[t] = file[t]
              /\ file'[s].pane = p /\ file'[s].server = server /\ file'[s].updated = clock
<1> PICK s : s = panes[p].sid
  OBVIOUS
<1>0. s # NoSession /\ UNCHANGED <<server, opened, started, clock>>
  BY DEF Report, tmux
<1>1. s \in started /\ s \in Sessions /\ p \in 1..opened
  BY <1>0 DEF LifeInv, PanesFit
<1>a. PICK pin : pin = IF file[s] = NoRecord THEN "" ELSE file[s].pin
  OBVIOUS
<1>b. PICK state \in States : file' = [file EXCEPT ![s] = Record(s, p, state, pin)]
  BY <1>a DEF Report
<1>2. PICK r : r = Record(s, p, state, pin) /\ file' = [file EXCEPT ![s] = r]
  BY <1>b
<1>3. RecordShape(r) /\ r.pane = p /\ r.server = server /\ r.updated = clock
  BY <1>2 DEF Record, RecordShape
<1>4. RecordFits(r, server, opened, clock)
  BY <1>1, <1>3 DEF RecordFits, LifeInv, PanesFit, FilesFit
<1>5. file' = [t \in Sessions |-> file'[t]] /\ file'[s] = r /\ \A t \in Sessions \ {s} : file'[t] = file[t]
  BY <1>1, <1>2 DEF LifeInv, FilesFit
<1>6. FilesFit'
  BY <1>0, <1>1, <1>4, <1>5 DEF LifeInv, FilesFit, Readable
<1> QED
  BY <1>1, <1>3, <1>5, <1>6

LEMMA FilesKept == ASSUME LifeInv, PanesFit', Kinds PROVE FilesFit'
<1>1. CASE Thinks
  BY <1>1, SameFilesFit DEF Thinks, tmux, LifeInv, PanesFit, FilesFit
<1>2. CASE Opens
  BY <1>2, OpenFits, SameFilesFit DEF Opens, LifeInv, PanesFit, FilesFit
<1>3. CASE Closes
  BY <1>3, SameFilesFit DEF Closes, LifeInv, PanesFit, FilesFit
<1>4. ASSUME NEW p \in Live, NewSession(p) PROVE FilesFit'
  BY <1>4, NewSessionFits, SameFilesFit DEF NewSession, LifeInv, PanesFit, FilesFit
<1>5. CASE RestartServer
  BY <1>5, SameFilesFit DEF RestartServer, LifeInv, PanesFit, FilesFit
<1>6. CASE Tick \/ PruneList \/ PruneRead \/ PruneDone
  <2>1. clock' \in Nat /\ clock <= clock'
    BY <1>6 DEF Tick, PruneList, PruneRead, PruneDone, LifeInv, FilesFit
  <2> QED
    BY <1>6, <2>1, SameFilesFit DEF Tick, PruneList, PruneRead, PruneDone, tmux, LifeInv, PanesFit
<1>7. CASE Removes \/ \E s \in Sessions : PruneRemove(s)
  BY <1>7, RemovedFits DEF Removes, PruneRemove, tmux, LifeInv
<1>8. CASE Pins
  BY <1>8, PinnedFits DEF Pins, tmux, LifeInv
<1>9. ASSUME NEW p \in Live, Report(p) PROVE FilesFit'
  BY <1>9, ReportFits
<1> QED
  BY <1>1, <1>2, <1>3, <1>4, <1>5, <1>6, <1>7, <1>8, <1>9 DEF Kinds, Prune

-----------------------------------------------------------------------------
(* A record is what it was, but for its pin, or its session reports; a     *)
(* session that runs where its record says did so before, or reports.      *)

Rewrites(s) == \E p \in Live : Report(p) /\ panes[p].sid = s

SameRecord(s) ==
    /\ file[s] # NoRecord /\ file'[s].pane = file[s].pane /\ file'[s].server = file[s].server
    /\ file'[s].updated = file[s].updated

LEMMA RecordAfter ==
    ASSUME LifeInv, Kinds, NEW s \in Sessions, file'[s] # NoRecord
    PROVE  Rewrites(s) \/ SameRecord(s)
<1>1. CASE file' = file
  BY <1>1 DEF SameRecord
<1>2. CASE Removes \/ \E t \in Sessions : PruneRemove(t)
  BY <1>2, RemovedFits DEF Removes, PruneRemove, tmux, LifeInv, SameRecord
<1>3. CASE Pins
  BY <1>3, PinnedFits DEF Pins, tmux, LifeInv, SameRecord
<1>4. ASSUME NEW p \in Live, Report(p) PROVE Rewrites(s) \/ SameRecord(s)
  BY <1>4, ReportFits DEF Rewrites, SameRecord
<1> QED
  BY <1>1, <1>2, <1>3, <1>4 DEF Kinds, Thinks, Opens, Closes, NewSession, RestartServer, Tick, Prune,
     PruneList, PruneRead, PruneDone

LEMMA OwnAfter ==
    ASSUME LifeInv, PanesFit', Kinds, NEW s \in Sessions, Own(s)'
    PROVE  Rewrites(s) \/ (Own(s) /\ SameRecord(s))
<1> SUFFICES ASSUME ~Rewrites(s) PROVE Own(s) /\ SameRecord(s)
  OBVIOUS
<1>1. SameRecord(s)
  BY RecordAfter DEF Own
<1>2. /\ file'[s].server = server' /\ file'[s].pane \in Live' /\ panes'[file'[s].pane].sid = s
      /\ file[s] # NoRecord
  BY <1>1 DEF Own, SameRecord
<1>3. RecordFits(file[s], server, opened, clock)
  BY <1>1 DEF SameRecord, LifeInv, FilesFit, Readable
<1> PICK p : p = file[s].pane
  OBVIOUS
<1>4. p \in Live' /\ panes'[p].sid = s /\ file[s].server = server'
  BY <1>1, <1>2 DEF SameRecord
<1>5. server' = server /\ p \in Live /\ panes[p].sid = s
  <2>1. CASE UNCHANGED tmux
    BY <1>4, <2>1 DEF tmux, Live
  <2>2. CASE Opens
    <3>1. server' = server
      BY <2>2 DEF Opens
    <3>2. p \in 1..opened
      BY <1>3, <1>4, <3>1 DEF RecordFits
    <3>3. p # opened + 1
      BY <3>2 DEF LifeInv, PanesFit
    <3> QED
      BY <1>4, <2>2, <3>1, <3>3, OpenFits DEF Opens, LifeInv
  <2>3. CASE Closes
    BY <1>4, <2>3, CloseFits DEF Closes, LifeInv
  <2>4. ASSUME NEW q \in Live, NewSession(q) PROVE <1>5!:
    <3>1. server' = server /\ Live' = Live
      BY <2>4, NewSessionFits DEF NewSession
    <3>2. p # q
      BY <1>1, <1>4, <2>4, NewSessionFits DEF SameRecord
    <3> QED
      BY <1>4, <2>4, <3>1, <3>2, NewSessionFits
  <2>5. CASE RestartServer
    BY <1>4, <2>5, RestartFits DEF LifeInv
  <2> QED
    BY <2>1, <2>2, <2>3, <2>4, <2>5
    DEF Kinds, Thinks, Removes, Pins, Report, Tick, Prune, PruneList, PruneRead, PruneRemove, PruneDone
<1> QED
  BY <1>1, <1>4, <1>5 DEF Own, SameRecord

LEMMA NewestKept == ASSUME LifeInv, PanesFit', FilesFit', Kinds PROVE OwnIsNewest'
<1> SUFFICES ASSUME NEW s \in Sessions, NEW t \in Sessions, Own(s)', file'[t] # NoRecord,
                    file'[t].pane = file'[s].pane
             PROVE  file'[t].updated <= file'[s].updated
  BY DEF OwnIsNewest
<1>1. CASE Rewrites(s)
  <2>1. PICK p \in Live : Report(p) /\ panes[p].sid = s
    BY <1>1 DEF Rewrites
  <2>3. file'[s].updated = clock /\ clock' = clock
    BY <2>1, ReportFits DEF Report
  <2>2. RecordFits(file'[t], server', opened', clock')
    BY DEF FilesFit, Readable
  <2> QED
    BY <2>2, <2>3 DEF RecordFits
<1>2. CASE ~Rewrites(s) /\ SameRecord(t)
  <2>1. Own(s) /\ SameRecord(s)
    BY <1>2, OwnAfter
  <2> QED
    BY <1>2, <2>1 DEF SameRecord, LifeInv, OwnIsNewest
<1>3. CASE ~Rewrites(s) /\ Rewrites(t)
  <2>1. Own(s) /\ SameRecord(s)
    BY <1>3, OwnAfter
  <2>2. PICK p \in Live : Report(p) /\ panes[p].sid = t
    BY <1>3 DEF Rewrites
  <2>3. file'[t].pane = p
    BY <2>2, ReportFits
  <2>4. panes[p].sid = s
    BY <2>1, <2>3 DEF Own, SameRecord
  <2> QED
    BY <1>3, <2>2, <2>4
<1> QED
  BY <1>1, <1>2, <1>3, RecordAfter

LEMMA ResumedKept == ASSUME LifeInv, PanesFit', FilesFit', Kinds PROVE ResumedIsRemoved'
<1> SUFFICES ASSUME NEW s \in Sessions, NEW p \in Live', panes'[p].sid = s, file'[s] # NoRecord,
                    file'[s].server < server'
             PROVE  \E g \in Fronts : op'[g].sid = s /\ op'[g].at = "remove"
  BY DEF ResumedIsRemoved, Runs
<1>1. ~RestartServer
  BY RestartFits DEF LifeInv
<1>2. server' = server /\ server \in Nat
  BY <1>1 DEF LifeInv, PanesFit, Kinds, Thinks, Opens, Closes, Removes, Pins, Report, NewSession, Tick,
     Prune, PruneList, PruneRead, PruneRemove, PruneDone, tmux
<1>3. SameRecord(s)
  <2>1. ~Rewrites(s)
    BY <1>2, ReportFits DEF Rewrites
  <2> QED
    BY <2>1, RecordAfter
<1>4. CASE Runs(s)
  <2>1. PICK g \in Fronts : op[g].sid = s /\ op[g].at = "remove"
    BY <1>2, <1>3, <1>4 DEF LifeInv, ResumedIsRemoved, SameRecord
  <2>2. op'[g] = op[g]
    <3>1. CASE RemovesStay
      BY <2>1, <3>1 DEF RemovesStay
    <3>2. CASE Removes
      BY <2>1, <3>2, RemovedFits DEF Removes, tmux, LifeInv
    <3>3. CASE op' = op
      BY <3>3
    <3> QED
      BY <1>1, <3>1, <3>2, <3>3 DEF Kinds, Thinks, Opens, Closes, Pins, Report, NewSession, Tick, Prune,
         PruneList, PruneRead, PruneRemove, PruneDone
  <2> QED
    BY <2>1, <2>2
<1>5. CASE ~Runs(s)
  <2>1. CASE Opens
    <3>1. PICK r \in Sessions \cup {NoSession} :
                  /\ \E w : OpenPane(r, w)
                  /\ r \in Sessions => \E f \in Fronts : op'[f].at = "remove" /\ op'[f].sid = r
      BY <2>1 DEF Opens
    <3>2. p = opened + 1 /\ r = s
      BY <1>2, <1>5, <3>1, OpenFits DEF Runs, LifeInv
    <3> QED
      BY <3>1, <3>2
  <2>2. ASSUME NEW q \in Live, NewSession(q) PROVE FALSE
    BY <1>3, <1>5, <2>2, NewSessionFits DEF Runs, SameRecord
  <2>3. CASE Closes
    BY <1>5, <2>3, CloseFits DEF Closes, Runs, LifeInv
  <2>4. CASE UNCHANGED tmux
    BY <1>5, <2>4 DEF tmux, Runs, Live
  <2> QED
    BY <1>1, <2>1, <2>2, <2>3, <2>4
    DEF Kinds, Thinks, Removes, Pins, Report, Tick, Prune, PruneList, PruneRead, PruneRemove, PruneDone
<1> QED
  BY <1>4, <1>5

-----------------------------------------------------------------------------
(* Prune.                                                                  *)

(* What PruneDead takes for dead has no pane in the list; of what it drops *)
(* as outdated there is a newer record of the same pane.                   *)
LEMMA RemovalsFact ==
    ASSUME NEW files, NEW live, NEW pid, NEW now, NEW ds, NEW merged, NEW r,
           r = PruneRemovals(files, live, pid, now, ds, merged)
    PROVE  /\ r.dedup \subseteq DOMAIN files /\ r.dead \subseteq DOMAIN files
           /\ \A s \in r.dead : files[s].pane = NoPane \/ files[s].pane \notin live
           /\ \A s \in r.dedup :
                 \E t \in DOMAIN files :
                    files[t].pane = files[s].pane /\ files[s].updated < files[t].updated
<1>1. DedupPaths(files) \subseteq DOMAIN files
  BY DEF DedupPaths
<1>2. DeadPaths(files, live, pid, now, ds, merged) \subseteq DOMAIN files
  BY DEF DeadPaths
<1>3. /\ r.dedup = DedupPaths(files)
      /\ r.dead \subseteq DeadPaths(files, live, pid, now, ds, merged)
  BY DEF PruneRemovals
<1>4. \A s \in r.dead : files[s].pane = NoPane \/ files[s].pane \notin live
  BY <1>3 DEF DeadPaths
<1>5. \A s \in r.dedup :
         \E t \in DOMAIN files : files[t].pane = files[s].pane /\ files[s].updated < files[t].updated
  BY <1>3 DEF DedupPaths
<1> QED
  BY <1>1, <1>2, <1>3, <1>4, <1>5

LEMMA ReadFits == ASSUME LifeInv, PruneRead PROVE PruneFits'
<1> PICK files : files = Files
  OBVIOUS
<1>1. /\ DOMAIN files = Readable(file) /\ Readable(file) \subseteq Sessions
      /\ \A s \in Readable(file) : files[s] = file[s] /\ file[s] # NoRecord
  BY DEF Files, Readable
<1> PICK r : r = PruneRemovals(files, prune.live, prune.server, clock, dirs, shipped)
  OBVIOUS
<1>2. /\ r.dedup \subseteq Readable(file) /\ r.dead \subseteq Readable(file)
      /\ \A s \in r.dead : file[s].pane = NoPane \/ file[s].pane \notin prune.live
      /\ \A s \in r.dedup :
            \E t \in Readable(file) : file[t].pane = file[s].pane /\ file[s].updated < file[t].updated
  BY <1>1, RemovalsFact
<1>3. /\ prune' = [prune EXCEPT !.at = "remove", !.read = [s \in r.dedup \cup r.dead |-> file[s]],
                                !.dedup = r.dedup, !.dead = r.dead]
      /\ UNCHANGED <<tmux, file, clock>>
  BY DEF PruneRead
<1> PICK read : read = [s \in r.dedup \cup r.dead |-> file[s]]
  OBVIOUS
<1>4. /\ PruneShape(prune') /\ prune'.live = prune.live /\ prune'.read = read
      /\ prune'.dedup = r.dedup /\ prune'.dead = r.dead
  BY <1>3 DEF LifeInv, PruneFits, PruneShape
<1>5. \A s \in r.dedup \cup r.dead : read[s] = file[s]
  OBVIOUS
<1>6. ASSUME NEW s \in r.dedup
      PROVE  file[s].updated \in Nat /\ file[s].updated < clock /\ ~Own(s)
  <2>1. PICK t \in Readable(file) : file[t].pane = file[s].pane /\ file[s].updated < file[t].updated
    BY <1>2
  <2>2. RecordFits(file[s], server, opened, clock) /\ RecordFits(file[t], server, opened, clock)
    BY <1>2 DEF LifeInv, FilesFit
  <2>3. ~(file[t].updated <= file[s].updated)
    BY <2>1, <2>2 DEF RecordFits
  <2>4. ~Own(s)
    BY <1>1, <1>2, <2>1, <2>3 DEF LifeInv, OwnIsNewest
  <2> QED
    BY <2>1, <2>2, <2>4 DEF RecordFits, LifeInv, FilesFit
<1>7. \A s \in Sessions : Own(s)' => Own(s)
  BY <1>3 DEF Own, tmux, Live
<1> QED
  BY <1>1, <1>2, <1>3, <1>4, <1>5, <1>6, <1>7 DEF PruneFits

LEMMA SamePruneFits ==
    ASSUME LifeInv, PanesFit', FilesFit', Kinds, prune' = prune, clock <= clock'
    PROVE  PruneFits'
<1> SUFFICES ASSUME prune.at = "remove"
             PROVE  \A s \in prune.dedup :
                       /\ prune.read[s].updated \in Nat /\ prune.read[s].updated < clock'
                       /\ Own(s)' => file'[s].updated # prune.read[s].updated
  BY DEF LifeInv, PruneFits
<1> TAKE s \in prune.dedup
<1>1. /\ s \in Sessions /\ prune.read[s].updated \in Nat /\ prune.read[s].updated < clock
      /\ Own(s) => file[s].updated # prune.read[s].updated
  BY DEF LifeInv, PruneFits
<1>2. clock \in Nat /\ clock' \in Nat
  BY DEF LifeInv, FilesFit
<1>3. ASSUME Own(s)' PROVE file'[s].updated # prune.read[s].updated
  <2>1. CASE Rewrites(s)
    <3>1. file'[s].updated = clock
      BY <2>1, ReportFits DEF Rewrites
    <3> QED
      BY <1>1, <1>2, <3>1
  <2>2. CASE Own(s) /\ SameRecord(s)
    BY <1>1, <2>2 DEF SameRecord
  <2> QED
    BY <1>1, <1>3, <2>1, <2>2, OwnAfter
<1> QED
  BY <1>1, <1>2, <1>3

LEMMA RemoveFits == ASSUME LifeInv, NEW s \in Sessions, PruneRemove(s) PROVE PruneFits'
<1>1. /\ prune.at = "remove" /\ UNCHANGED <<tmux, clock, started>>
      /\ prune' = [prune EXCEPT !.dedup = @ \ {s}, !.dead = @ \ {s}]
  BY DEF PruneRemove
<1>2. /\ PruneShape(prune') /\ prune'.live = prune.live /\ prune'.read = prune.read
      /\ prune'.dedup = prune.dedup \ {s} /\ prune'.dead = prune.dead \ {s}
  BY <1>1 DEF LifeInv, PruneFits, PruneShape
<1>3. \A t \in Sessions \ {s} : file'[t] = file[t]
  BY <1>1, RemovedFits DEF PruneRemove, tmux, LifeInv
<1>4. \A t \in Sessions \ {s} : Own(t)' => Own(t)
  BY <1>1, <1>3 DEF Own, tmux, Live
<1> QED
  BY <1>1, <1>2, <1>3, <1>4 DEF LifeInv, PruneFits

LEMMA PruneKept == ASSUME LifeInv, PanesFit', FilesFit', Kinds PROVE PruneFits'
<1>1. CASE prune' = NoPrune
  BY <1>1, NoPruneFits DEF PruneFits
<1>2. CASE PruneList
  <2>1. /\ prune' = [NoPrune EXCEPT !.at = "listed", !.server = server, !.live = Live \cup {OwnPane}]
    BY <1>2 DEF PruneList
  <2>2. PruneShape(prune') /\ prune'.at = "listed"
    BY <2>1 DEF NoPrune, PruneShape
  <2> QED
    BY <2>2 DEF PruneFits
<1>3. CASE PruneRead
  BY <1>3, ReadFits
<1>4. ASSUME NEW s \in Sessions, PruneRemove(s) PROVE PruneFits'
  BY <1>4, RemoveFits
<1>5. CASE prune' = prune
  <2>1. clock <= clock'
    <3>1. CASE Tick
      BY <3>1 DEF Tick, LifeInv, FilesFit
    <3>2. CASE UNCHANGED clock
      BY <3>2 DEF LifeInv, FilesFit
    <3>3. CASE Prune
      BY <3>2, <3>3 DEF Prune, PruneList, PruneRead, PruneRemove, PruneDone
    <3> QED
      BY <3>1, <3>2, <3>3 DEF Kinds, Thinks, Opens, Closes, Removes, Pins, Report, NewSession,
         RestartServer
  <2> QED
    BY <1>5, <2>1, SamePruneFits
<1> QED
  BY <1>1, <1>2, <1>3, <1>4, <1>5 DEF Kinds, Thinks, Opens, Closes, Removes, Pins, Report, NewSession,
     RestartServer, Tick, Prune, PruneDone

-----------------------------------------------------------------------------
LEMMA LifeInvHolds == Spec => []LifeInv
<1>1. LifeInv /\ [Next]_vars => LifeInv'
  <2> SUFFICES ASSUME LifeInv, [Next]_vars PROVE LifeInv'
    OBVIOUS
  <2>1. OpsFit' /\ Kinds
    BY StepKinds
  <2>2. PanesFit'
    BY <2>1, PanesKept
  <2>3. FilesFit'
    BY <2>1, <2>2, FilesKept
  <2> QED
    BY <2>1, <2>2, <2>3, NewestKept, ResumedKept, PruneKept DEF LifeInv
<1> QED
  BY <1>1, InitLifeInv, PTL DEF Spec

(* A cleanup drops the record of an agent only when its worktree is gone,  *)
(* whatever other requests and commands do between its steps, but for the  *)
(* TUI's cleanup of an agent launched in the repository (actions.go:       *)
(* 472-505, commands.go:1118-1176).                                        *)
THEOREM CleanupDropsLast == Spec => []CleanupDropsRecordLast
<1>1. LifeInv => CleanupDropsRecordLast
  BY DEF LifeInv, OpsFit, OpFits, CleanupDropsRecordLast
<1> QED
  BY <1>1, LifeInvHolds, PTL

(* However long the records that prune read are out of date when it comes  *)
(* to remove a file, whatever was started, closed, resumed or reported     *)
(* meanwhile and whether or not the tmux server counts its panes from the  *)
(* start again: what it removes of a running agent is younger than what it *)
(* looked at (state.go:709-720).                                           *)
THEOREM PruneSpares == Spec => PruneSparesLive
<1>1. ASSUME LifeInv, [Next]_vars, NEW s \in Sessions, Pruned(s), Own(s)
      PROVE  file[s].pane \notin prune.live \/ file[s] # prune.read[s]
  <2> SUFFICES ASSUME file[s] = prune.read[s] PROVE file[s].pane \notin prune.live
    OBVIOUS
  <2>1. prune.at = "remove"
    <3>1. CASE \E t \in Sessions : PruneRemove(t)
      BY <3>1 DEF PruneRemove
    <3>2. CASE prune' = prune \/ file' = file
      BY <1>1, <3>2 DEF Pruned
    <3> QED
      BY <1>1, <3>1, <3>2, StepKinds DEF Kinds, Thinks, Opens, Closes, Removes, Pins, Report, NewSession,
         RestartServer, Tick, Prune, PruneList, PruneRead, PruneDone
  <2>2. s \in prune.dedup \cup prune.dead
    BY <1>1 DEF Pruned
  <2>3. s \notin prune.dedup
    BY <1>1, <2>1 DEF LifeInv, PruneFits
  <2>4. file[s].pane # NoPane
    BY <1>1, PaneAssumption, BoundAssumption DEF Own, LifeInv, PanesFit
  <2> QED
    BY <1>1, <2>1, <2>2, <2>3, <2>4 DEF LifeInv, PruneFits
<1>2. LifeInv /\ [Next]_vars =>
         [\A s \in Sessions :
             Pruned(s) /\ Own(s) => file[s].pane \notin prune.live \/ file[s] # prune.read[s]]_vars
  BY <1>1
<1> QED
  BY <1>2, LifeInvHolds, PTL DEF Spec, PruneSparesLive

(* A resume that goes by the record as it is starts no second copy of a    *)
(* running session, however many resumes overlap, unless another one has   *)
(* started it and is about to remove that record (actions.go:715-717).     *)
THEOREM ResumeNoCopy == Spec => ResumeStartsNoCopy
<1>1. ASSUME LifeInv, [Next]_vars, NEW f \in Fronts, NEW s \in Sessions, Resumes(f, s), Runs(s),
             file[s] # NoRecord, file[s] = op[f].rec
      PROVE  \E g \in Fronts \ {f} : op[g].sid = s /\ op[g].at = "remove"
  <2>0. ~(DOMAIN panes' \subseteq Live) /\ op'[f] # op[f]
    BY <1>1 DEF Resumes
  <2>1. Spawn(f)
    <3>1. ~OpenByHand /\ ~RestartServer
      BY <1>1, <2>0, RestartFits DEF OpenByHand, LifeInv, Live
    <3>2. ASSUME NEW p \in Live, ExitPane(p) \/ NewSession(p) PROVE FALSE
      BY <1>1, <2>0, <3>2, CloseFits, NewSessionFits DEF ExitPane, LifeInv, Live
    <3>3. panes' # panes
      BY <2>0 DEF Live
    <3>4. ~Closes
      BY <1>1, <2>0, CloseFits DEF Closes, LifeInv, Live
    <3>5. PICK g \in Fronts : FrontStep(g)
      BY <1>1, <3>1, <3>2, <3>3, UserKeeps DEF Next, Environment, Prune, PruneList, PruneRead,
         PruneRemove, PruneDone, Report, ShipBranch, Tick, Thinks, tmux, vars
    <3>6. Spawn(g)
      BY <1>1, <3>3, <3>4, <3>5, CheckKeeps, PlaceKeeps, SplitGoneKeeps, KillKeeps, WorktreeKeeps,
         RefreshKeeps, RemoveAgentKeeps, MergeKeeps, PinKeeps
      DEF FrontStep, Thinks, Removes, Pins, tmux
    <3>7. \A h \in Fronts \ {g} : op'[h] = op[h]
      BY <1>1, <3>6 DEF Spawn, RemoveNext, Finish, Become, LifeInv, OpsFit
    <3> QED
      BY <2>0, <3>6, <3>7
  <2>2. op[f].at \in {"split", "open"}
    BY <2>1 DEF Spawn
  <2>3. file[s].server < server
    BY <1>1, <2>2 DEF Resumes, LifeInv, OpsFit, OpFits
  <2> QED
    BY <1>1, <2>2, <2>3 DEF LifeInv, ResumedIsRemoved
<1>2. LifeInv /\ [Next]_vars =>
         [\A f \in Fronts, s \in Sessions :
             Resumes(f, s) /\ Runs(s)
                 => \/ file[s] = NoRecord
                    \/ file[s] # op[f].rec
                    \/ \E g \in Fronts \ {f} : op[g].sid = s /\ op[g].at = "remove"]_vars
  BY <1>1
<1> QED
  BY <1>2, LifeInvHolds, PTL DEF Spec, ResumeStartsNoCopy

(* However many commands open panes at a time, one that splits a window    *)
(* which is full has not counted all the panes that are in it now          *)
(* (repowin.go:14-15).                                                     *)
THEOREM OverfullByOverlap == Spec => OverfullOnlyByOverlap
<1>1. ASSUME LifeInv, NEW f \in Fronts, op[f].at = "split",
             Cardinality(PanesIn(op[f].window)) >= MaxPanesPerWindow
      PROVE  ~(PanesIn(op[f].window) \subseteq op[f].counted)
  <2>1. /\ IsFiniteSet(op[f].counted) /\ Cardinality(op[f].counted) < MaxPanesPerWindow
    BY <1>1 DEF LifeInv, OpsFit, OpFits
  <2>2. ASSUME PanesIn(op[f].window) \subseteq op[f].counted PROVE FALSE
    <3>1. /\ Cardinality(PanesIn(op[f].window)) <= Cardinality(op[f].counted)
          /\ IsFiniteSet(PanesIn(op[f].window))
      BY <2>1, <2>2, FS_Subset
    <3>2. /\ Cardinality(PanesIn(op[f].window)) \in Nat /\ Cardinality(op[f].counted) \in Nat
      BY <2>1, <3>1, FS_CardinalityType
    <3> QED
      BY <1>1, <2>1, <3>1, <3>2, BoundAssumption
  <2> QED
    BY <2>2
<1>2. LifeInv /\ [Next]_vars =>
         [\A f \in Fronts :
             LET w == op[f].window
             IN  /\ op[f].at = "split" /\ w \in Windows
                 /\ \E p \in DOMAIN panes' \ Live : panes'[p].window = w
                 /\ Cardinality(PanesIn(w)) >= MaxPanesPerWindow
                 => ~(PanesIn(w) \subseteq op[f].counted)]_vars
  BY <1>1
<1> QED
  BY <1>2, LifeInvHolds, PTL DEF Spec, OverfullOnlyByOverlap

-----------------------------------------------------------------------------
(* What the dashboards type (AgentInput, the instance Input).               *)

Listed(s) == \E S : s \in Seq(S)

PromptShape(g) ==
    /\ g = [mode |-> g.mode, text |-> g.text, got |-> g.got, picker |-> g.picker]
    /\ g.mode \in {"idle", "busy", "asking"}
    /\ Listed(g.got)

(* A prompt, by its parts. *)
Prompt(mode, text, got, picker) == [mode |-> mode, text |-> text, got |-> got, picker |-> picker]

LEMMA PromptParts ==
    /\ \A g : PromptShape(g) => \E mode, text, got, picker : g = Prompt(mode, text, got, picker)
    /\ \A mode, text, got, picker :
           /\ Prompt(mode, text, got, picker).mode = mode
           /\ Prompt(mode, text, got, picker).text = text
           /\ Prompt(mode, text, got, picker).got = got
           /\ Prompt(mode, text, got, picker).picker = picker
           /\ PromptShape(Prompt(mode, text, got, picker))
                <=> mode \in {"idle", "busy", "asking"} /\ Listed(got)
<1> HIDE DEF Listed
<1> QED
  BY DEF PromptShape, Prompt

LEMMA GivenFact ==
    ASSUME NEW mode, NEW text, NEW got, NEW picker, NEW what
    PROVE  Input!Given(Prompt(mode, text, got, picker), what)
           = Prompt("busy", text, Append(got, what), None)
<1> PICK g, new, busy : g = Prompt(mode, text, got, picker) /\ new = Append(got, what) /\ busy = "busy"
  OBVIOUS
<1>1. PICK h : h = [g EXCEPT !.mode = busy]
  OBVIOUS
<1>2. PICK i : i = [h EXCEPT !.picker = None]
  OBVIOUS
<1>3. [g EXCEPT !.mode = busy, !.picker = None, !.got = new] = [i EXCEPT !.got = new]
  BY <1>1, <1>2
<1>4. h = Prompt(busy, text, got, picker)
  BY <1>1 DEF Prompt
<1>5. i = Prompt(busy, text, got, None)
  BY <1>2, <1>4 DEF Prompt
<1>6. [i EXCEPT !.got = new] = Prompt(busy, text, new, None)
  BY ONLY <1>5 DEF Prompt
<1>7. g.got = got
  BY PromptParts
<1> QED
  BY <1>3, <1>6, <1>7 DEF Input!Given

LEMMA AppendListed == ASSUME NEW s, Listed(s), NEW e PROVE Listed(Append(s, e))
<1>1. PICK S : s \in Seq(S)
  BY DEF Listed
<1>2. Append(s, e) \in Seq(S \cup {e})
  BY <1>1
<1> QED
  BY <1>2 DEF Listed

LEMMA GivenShape ==
    ASSUME NEW g, PromptShape(g), NEW what
    PROVE  PromptShape(Input!Given(g, what))
<1> PICK mode, text, got, picker : g = Prompt(mode, text, got, picker)
  BY PromptParts
<1>1. Listed(got)
  BY PromptParts
<1> QED
  BY <1>1, AppendListed, GivenFact, PromptParts

LEMMA ChangedShape ==
    ASSUME NEW g, PromptShape(g), NEW x, NEW md \in {"idle", "busy", "asking"}
    PROVE  /\ PromptShape([g EXCEPT !.picker = x])
           /\ PromptShape([g EXCEPT !.text = x])
           /\ PromptShape([g EXCEPT !.mode = md])
<1> PICK mode, text, got, picker : g = Prompt(mode, text, got, picker)
  BY PromptParts
<1>1. /\ [g EXCEPT !.picker = x] = Prompt(mode, text, got, x)
      /\ [g EXCEPT !.text = x] = Prompt(mode, x, got, picker)
      /\ [g EXCEPT !.mode = md] = Prompt(md, text, got, picker)
  BY DEF Prompt
<1>2. mode \in {"idle", "busy", "asking"} /\ Listed(got)
  BY PromptParts
<1> QED
  BY <1>1, <1>2, PromptParts

LEMMA LeftShape ==
    ASSUME NEW g, PromptShape(g), NEW x, NEW md \in {"idle", "busy", "asking"}
    PROVE  PromptShape([g EXCEPT !.mode = md, !.picker = x])
<1>1. PICK h : h = [g EXCEPT !.mode = md]
  OBVIOUS
<1>2. [g EXCEPT !.mode = md, !.picker = x] = [h EXCEPT !.picker = x]
  BY <1>1
<1> QED
  BY <1>1, <1>2, ChangedShape

LEMMA AnsweredShape ==
    ASSUME NEW a, NEW g, PromptShape(g), NEW ans
    PROVE  PromptShape(Input!Answered(a, g, ans))
BY GivenShape, ChangedShape DEF Input!Answered

(* Each key leaves the prompt a prompt. *)
LEMMA PressedShape ==
    ASSUME NEW a, NEW g, PromptShape(g), NEW key
    PROVE  PromptShape(Input!Pressed(a, g, key))
<1> DEFINE text == [g EXCEPT !.text = <<>>]
<1>1. PromptShape(text)
  BY ChangedShape
<1>2. \A x : PromptShape([g EXCEPT !.text = x]) /\ PromptShape([g EXCEPT !.picker = x])
  BY ChangedShape
<1>3. PromptShape([g EXCEPT !.mode = "idle"]) /\ PromptShape([g EXCEPT !.mode = "idle", !.picker = None])
  BY ChangedShape, LeftShape
<1>4. \A ans : PromptShape(Input!Answered(a, g, ans)) /\ PromptShape(Input!Given(g, ans)) /\ PromptShape(Input!Given(text, ans))
  BY <1>1, AnsweredShape, GivenShape
<1>5. [g EXCEPT !.picker.typed = <<>>] = [g EXCEPT !.picker = [g.picker EXCEPT !.typed = <<>>]]
  OBVIOUS
<1> HIDE DEF PromptShape
<1> QED
  BY <1>1, <1>2, <1>3, <1>4 DEF Input!Pressed

LEMMA TypedShape ==
    ASSUME NEW g, PromptShape(g), NEW ws
    PROVE  PromptShape(Input!Typed(g, ws))
BY ChangedShape DEF Input!Typed

LEMMA PressShape ==
    ASSUME NEW a, NEW g, PromptShape(g), NEW ks
    PROVE  PromptShape(Input!Press(a, g, ks))
BY PressedShape DEF Input!Press
-----------------------------------------------------------------------------
(* The keys of the pickers.                                                 *)

Picker(qs, answers, row, marks, typed) ==
    [qs |-> qs, answers |-> answers, row |-> row, marks |-> marks, typed |-> typed]

Picking(text, got, qs, answers, row, marks, typed) ==
    Prompt("asking", text, got, Picker(qs, answers, row, marks, typed))

LEMMA PickingParts ==
    ASSUME NEW text, NEW got, NEW qs, NEW answers, NEW row, NEW marks, NEW typed, NEW g,
           g = Picking(text, got, qs, answers, row, marks, typed)
    PROVE  /\ g.mode = "asking" /\ g.text = text /\ g.got = got
           /\ g.picker = Picker(qs, answers, row, marks, typed)
           /\ g.picker.qs = qs /\ g.picker.answers = answers /\ g.picker.row = row
           /\ g.picker.marks = marks /\ g.picker.typed = typed
BY DEF Picking, Prompt, Picker

(* A picker with another row, marks or note. *)
WithRow(g, x) == [g EXCEPT !.picker.row = x]

WithMarks(g, x) == [g EXCEPT !.picker.marks = x]

WithNote(g, x) == [g EXCEPT !.picker.typed = x]

LEMMA PickingChanged ==
    ASSUME NEW text, NEW got, NEW qs, NEW answers, NEW row, NEW marks, NEW typed, NEW g, NEW x,
           g = Picking(text, got, qs, answers, row, marks, typed)
    PROVE  /\ WithRow(g, x) = Picking(text, got, qs, answers, x, marks, typed)
           /\ WithMarks(g, x) = Picking(text, got, qs, answers, row, x, typed)
           /\ WithNote(g, x) = Picking(text, got, qs, answers, row, marks, x)
<1> PICK asking, k : asking = "asking" /\ k = Picker(qs, answers, row, marks, typed)
  OBVIOUS
<1>1. g = Prompt(asking, text, got, k)
  BY DEF Picking
<1>2. g.picker = k
  BY <1>1 DEF Prompt
<1>3. \A j : [g EXCEPT !.picker = j] = Prompt(asking, text, got, j)
  BY <1>1 DEF Prompt
<1>4. [k EXCEPT !.row = x] = Picker(qs, answers, x, marks, typed)
  BY ONLY k = Picker(qs, answers, row, marks, typed) DEF Picker
<1>5. [k EXCEPT !.marks = x] = Picker(qs, answers, row, x, typed)
  BY ONLY k = Picker(qs, answers, row, marks, typed) DEF Picker
<1>6. [k EXCEPT !.typed = x] = Picker(qs, answers, row, marks, x)
  BY ONLY k = Picker(qs, answers, row, marks, typed) DEF Picker
<1>7. /\ [g EXCEPT !.picker.row = x] = [g EXCEPT !.picker = [k EXCEPT !.row = x]]
      /\ [g EXCEPT !.picker.marks = x] = [g EXCEPT !.picker = [k EXCEPT !.marks = x]]
      /\ [g EXCEPT !.picker.typed = x] = [g EXCEPT !.picker = [k EXCEPT !.typed = x]]
  BY <1>2
<1> QED
  BY <1>3, <1>4, <1>5, <1>6, <1>7 DEF Picking, WithRow, WithMarks, WithNote

(* A question is answered; codex ends with the last. *)
LEMMA AnsweredFact ==
    ASSUME NEW a, NEW text, NEW got, NEW qs, NEW answers, NEW row, NEW marks, NEW typed, NEW ans
    PROVE  LET g == Picking(text, got, qs, answers, row, marks, typed)
               new == Append(answers, ans)
           IN  Input!Answered(a, g, ans) =
                   IF a \in OfCodex /\ Len(new) = Len(qs) THEN Prompt("busy", text, Append(got, new), None)
                   ELSE Picking(text, got, qs, new, 0, {}, None)
<1> PICK g, new : g = Picking(text, got, qs, answers, row, marks, typed) /\ new = Append(answers, ans)
  OBVIOUS
<1>1. g.picker.qs = qs /\ g.picker.answers = answers
  BY PickingParts
<1> PICK k, asking : k = Picker(qs, new, 0, {}, None) /\ asking = "asking"
  OBVIOUS
<1>2. [Input!Fresh(qs) EXCEPT !.answers = new] = k
  <2> PICK fresh : fresh = Input!Fresh(qs)
    OBVIOUS
  <2> PICK zero, empty, none, unmarked : zero = 0 /\ empty = <<>> /\ none = None /\ unmarked = {}
    OBVIOUS
  <2>1. fresh = Picker(qs, empty, zero, unmarked, none)
    BY DEF Input!Fresh, Picker
  <2>2. [fresh EXCEPT !.answers = new] = Picker(qs, new, zero, unmarked, none)
    BY ONLY <2>1 DEF Picker
  <2> QED
    BY <2>2
<1>3. k.answers = new /\ k.qs = qs
  BY DEF Picker
<1>4. [g EXCEPT !.picker = k] = Picking(text, got, qs, new, 0, {}, None)
  <2>1. g = Prompt(asking, text, got, Picker(qs, answers, row, marks, typed))
    BY DEF Picking
  <2>2. [g EXCEPT !.picker = k] = Prompt(asking, text, got, k)
    BY ONLY <2>1 DEF Prompt
  <2> QED
    BY <2>2 DEF Picking
<1>5. Input!Given(g, new) = Prompt("busy", text, Append(got, new), None)
  BY GivenFact DEF Picking
<1>6. Input!Answered(a, g, ans) =
          IF a \in OfCodex /\ Input!Submitted(k) THEN Input!Given(g, k.answers) ELSE [g EXCEPT !.picker = k]
  <2>1. k = [Input!Fresh(g.picker.qs) EXCEPT !.answers = Append(g.picker.answers, ans)]
    BY <1>1, <1>2
  <2> HIDE DEF Picker
  <2> QED
    BY ONLY <2>1 DEF Input!Answered
<1> QED
  BY <1>3, <1>4, <1>5, <1>6 DEF Input!Submitted

(* The question the picker is at. *)
Question(qs, answers) == qs[Len(answers) + 1]

Figures == <<"1", "2", "3", "4", "5", "6", "7", "8", "9">>

OtherKeys == {"Escape", "C-c", "C-u", "Enter", "Tab", "Down"}

LEMMA FigureFact ==
    /\ \A d \in 1..9 : Figures[d] \in Input!Digits /\ Figures[d] \notin OtherKeys /\ Figures[d] # "0"
    /\ \A d, n \in 1..9 : Figures[d] = Figures[n] => d = n
    /\ \A d \in 1..9 : Input!Itoa(d) = <<Figures[d]>>
<1>1. \A d \in 1..9 : d = 1 \/ d = 2 \/ d = 3 \/ d = 4 \/ d = 5 \/ d = 6 \/ d = 7 \/ d = 8 \/ d = 9
  OBVIOUS
<1>2. /\ Figures[1] = "1" /\ Figures[2] = "2" /\ Figures[3] = "3" /\ Figures[4] = "4" /\ Figures[5] = "5"
      /\ Figures[6] = "6" /\ Figures[7] = "7" /\ Figures[8] = "8" /\ Figures[9] = "9"
  BY DEF Figures
<1>3. ASSUME NEW d \in 1..9 PROVE Input!Itoa(d) = <<Figures[d]>>
  BY DEF Input!Itoa, Figures
<1>4. ASSUME NEW d \in 1..9
      PROVE  Figures[d] \in Input!Digits /\ Figures[d] \notin OtherKeys /\ Figures[d] # "0"
  BY <1>1, <1>2 DEF Input!Digits, OtherKeys
<1>5. ASSUME NEW d \in 1..9, NEW n \in 1..9, Figures[d] = Figures[n] PROVE d = n
  BY <1>1, <1>2, <1>5
<1> QED
  BY <1>3, <1>4, <1>5

LEMMA DigitFact ==
    ASSUME NEW d \in 1..9
    PROVE  Input!Digit(Figures[d]) = d
<1>1. \A n \in 0..9 : ((n > 0 /\ Input!Itoa(n) = <<Figures[d]>>) \/ (n = 0 /\ Figures[d] = "0")) <=> n = d
  <2> TAKE n \in 0..9
  <2>1. CASE n = 0
    BY <2>1, FigureFact
  <2>2. CASE n # 0
    <3>1. n \in 1..9
      BY <2>2
    <3>2. Input!Itoa(n) = <<Figures[n]>> /\ Input!Itoa(d) = <<Figures[d]>>
      BY <3>1, FigureFact
    <3>3. (<<Figures[n]>> = <<Figures[d]>>) <=> n = d
      <4> PICK x, y : x = Figures[n] /\ y = Figures[d]
        OBVIOUS
      <4>1. (<<x>> = <<y>>) <=> x = y
        OBVIOUS
      <4> QED
        BY <4>1, <3>1, FigureFact
    <3> QED
      BY <3>1, <3>2, <3>3
  <2> QED
    BY <2>1, <2>2
<1>2. Input!Digit(Figures[d]) = CHOOSE n \in 0..9 : n = d
  BY <1>1 DEF Input!Digit
<1> QED
  BY <1>2

(* What the keys do, at a question that is not the last one answered. *)
LEMMA CodexDown ==
    ASSUME NEW a \in OfCodex, NEW text, NEW got, NEW qs, NEW answers, NEW row, NEW marks, NEW typed,
           NEW g, g = Picking(text, got, qs, answers, row, marks, typed), Len(answers) # Len(qs),
           row < Question(qs, answers).options
    PROVE  Input!Pressed(a, g, "Down") = Picking(text, got, qs, answers, row + 1, marks, typed)
<1>1. /\ g.mode = "asking" /\ g.picker.qs = qs /\ g.picker.answers = answers /\ g.picker.row = row
      /\ g.picker.typed = typed
  BY PickingParts
<1>2. ~Input!Submitted(g.picker) /\ Input!At(g.picker) = Question(qs, answers)
  BY <1>1 DEF Input!Submitted, Input!At, Question
<1> HIDE DEF Question
<1>3. Input!Pressed(a, g, "Down") = WithRow(g, row + 1)
  BY <1>1, <1>2 DEF Input!Pressed, Input!Digits, WithRow, WithNote
<1>4. WithRow(g, row + 1) = Picking(text, got, qs, answers, row + 1, marks, typed)
  BY PickingChanged
<1> QED
  BY <1>3, <1>4

LEMMA CodexTab ==
    ASSUME NEW a \in OfCodex, NEW text, NEW got, NEW qs, NEW answers, NEW row, NEW marks, NEW typed,
           NEW g, g = Picking(text, got, qs, answers, row, marks, typed), Len(answers) # Len(qs), typed = None
    PROVE  Input!Pressed(a, g, "Tab") = Picking(text, got, qs, answers, row, marks, <<>>)
<1>1. /\ g.mode = "asking" /\ g.picker.qs = qs /\ g.picker.answers = answers /\ g.picker.row = row
      /\ g.picker.typed = typed
  BY PickingParts
<1>2. ~Input!Submitted(g.picker) /\ Input!At(g.picker) = Question(qs, answers)
  BY <1>1 DEF Input!Submitted, Input!At, Question
<1> HIDE DEF Question
<1>3. Input!Pressed(a, g, "Tab") = WithNote(g, <<>>)
  BY <1>1, <1>2 DEF Input!Pressed, Input!Digits, WithRow, WithNote
<1>4. WithNote(g, <<>>) = Picking(text, got, qs, answers, row, marks, <<>>)
  BY PickingChanged
<1> QED
  BY <1>3, <1>4

LEMMA CodexEnter ==
    ASSUME NEW a \in OfCodex, NEW text, NEW got, NEW qs, NEW answers, NEW row, NEW marks, NEW typed,
           NEW g, g = Picking(text, got, qs, answers, row, marks, typed), Len(answers) # Len(qs),
           typed = None
    PROVE  Input!Pressed(a, g, "Enter") = Input!Answered(a, g, Input!Choice({row}, <<>>))
<1>1. /\ g.mode = "asking" /\ g.picker.qs = qs /\ g.picker.answers = answers /\ g.picker.row = row
      /\ g.picker.typed = typed
  BY PickingParts
<1>2. ~Input!Submitted(g.picker) /\ Input!At(g.picker) = Question(qs, answers)
  BY <1>1 DEF Input!Submitted, Input!At, Question
<1> HIDE DEF Question
<1> QED
  BY <1>1, <1>2 DEF Input!Pressed, Input!Digits, WithRow, WithNote

LEMMA CodexNote ==
    ASSUME NEW a \in OfCodex, NEW text, NEW got, NEW qs, NEW answers, NEW row, NEW marks, NEW typed,
           NEW g, g = Picking(text, got, qs, answers, row, marks, typed), Len(answers) # Len(qs),
           typed # None, ~(row < Question(qs, answers).options)
    PROVE  Input!Pressed(a, g, "Enter") = Input!Answered(a, g, Input!Choice({}, typed))
<1>1. /\ g.mode = "asking" /\ g.picker.qs = qs /\ g.picker.answers = answers /\ g.picker.row = row
      /\ g.picker.typed = typed
  BY PickingParts
<1>2. ~Input!Submitted(g.picker) /\ Input!At(g.picker) = Question(qs, answers)
  BY <1>1 DEF Input!Submitted, Input!At, Question
<1> HIDE DEF Question
<1> QED
  BY <1>1, <1>2 DEF Input!Pressed, Input!Digits, WithRow, WithNote

LEMMA ClaudeKeys ==
    ASSUME NEW a, a \notin OfCodex, NEW text, NEW got, NEW qs, NEW answers, NEW row, NEW marks, NEW typed,
           NEW g, g = Picking(text, got, qs, answers, row, marks, typed), Len(answers) # Len(qs),
           Question(qs, answers).options \in 0..8
    PROVE  /\ \A d \in 1..Question(qs, answers).options :
                  typed = None /\ ~Question(qs, answers).multi
                      => Input!Pressed(a, g, Figures[d]) = Input!Answered(a, g, Input!Choice({d - 1}, <<>>))
           /\ \A d \in 1..Question(qs, answers).options :
                  typed = None /\ Question(qs, answers).multi
                      => Input!Pressed(a, g, Figures[d])
                         = Picking(text, got, qs, answers, row, Input!SymDiff(marks, {d - 1}), typed)
           /\ typed = None
                  => Input!Pressed(a, g, Figures[Question(qs, answers).options + 1])
                     = Picking(text, got, qs, answers, row, marks, <<>>)
           /\ Question(qs, answers).multi
                  => Input!Pressed(a, g, "Tab") = Input!Answered(a, g, Input!Choice(marks, <<>>))
           /\ typed # None
                  => Input!Pressed(a, g, "Enter") = Input!Answered(a, g, Input!Choice({}, typed))
<1> PICK options : options = Question(qs, answers).options
  OBVIOUS
<1>1. /\ g.mode = "asking" /\ g.picker.qs = qs /\ g.picker.answers = answers /\ g.picker.row = row
      /\ g.picker.marks = marks /\ g.picker.typed = typed
  BY PickingParts
<1>2. ~Input!Submitted(g.picker) /\ Input!At(g.picker) = Question(qs, answers)
  BY <1>1 DEF Input!Submitted, Input!At, Question
<1> HIDE DEF Question
<1>3. ASSUME NEW d \in 1..9
      PROVE  /\ Figures[d] \in Input!Digits /\ Figures[d] \notin OtherKeys
             /\ Input!Digit(Figures[d]) = d
  BY FigureFact, DigitFact
<1>4. ASSUME NEW d \in 1..options, typed = None, ~Question(qs, answers).multi
      PROVE  Input!Pressed(a, g, Figures[d]) = Input!Answered(a, g, Input!Choice({d - 1}, <<>>))
  <2> PICK key : key = Figures[d]
    OBVIOUS
  <2>1. key \in Input!Digits /\ key \notin OtherKeys /\ Input!Digit(key) = d
    BY <1>3
  <2> QED
    BY <1>1, <1>2, <2>1, <1>4 DEF Input!Pressed, OtherKeys, WithMarks, WithNote
<1>5. ASSUME NEW d \in 1..options, typed = None, Question(qs, answers).multi
      PROVE  Input!Pressed(a, g, Figures[d]) = WithMarks(g, Input!SymDiff(marks, {d - 1}))
  <2> PICK key : key = Figures[d]
    OBVIOUS
  <2>1. key \in Input!Digits /\ key \notin OtherKeys /\ Input!Digit(key) = d
    BY <1>3
  <2> QED
    BY <1>1, <1>2, <2>1, <1>5 DEF Input!Pressed, OtherKeys, WithMarks, WithNote
<1>6. ASSUME typed = None
      PROVE  Input!Pressed(a, g, Figures[options + 1]) = WithNote(g, <<>>)
  <2> PICK key : key = Figures[options + 1]
    OBVIOUS
  <2>1. key \in Input!Digits /\ key \notin OtherKeys /\ Input!Digit(key) = options + 1
    BY <1>3
  <2> QED
    BY <1>1, <1>2, <2>1, <1>6 DEF Input!Pressed, OtherKeys, WithMarks, WithNote
<1>7. ASSUME Question(qs, answers).multi
      PROVE  Input!Pressed(a, g, "Tab") = Input!Answered(a, g, Input!Choice(marks, <<>>))
  BY <1>1, <1>2, <1>7 DEF Input!Pressed, Input!Digits, WithRow, WithNote
<1>8. ASSUME typed # None
      PROVE  Input!Pressed(a, g, "Enter") = Input!Answered(a, g, Input!Choice({}, typed))
  BY <1>1, <1>2, <1>8 DEF Input!Pressed, Input!Digits, WithRow, WithNote
<1>9. \A x : WithMarks(g, x) = Picking(text, got, qs, answers, row, x, typed)
  BY PickingChanged
<1>10. WithNote(g, <<>>) = Picking(text, got, qs, answers, row, marks, <<>>)
  BY PickingChanged
<1> QED
  BY <1>4, <1>5, <1>6, <1>7, <1>8, <1>9, <1>10

(* Enter gives the answers of claude's picker when all are answered. *)
LEMMA SubmitKey ==
    ASSUME NEW a, NEW text, NEW got, NEW qs, NEW answers, NEW row, NEW marks, NEW typed,
           NEW g, g = Picking(text, got, qs, answers, row, marks, typed), Len(answers) = Len(qs)
    PROVE  Input!Pressed(a, g, "Enter") = Prompt("busy", text, Append(got, answers), None)
<1>1. g.mode = "asking" /\ g.picker.qs = qs /\ g.picker.answers = answers
  BY PickingParts
<1>2. Input!Submitted(g.picker)
  BY <1>1 DEF Input!Submitted
<1>3. Input!Pressed(a, g, "Enter") = Input!Given(g, answers)
  BY <1>1, <1>2 DEF Input!Pressed, Input!Digits, WithRow, WithNote
<1> QED
  BY <1>3, GivenFact DEF Picking
-----------------------------------------------------------------------------
(* What a sequence of commands does to a picker that nothing else touches. *)

Do(a, g, c) == IF c.cmd = "keys" THEN Input!Press(a, g, c.arg) ELSE Input!Typed(g, c.arg)

Run(f, a, s) == \A k \in 1..Len(s) : f[k - 1].mode = "asking" /\ f[k] = Do(a, f[k - 1], s[k])

Leads(a, g, s, h) == \E f : f[0] = g /\ f[Len(s)] = h /\ Run(f, a, s)

LEMMA DoFact ==
    ASSUME NEW a, NEW g
    PROVE  /\ \A key : Do(a, g, Input!Key(key)) = Input!Pressed(a, g, key)
           /\ \A d \in 1..9 : Do(a, g, Input!Keys(Input!Itoa(d))) = Input!Pressed(a, g, Figures[d])
           /\ \A ws : Do(a, g, Input!Type(ws)) = Input!Typed(g, ws)
<1>1. ASSUME NEW key PROVE Do(a, g, Input!Keys(<<key>>)) = Input!Pressed(a, g, key)
  <2>1. Len(<<key>>) = 1 /\ <<key>>[1] = key
    OBVIOUS
  <2> QED
    BY <2>1 DEF Do, Input!Keys, Input!Press
<1>2. \A ws : Do(a, g, Input!Type(ws)) = Input!Typed(g, ws)
  BY DEF Do, Input!Type
<1> QED
  BY <1>1, <1>2, FigureFact DEF Input!Key

LEMMA LeadsNone == ASSUME NEW a, NEW g PROVE Leads(a, g, <<>>, g)
<1> DEFINE f == [k \in {0} |-> g]
<1>1. Len(<<>>) = 0 /\ 1..0 = {}
  OBVIOUS
<1>2. f[0] = g /\ Run(f, a, <<>>)
  BY <1>1 DEF Run
<1> QED
  BY <1>1, <1>2 DEF Leads

LEMMA LeadsNothing == ASSUME NEW a, NEW g, NEW h, Leads(a, g, <<>>, h) PROVE g = h
<1>1. Len(<<>>) = 0
  OBVIOUS
<1> QED
  BY <1>1 DEF Leads

LEMMA LeadsOne ==
    ASSUME NEW a, NEW g, g.mode = "asking", NEW c
    PROVE  Leads(a, g, <<c>>, Do(a, g, c))
<1> PICK h, s : h = Do(a, g, c) /\ s = <<c>>
  OBVIOUS
<1> DEFINE f == [k \in {0, 1} |-> IF k = 0 THEN g ELSE h]
<1>1. Len(s) = 1 /\ s[1] = c
  OBVIOUS
<1>2. f[0] = g /\ f[1] = h
  OBVIOUS
<1>3. \A k \in 1..1 : k = 1 /\ k - 1 = 0
  OBVIOUS
<1> HIDE DEF f
<1>4. Run(f, a, s)
  BY <1>1, <1>2, <1>3 DEF Run
<1> QED
  BY <1>1, <1>2, <1>4 DEF Leads

LEMMA LeadsHead ==
    ASSUME NEW a, NEW g, NEW h, NEW s, Listed(s), s # <<>>, Leads(a, g, s, h)
    PROVE  g.mode = "asking" /\ Leads(a, Do(a, g, Head(s)), Tail(s), h)
<1>1. PICK S : s \in Seq(S)
  BY DEF Listed
<1>2. PICK f : f[0] = g /\ f[Len(s)] = h /\ Run(f, a, s)
  BY DEF Leads
<1> PICK n, t : n = Len(s) /\ t = Tail(s)
  OBVIOUS
<1>3. n \in Nat \ {0} /\ Len(t) = n - 1 /\ Head(s) = s[1] /\ \A k \in 1..(n - 1) : t[k] = s[k + 1]
  BY <1>1
<1> DEFINE e == [k \in 0..(n - 1) |-> f[k + 1]]
<1>4. 1 \in 1..n /\ 1 - 1 = 0
  BY <1>3
<1>5. f[0].mode = "asking" /\ f[1] = Do(a, f[0], s[1])
  BY <1>2, <1>4 DEF Run
<1>6. e[0] = f[1] /\ e[n - 1] = f[n]
  <2>1. 0 \in 0..(n - 1) /\ n - 1 \in 0..(n - 1) /\ 0 + 1 = 1 /\ (n - 1) + 1 = n
    BY <1>3
  <2> QED
    BY <2>1
<1>7. ASSUME NEW k \in 1..(n - 1) PROVE e[k - 1].mode = "asking" /\ e[k] = Do(a, e[k - 1], t[k])
  <2>1. k + 1 \in 1..n /\ (k + 1) - 1 = k /\ k - 1 \in 0..(n - 1) /\ k \in 0..(n - 1) /\ (k - 1) + 1 = k
    BY <1>3
  <2>2. f[k].mode = "asking" /\ f[k + 1] = Do(a, f[k], s[k + 1])
    BY <1>2, <2>1 DEF Run
  <2>3. e[k - 1] = f[k] /\ e[k] = f[k + 1]
    BY <2>1
  <2> QED
    BY <2>2, <2>3, <1>3
<1> HIDE DEF e
<1>8. Run(e, a, t)
  BY <1>3, <1>7 DEF Run
<1> QED
  BY <1>2, <1>3, <1>5, <1>6, <1>8 DEF Leads

LEMMA ListedJoin ==
    ASSUME NEW s, Listed(s), NEW t, Listed(t)
    PROVE  /\ Listed(s \o t) /\ Len(s \o t) = Len(s) + Len(t)
           /\ Len(s) \in Nat /\ Len(t) \in Nat
           /\ \A k \in 1..Len(s) : (s \o t)[k] = s[k]
           /\ \A k \in 1..Len(t) : (s \o t)[Len(s) + k] = t[k]
<1>1. PICK S, T : s \in Seq(S) /\ t \in Seq(T)
  BY DEF Listed
<1>2. s \in Seq(S \cup T) /\ t \in Seq(S \cup T)
  BY <1>1
<1>3. s \o t \in Seq(S \cup T)
  BY <1>2
<1>4. Listed(s \o t)
  BY <1>3 DEF Listed
<1> QED
  BY <1>2, <1>4

LEMMA LeadsJoin ==
    ASSUME NEW a, NEW g, NEW h, NEW j, NEW s, Listed(s), NEW t, Listed(t),
           Leads(a, g, s, h), Leads(a, h, t, j)
    PROVE  Leads(a, g, s \o t, j)
<1> PICK m, n, u : m = Len(s) /\ n = Len(t) /\ u = s \o t
  OBVIOUS
<1>1. /\ m \in Nat /\ n \in Nat /\ Len(u) = m + n
      /\ \A k \in 1..m : u[k] = s[k]
      /\ \A k \in 1..n : u[m + k] = t[k]
  BY ListedJoin
<1>2. PICK d : d[0] = g /\ d[m] = h /\ Run(d, a, s)
  BY DEF Leads
<1>3. PICK e : e[0] = h /\ e[n] = j /\ Run(e, a, t)
  BY DEF Leads
<1> DEFINE f == [k \in 0..(m + n) |-> IF k <= m THEN d[k] ELSE e[k - m]]
<1>4. ASSUME NEW k \in 0..m PROVE f[k] = d[k]
  BY <1>1
<1>5. ASSUME NEW k \in 0..n PROVE f[m + k] = e[k]
  <2>1. m + k \in 0..(m + n) /\ (m + k <= m <=> k = 0) /\ (m + k) - m = k /\ m + 0 = m
    BY <1>1
  <2>2. f[m + k] = IF m + k <= m THEN d[m + k] ELSE e[(m + k) - m]
    BY <2>1
  <2> QED
    BY <2>1, <2>2, <1>2, <1>3
<1> HIDE DEF f
<1>6. ASSUME NEW k \in 1..(m + n) PROVE f[k - 1].mode = "asking" /\ f[k] = Do(a, f[k - 1], u[k])
  <2>1. CASE k <= m
    <3>1. k \in 1..m /\ k \in 0..m /\ k - 1 \in 0..m
      BY <1>1, <2>1
    <3> QED
      BY <3>1, <1>1, <1>2, <1>4 DEF Run
  <2>2. CASE k > m
    <3> PICK i : i = k - m
      OBVIOUS
    <3>1. i \in 1..n /\ i \in 0..n /\ i - 1 \in 0..n /\ k = m + i /\ k - 1 = m + (i - 1)
      BY <1>1, <2>2
    <3>2. f[k] = e[i] /\ f[k - 1] = e[i - 1] /\ u[k] = t[i]
      BY <3>1, <1>1, <1>5
    <3>3. e[i - 1].mode = "asking" /\ e[i] = Do(a, e[i - 1], t[i])
      BY <3>1, <1>3 DEF Run
    <3> QED
      BY <3>2, <3>3
  <2> QED
    BY <2>1, <2>2, <1>1
<1>7. Run(f, a, u)
  BY <1>1, <1>6 DEF Run
<1>8. f[0] = g /\ f[m + n] = j
  <2>1. 0 \in 0..m /\ n \in 0..n
    BY <1>1
  <2> QED
    BY <2>1, <1>2, <1>3, <1>4, <1>5
<1> QED
  BY <1>1, <1>7, <1>8 DEF Leads
-----------------------------------------------------------------------------
(* Induction over numbers, and sequences put one after the other.            *)

LEMMA SmallestFact ==
    ASSUME NEW S \in SUBSET Nat, S # {}
    PROVE  \E k \in S : \A n \in S : k <= n
<1> DEFINE R == OpToRel(<, Nat)
<1>1. IsWellFoundedOn(R, Nat)
  BY NatLessThanWellFounded
<1>2. \A k, n \in Nat : n < k => <<n, k>> \in R
  BY DEF OpToRel
<1> HIDE DEF R
<1>3. PICK k \in S : \A n \in S : ~(<<n, k>> \in R)
  BY <1>1, WFMin
<1>4. \A n \in S : ~(n < k)
  BY <1>2, <1>3
<1> QED
  BY <1>4

LEMMA Induct ==
    ASSUME NEW S, 0 \in S, \A n \in Nat : n \in S => n + 1 \in S
    PROVE  Nat \subseteq S
<1> SUFFICES ASSUME Nat \ S # {} PROVE FALSE
  OBVIOUS
<1>1. PICK k \in Nat \ S : \A n \in Nat \ S : k <= n
  BY SmallestFact
<1>2. k # 0 /\ k - 1 \in Nat /\ ~(k <= k - 1)
  BY <1>1
<1>3. k - 1 \in S
  BY <1>1, <1>2
<1>4. (k - 1) + 1 = k
  BY <1>1
<1>5. k \in S
  BY <1>2, <1>3, <1>4
<1> QED
  BY <1>1, <1>5

LEMMA ConcatInSeq == ASSUME NEW S, NEW s \in Seq(S), NEW t \in Seq(S) PROVE s \o t \in Seq(S)
OBVIOUS

(* The first k of them, joined one by one. *)
Joins(f, seqs, k) == f = [i \in 1..k |-> IF i = 1 THEN seqs[i] ELSE f[i - 1] \o seqs[i]]

LEMMA JoinExists ==
    ASSUME NEW S, NEW n \in Nat, NEW seqs \in [1..n -> Seq(S)]
    PROVE  \E f \in [1..n -> Seq(S)] : Joins(f, seqs, n)
<1> DEFINE Has(k) == \E f \in [1..k -> Seq(S)] : Joins(f, seqs, k)
           Ready == {k \in Nat : k <= n => Has(k)}
<1>1. Has(0)
  <2>1. <<>> \in [1..0 -> Seq(S)] /\ Joins(<<>>, seqs, 0)
    BY DEF Joins
  <2> QED
    BY <2>1
<1>2. ASSUME NEW k \in Nat, Has(k), k + 1 <= n PROVE Has(k + 1)
  <2>1. PICK f \in [1..k -> Seq(S)] : Joins(f, seqs, k)
    BY <1>2
  <2> DEFINE next == IF k = 0 THEN seqs[1] ELSE f[k] \o seqs[k + 1]
             g == [i \in 1..(k + 1) |-> IF i = k + 1 THEN next ELSE f[i]]
  <2>2. next \in Seq(S)
    BY <1>2
  <2> HIDE DEF next
  <2>3. g \in [1..(k + 1) -> Seq(S)]
    BY <2>2
  <2>4. ASSUME NEW i \in 1..(k + 1)
        PROVE  g[i] = IF i = 1 THEN seqs[i] ELSE g[i - 1] \o seqs[i]
    <3>1. CASE i = k + 1
      BY <3>1 DEF next
    <3>2. CASE i # k + 1
      <4>1. i \in 1..k /\ (i # 1 => i - 1 \in 1..k)
        BY <3>2
      <4>2. g[i] = f[i] /\ (i # 1 => g[i - 1] = f[i - 1])
        BY <4>1, <3>2
      <4>3. f[i] = IF i = 1 THEN seqs[i] ELSE f[i - 1] \o seqs[i]
        BY <2>1, <4>1 DEF Joins
      <4> QED
        BY <4>2, <4>3
    <3> QED
      BY <3>1, <3>2
  <2>5. Joins(g, seqs, k + 1)
    BY <2>4 DEF Joins
  <2> QED
    BY <2>3, <2>5
<1> HIDE DEF Has
<1>3. 0 \in Ready /\ \A k \in Nat : k \in Ready => k + 1 \in Ready
  BY <1>1, <1>2
<1> HIDE DEF Ready
<1>4. Nat \subseteq Ready
  BY <1>3, Induct
<1>5. Has(n)
  BY <1>4 DEF Ready
<1> QED
  BY <1>5 DEF Has

(* A command after command runs a picker through these states. *)
LEMMA LeadsFlat ==
    ASSUME NEW a, NEW n \in Nat, NEW seqs, seqs = [i \in 1..n |-> seqs[i]], NEW state,
           \A i \in 1..n : Listed(seqs[i]) /\ Leads(a, state[i - 1], seqs[i], state[i])
    PROVE  Listed(Input!FlattenSeq(seqs)) /\ Leads(a, state[0], Input!FlattenSeq(seqs), state[n])
<1> DEFINE S == UNION {{seqs[i][j] : j \in 1..Len(seqs[i])} : i \in 1..n}
<1>1. ASSUME NEW i \in 1..n PROVE seqs[i] \in Seq(S)
  <2> PICK s : s = seqs[i]
    OBVIOUS
  <2>1. PICK T : s \in Seq(T)
    BY DEF Listed
  <2>2. \A j \in 1..Len(s) : s[j] \in S
    OBVIOUS
  <2> HIDE DEF S
  <2>3. s \in Seq(S)
    BY ONLY <2>1, <2>2
  <2> QED
    BY <2>3
<1> HIDE DEF S
<1>2. seqs \in [1..n -> Seq(S)] /\ Len(seqs) = n
  BY <1>1
<1>3. CASE n = 0
  <2>1. seqs = <<>> /\ Listed(<<>>)
    BY <1>2, <1>3 DEF Listed
  <2>2. Input!FlattenSeq(seqs) = <<>>
    BY <1>2, <1>3, <2>1 DEF Input!FlattenSeq
  <2> QED
    BY <2>1, <2>2, <1>3, LeadsNone
<1>4. CASE n # 0
  <2> DEFINE f == CHOOSE f : Joins(f, seqs, n)
  <2>1. Joins(f, seqs, n)
    BY <1>2, JoinExists
  <2>2. Input!FlattenSeq(seqs) = f[n]
    BY <1>2, <1>4 DEF Input!FlattenSeq, Joins
  <2> HIDE DEF f
  <2> DEFINE Fine(k) == Listed(f[k]) /\ Leads(a, state[0], f[k], state[k])
             Good == {k \in Nat : k + 1 <= n => Fine(k + 1)}
  <2>3. Fine(1)
    <3>1. f[1] = seqs[1] /\ 1 \in 1..n /\ 1 - 1 = 0
      BY <2>1, <1>4 DEF Joins
    <3> QED
      BY <3>1
  <2>4. ASSUME NEW k \in Nat, Fine(k + 1), k + 2 <= n PROVE Fine(k + 2)
    <3>1. k + 2 \in 1..n /\ k + 2 # 1 /\ (k + 2) - 1 = k + 1
      BY <2>4
    <3>2. f[k + 2] = f[k + 1] \o seqs[k + 2]
      BY <2>1, <3>1 DEF Joins
    <3>3. Listed(seqs[k + 2]) /\ Leads(a, state[k + 1], seqs[k + 2], state[k + 2])
      BY <3>1
    <3> QED
      BY <2>4, <3>2, <3>3, ListedJoin, LeadsJoin
  <2> HIDE DEF Fine
  <2>5. 0 \in Good
    BY <2>3
  <2>6. ASSUME NEW k \in Nat, k \in Good PROVE k + 1 \in Good
    <3>1. (k + 1) + 1 = k + 2 /\ (k + 2 <= n => k + 1 <= n)
      OBVIOUS
    <3> QED
      BY <2>4, <2>6, <3>1
  <2> HIDE DEF Good
  <2>7. Nat \subseteq Good
    BY <2>5, <2>6, Induct
  <2>8. n - 1 \in Nat /\ (n - 1) + 1 = n
    BY <1>4
  <2>9. Fine(n)
    <3>1. n - 1 \in Good
      BY <2>7, <2>8
    <3>2. (n - 1) + 1 <= n => Fine((n - 1) + 1)
      BY <3>1 DEF Good
    <3> QED
      BY <3>2, <2>8
  <2> QED
    BY <2>2, <2>9 DEF Fine
<1> QED
  BY <1>3, <1>4
-----------------------------------------------------------------------------
(* The commands of one question of a card.                                   *)

Noting(w) == [i \in DOMAIN w |-> Input!Type(<<w[i]>>)]

(* A note is typed word by word. *)
LEMMA NotingRuns ==
    ASSUME NEW a, NEW text, NEW got, NEW qs, NEW answers, NEW row, NEW marks, NEW w \in Seq(Input!Words)
    PROVE  /\ Listed(Noting(w))
           /\ Leads(a, Picking(text, got, qs, answers, row, marks, <<>>), Noting(w),
                      Picking(text, got, qs, answers, row, marks, w))
<1> DEFINE At(typed) == Picking(text, got, qs, answers, row, marks, typed)
<1>1. ASSUME NEW typed, typed # None, NEW ws PROVE Input!Typed(At(typed), ws) = At(typed \o ws)
  <2> PICK g : g = At(typed)
    OBVIOUS
  <2>1. g.mode = "asking" /\ g.picker.typed = typed
    BY PickingParts
  <2>2. WithNote(g, typed \o ws) = At(typed \o ws)
    BY PickingChanged
  <2> QED
    BY <1>1, <2>1, <2>2 DEF Input!Typed, WithNote
<1>2. \A typed : At(typed).mode = "asking"
  BY PickingParts
<1> HIDE DEF At
<1> PICK n, s : n = Len(w) /\ s = Noting(w)
  OBVIOUS
<1>3. n \in Nat /\ DOMAIN w = 1..n /\ Len(s) = n /\ \A k \in 1..n : s[k] = Input!Type(<<w[k]>>)
  BY DEF Noting
<1>4. Listed(s)
  <2>1. s \in Seq({Input!Type(<<w[k]>>) : k \in 1..n})
    BY <1>3 DEF Noting
  <2> QED
    BY <2>1 DEF Listed
<1>5. \A k \in 0..n : SubSeq(w, 1, k) \in Seq(Input!Words) /\ SubSeq(w, 1, k) # None
  BY <1>3, InputAssumption DEF Input!Sendable
<1>6. ASSUME NEW k \in 1..n PROVE SubSeq(w, 1, k) = SubSeq(w, 1, k - 1) \o <<w[k]>>
  BY <1>3
<1>7. SubSeq(w, 1, 0) = <<>> /\ SubSeq(w, 1, n) = w
  BY <1>3
<1> DEFINE f == [k \in 0..n |-> At(SubSeq(w, 1, k))]
<1>8. \A k \in 0..n : f[k] = At(SubSeq(w, 1, k))
  OBVIOUS
<1> HIDE DEF f
<1>9. ASSUME NEW k \in 1..n PROVE f[k - 1].mode = "asking" /\ f[k] = Do(a, f[k - 1], s[k])
  <2>1. k - 1 \in 0..n /\ k \in 0..n
    BY <1>3
  <2>2. f[k - 1] = At(SubSeq(w, 1, k - 1)) /\ f[k] = At(SubSeq(w, 1, k))
    BY <2>1, <1>8
  <2>3. Do(a, f[k - 1], s[k]) = Input!Typed(f[k - 1], <<w[k]>>)
    <3> PICK ws, g : ws = <<w[k]>> /\ g = f[k - 1]
      OBVIOUS
    <3>1. Do(a, g, Input!Type(ws)) = Input!Typed(g, ws)
      BY DoFact
    <3> QED
      BY <1>3, <3>1
  <2>4. Input!Typed(f[k - 1], <<w[k]>>) = At(SubSeq(w, 1, k - 1) \o <<w[k]>>)
    BY <2>1, <2>2, <1>1, <1>5
  <2> QED
    BY <2>2, <2>3, <2>4, <1>2, <1>6
<1>10. Run(f, a, s)
  BY <1>3, <1>9 DEF Run
<1>11. f[0] = At(<<>>) /\ f[n] = At(w)
  <2>1. 0 \in 0..n /\ n \in 0..n
    BY <1>3
  <2> QED
    BY <2>1, <1>7, <1>8
<1>12. Leads(a, At(<<>>), s, At(w))
  BY <1>3, <1>10, <1>11 DEF Leads
<1> QED
  BY <1>4, <1>12 DEF At

(* One key, when it is known what it does. *)
LEMMA KeyRuns ==
    ASSUME NEW a, NEW g, g.mode = "asking", NEW key, NEW h, Input!Pressed(a, g, key) = h
    PROVE  Listed(<<Input!Key(key)>>) /\ Leads(a, g, <<Input!Key(key)>>, h)
<1>1. <<Input!Key(key)>> \in Seq({Input!Key(key)})
  OBVIOUS
<1>2. Do(a, g, Input!Key(key)) = h
  BY DoFact
<1> QED
  BY <1>1, <1>2, LeadsOne DEF Listed

LEMMA DigitRuns ==
    ASSUME NEW a, NEW g, g.mode = "asking", NEW d \in 1..9, NEW h, Input!Pressed(a, g, Figures[d]) = h
    PROVE  Listed(<<Input!Keys(Input!Itoa(d))>>) /\ Leads(a, g, <<Input!Keys(Input!Itoa(d))>>, h)
<1>1. <<Input!Keys(Input!Itoa(d))>> \in Seq({Input!Keys(Input!Itoa(d))})
  OBVIOUS
<1>2. Do(a, g, Input!Keys(Input!Itoa(d))) = h
  BY DoFact
<1> QED
  BY <1>1, <1>2, LeadsOne DEF Listed

(* A note is typed and entered. *)
LEMMA NoteRuns ==
    ASSUME NEW a, NEW text, NEW got, NEW qs, NEW answers, NEW row, NEW marks, NEW w \in Seq(Input!Words), NEW h,
           Input!Pressed(a, Picking(text, got, qs, answers, row, marks, w), "Enter") = h
    PROVE  /\ Listed(Input!TmuxSendKeys(w))
           /\ Leads(a, Picking(text, got, qs, answers, row, marks, <<>>), Input!TmuxSendKeys(w), h)
<1> DEFINE s == Noting(w)
           t == <<Input!Key("Enter")>>
           g == Picking(text, got, qs, answers, row, marks, <<>>)
           i == Picking(text, got, qs, answers, row, marks, w)
<1>1. Listed(s) /\ Leads(a, g, s, i)
  BY NotingRuns
<1>2. i.mode = "asking"
  BY PickingParts
<1>3. Listed(t) /\ Leads(a, i, t, h)
  BY <1>2, KeyRuns
<1>4. Input!TmuxSendKeys(w) = s \o t
  BY DEF Input!TmuxSendKeys, Noting
<1> HIDE DEF s, t, g, i
<1>5. Listed(s \o t) /\ Leads(a, g, s \o t, h)
  BY <1>1, <1>3, ListedJoin, LeadsJoin
<1> QED
  BY <1>4, <1>5 DEF g

(* An answer that the question takes. *)
Fits(c, q) ==
    /\ c.options = q.options /\ c.options \in 1..8 /\ c.multi = q.multi
    /\ c.other \in Seq(Input!Words) /\ c.picks \in Seq(0..(c.options - 1))
    /\ c.other = <<>> => c.picks # <<>> /\ Input!IsInjective(c.picks)
    /\ c.other = <<>> /\ ~c.multi => Len(c.picks) = 1

Marking(picks) == [j \in DOMAIN picks |-> Input!Keys(Input!Itoa(picks[j] + 1))]

LEMMA MarkingListed ==
    ASSUME NEW S, NEW picks \in Seq(S)
    PROVE  /\ Listed(Marking(picks)) /\ Len(Marking(picks)) = Len(picks)
           /\ \A j \in 1..Len(picks) : Marking(picks)[j] = Input!Keys(Input!Itoa(picks[j] + 1))
<1>1. DOMAIN picks = 1..Len(picks) /\ Len(picks) \in Nat
  OBVIOUS
<1>2. Marking(picks) \in Seq({Input!Keys(Input!Itoa(picks[j] + 1)) : j \in 1..Len(picks)})
  BY <1>1 DEF Marking
<1>3. Listed(Marking(picks))
  BY <1>2 DEF Listed
<1>4. /\ Len(Marking(picks)) = Len(picks)
      /\ \A j \in 1..Len(picks) : Marking(picks)[j] = Input!Keys(Input!Itoa(picks[j] + 1))
  BY <1>1 DEF Marking
<1> QED
  BY <1>3, <1>4

(* Claude's multi-select question is marked pick by pick. *)
LEMMA MarkingRuns ==
    ASSUME NEW a, a \notin OfCodex, NEW text, NEW got, NEW qs, NEW answers, NEW row,
           Len(answers) # Len(qs), NEW options, options = Question(qs, answers).options,
           options \in 0..8, Question(qs, answers).multi,
           NEW picks \in Seq(0..(options - 1)), Input!IsInjective(picks)
    PROVE  Leads(a, Picking(text, got, qs, answers, row, {}, None), Marking(picks),
                   Picking(text, got, qs, answers, row, Input!ToSet(picks), None))
<1> DEFINE At(marks) == Picking(text, got, qs, answers, row, marks, None)
<1>1. ASSUME NEW marks, NEW d \in 1..options
      PROVE  Input!Pressed(a, At(marks), Figures[d]) = At(Input!SymDiff(marks, {d - 1}))
  <2> PICK g, none : g = Picking(text, got, qs, answers, row, marks, none) /\ none = None
    OBVIOUS
  <2>1. Input!Pressed(a, g, Figures[d]) = Picking(text, got, qs, answers, row, Input!SymDiff(marks, {d - 1}), none)
    BY ClaudeKeys
  <2> QED
    BY <2>1
<1>2. \A marks : At(marks).mode = "asking"
  BY PickingParts
<1> HIDE DEF At
<1> PICK n, s : n = Len(picks) /\ s = Marking(picks)
  OBVIOUS
<1>3. /\ n \in Nat /\ DOMAIN picks = 1..n /\ Len(s) = n
      /\ \A k \in 1..n : s[k] = Input!Keys(Input!Itoa(picks[k] + 1)) /\ picks[k] \in 0..(options - 1)
  BY MarkingListed
<1> DEFINE marks(k) == {picks[j] : j \in 1..k}
           f == [k \in 0..n |-> At(marks(k))]
<1>4. ASSUME NEW k \in 1..n PROVE Input!SymDiff(marks(k - 1), {picks[k]}) = marks(k)
  <2>1. \A j \in 1..k : j = k \/ j \in 1..(k - 1)
    BY <1>3
  <2>2. \A j \in 1..(k - 1) : j \in 1..k /\ j \in DOMAIN picks /\ k \in DOMAIN picks /\ j # k
    BY <1>3
  <2>3. picks[k] \notin marks(k - 1)
    BY <2>2 DEF Input!IsInjective
  <2>4. marks(k) = marks(k - 1) \cup {picks[k]}
    <3>1. k \in 1..k
      BY <1>3
    <3> QED
      BY <3>1, <2>1, <2>2, <1>3
  <2> HIDE DEF marks
  <2> QED
    BY <2>3, <2>4 DEF Input!SymDiff
<1>5. marks(0) = {} /\ marks(n) = Input!ToSet(picks)
  BY <1>3 DEF Input!ToSet
<1>6. \A k \in 0..n : f[k] = At(marks(k))
  OBVIOUS
<1> HIDE DEF f, marks
<1>7. ASSUME NEW k \in 1..n PROVE f[k - 1].mode = "asking" /\ f[k] = Do(a, f[k - 1], s[k])
  <2>1. k - 1 \in 0..n /\ k \in 0..n
    BY <1>3
  <2>2. f[k - 1] = At(marks(k - 1)) /\ f[k] = At(marks(k))
    BY <2>1, <1>6
  <2> PICK d, g : d = picks[k] + 1 /\ g = f[k - 1]
    OBVIOUS
  <2>3. d \in 1..9 /\ d \in 1..options /\ d - 1 = picks[k]
    <3> PICK x : x = picks[k]
      OBVIOUS
    <3>1. x \in 0..(options - 1) /\ d = x + 1
      BY <1>3
    <3>2. d \in 1..9 /\ d \in 1..options /\ d - 1 = x
      BY ONLY <3>1, options \in 0..8
    <3> QED
      BY <3>2
  <2>4. Do(a, g, Input!Keys(Input!Itoa(d))) = Input!Pressed(a, g, Figures[d])
    BY <2>3, DoFact
  <2>5. Input!Pressed(a, g, Figures[d]) = At(Input!SymDiff(marks(k - 1), {d - 1}))
    BY <2>2, <2>3, <1>1
  <2>6. At(Input!SymDiff(marks(k - 1), {d - 1})) = f[k]
    BY <1>4, <2>2, <2>3
  <2> QED
    BY <2>2, <2>4, <2>5, <2>6, <1>2, <1>3
<1>8. Run(f, a, s)
  BY <1>3, <1>7 DEF Run
<1>9. f[0] = At({}) /\ f[n] = At(Input!ToSet(picks))
  <2>1. 0 \in 0..n /\ n \in 0..n
    BY <1>3
  <2> QED
    BY <2>1, <1>5, <1>6
<1>10. Leads(a, At({}), s, At(Input!ToSet(picks)))
  BY <1>3, <1>8, <1>9 DEF Leads
<1> QED
  BY <1>10 DEF At

ClaudeKeysOf(c) ==
    IF c.other # <<>> THEN <<Input!Keys(Input!Itoa(c.options + 1))>> \o Input!TmuxSendKeys(c.other)
    ELSE Marking(c.picks) \o (IF c.multi THEN <<Input!Key("Tab")>> ELSE <<>>)

(* The keys for one answer of a card give claude's picker that answer. *)
LEMMA ClaudeQuestion ==
    ASSUME NEW a, a \notin OfCodex, NEW text, NEW got, NEW qs, NEW answers, Len(answers) # Len(qs),
           NEW c, Fits(c, Question(qs, answers))
    PROVE  /\ Listed(ClaudeKeysOf(c))
           /\ Leads(a, Picking(text, got, qs, answers, 0, {}, None), ClaudeKeysOf(c),
                      Picking(text, got, qs, Append(answers, Input!Wanted(a, c)), 0, {}, None))
<1> DEFINE g == Picking(text, got, qs, answers, 0, {}, None)
           next(ans) == Picking(text, got, qs, Append(answers, ans), 0, {}, None)
<1>1. \A marks, typed, ans :
          Input!Answered(a, Picking(text, got, qs, answers, 0, marks, typed), ans) = next(ans)
  BY AnsweredFact
<1>2. \A marks, typed : Picking(text, got, qs, answers, 0, marks, typed).mode = "asking"
  BY PickingParts
<1> HIDE DEF next
<1> PICK options, q : options = c.options /\ q = Question(qs, answers)
  OBVIOUS
<1>3. options \in 1..8 /\ options \in 0..8 /\ options = q.options /\ options + 1 \in 1..9 /\ c.multi = q.multi
  BY DEF Fits
<1>4. CASE c.other # <<>>
  <2> PICK w : w = c.other
    OBVIOUS
  <2> DEFINE h == Picking(text, got, qs, answers, 0, {}, <<>>)
             s == <<Input!Keys(Input!Itoa(options + 1))>>
             t == Input!TmuxSendKeys(w)
  <2>1. w \in Seq(Input!Words) /\ w # None
    BY InputAssumption DEF Fits, Input!Sendable
  <2>2. Input!Pressed(a, g, Figures[options + 1]) = h
    BY <1>3, ClaudeKeys
  <2>3. Listed(s) /\ Leads(a, g, s, h)
    BY <2>2, <1>2, <1>3, DigitRuns
  <2> PICK note : note = Picking(text, got, qs, answers, 0, {}, w)
    OBVIOUS
  <2>4. Input!Pressed(a, note, "Enter") = Input!Answered(a, note, Input!Choice({}, w))
    BY <2>1, <1>3, ClaudeKeys
  <2>5. Input!Pressed(a, note, "Enter") = next(Input!Choice({}, w))
    BY <2>4, <1>1
  <2>6. Listed(t) /\ Leads(a, h, t, next(Input!Choice({}, w)))
    BY <2>1, <2>5, NoteRuns
  <2>7. ClaudeKeysOf(c) = s \o t /\ Input!Wanted(a, c) = Input!Choice({}, w)
    BY <1>4 DEF ClaudeKeysOf, Input!Wanted
  <2> HIDE DEF g, h, s, t
  <2>8. Listed(s \o t) /\ Leads(a, g, s \o t, next(Input!Choice({}, w)))
    BY <2>3, <2>6, ListedJoin, LeadsJoin
  <2> QED
    BY <2>7, <2>8 DEF g, next
<1>5. CASE c.other = <<>> /\ c.multi
  <2> PICK picks : picks = c.picks
    OBVIOUS
  <2> DEFINE h == Picking(text, got, qs, answers, 0, Input!ToSet(picks), None)
             s == Marking(picks)
             t == <<Input!Key("Tab")>>
             ans == Input!Choice(Input!ToSet(picks), <<>>)
  <2>1. picks \in Seq(0..(options - 1)) /\ Input!IsInjective(picks)
    BY <1>5 DEF Fits
  <2>2. Listed(s)
    BY <2>1, MarkingListed
  <2>3. Leads(a, g, s, h)
    BY <1>3, <1>5, <2>1, MarkingRuns
  <2>4. Input!Pressed(a, h, "Tab") = Input!Answered(a, h, ans)
    <3> PICK note, set : note = h /\ set = Input!ToSet(picks)
      OBVIOUS
    <3>1. Question(qs, answers).options \in 0..8 /\ Question(qs, answers).multi
      BY <1>3, <1>5
    <3>2. Input!Pressed(a, note, "Tab") = Input!Answered(a, note, Input!Choice(set, <<>>))
      BY ONLY note = h, set = Input!ToSet(picks), a \notin OfCodex, Len(answers) # Len(qs), <3>1, ClaudeKeys
    <3> QED
      BY <3>2
  <2>5. Input!Pressed(a, h, "Tab") = next(ans)
    BY <2>4, <1>1
  <2>6. Listed(t) /\ Leads(a, h, t, next(ans))
    BY <2>5, <1>2, KeyRuns
  <2>7. ClaudeKeysOf(c) = s \o t /\ Input!Wanted(a, c) = ans
    BY <1>5 DEF ClaudeKeysOf, Input!Wanted
  <2> HIDE DEF g, h, s, t, ans
  <2>8. Listed(s \o t) /\ Leads(a, g, s \o t, next(ans))
    BY <2>2, <2>3, <2>6, ListedJoin, LeadsJoin
  <2> QED
    BY <2>7, <2>8 DEF g, next
<1>6. CASE c.other = <<>> /\ ~c.multi
  <2> PICK picks, d : picks = c.picks /\ d = picks[1] + 1
    OBVIOUS
  <2> DEFINE s == <<Input!Keys(Input!Itoa(d))>>
             ans == Input!Choice({d - 1}, <<>>)
  <2>1. picks \in Seq(0..(options - 1)) /\ Len(picks) = 1 /\ DOMAIN picks = 1..1
    BY <1>6 DEF Fits
  <2>2. picks[1] \in 0..(options - 1) /\ d \in 1..options /\ d \in 1..9 /\ d - 1 = picks[1]
    <3> PICK x : x = picks[1]
      OBVIOUS
    <3>1. x \in 0..(options - 1) /\ d = x + 1
      <4>1. 1 \in DOMAIN picks
        BY <2>1
      <4>2. \A S, j : picks \in Seq(S) /\ j \in DOMAIN picks => picks[j] \in S
        OBVIOUS
      <4> QED
        BY <2>1, <4>1, <4>2
    <3>2. x \in 0..(options - 1) /\ d \in 1..options /\ d \in 1..9 /\ d - 1 = x
      BY ONLY <3>1, <1>3
    <3> QED
      BY <3>2
  <2>3. Input!Pressed(a, g, Figures[d]) = Input!Answered(a, g, ans)
    <3> PICK i : i = g
      OBVIOUS
    <3>1. Question(qs, answers).options \in 0..8 /\ ~Question(qs, answers).multi
      BY <1>3, <1>6
    <3>2. d \in 1..Question(qs, answers).options
      BY <1>3, <2>2
    <3>3. Input!Pressed(a, i, Figures[d]) = Input!Answered(a, i, Input!Choice({d - 1}, <<>>))
      BY ONLY i = g, a \notin OfCodex, Len(answers) # Len(qs), <3>1, <3>2, ClaudeKeys
    <3> QED
      BY <3>3
  <2>4. Input!Pressed(a, g, Figures[d]) = next(ans)
    BY <2>3, <1>1
  <2>5. Listed(s) /\ Leads(a, g, s, next(ans))
    BY <2>2, <2>4, <1>2, DigitRuns
  <2>6. Marking(picks) = s
    <3>1. Marking(picks) = [j \in 1..1 |-> Input!Keys(Input!Itoa(picks[j] + 1))]
      BY <2>1 DEF Marking
    <3>2. \A j \in 1..1 : j = 1
      OBVIOUS
    <3> QED
      BY <3>1, <3>2
  <2>7. Input!ToSet(picks) = {d - 1}
    <3>1. \A j \in 1..1 : j = 1
      OBVIOUS
    <3> QED
      BY <3>1, <2>1, <2>2 DEF Input!ToSet
  <2>8. Input!Wanted(a, c) = ans
    BY <1>6, <2>7 DEF Input!Wanted
  <2>9. ClaudeKeysOf(c) = s \o <<>>
    BY <1>6, <2>6 DEF ClaudeKeysOf
  <2>10. s \o <<>> = s
    OBVIOUS
  <2> HIDE DEF g, s, ans
  <2> QED
    BY <2>5, <2>8, <2>9, <2>10 DEF g, next
<1> QED
  BY <1>4, <1>5, <1>6

Downs(n) == [j \in 1..n |-> Input!Key("Down")]

(* The rows of codex's picker are walked one by one. *)
LEMMA DownsRuns ==
    ASSUME NEW a \in OfCodex, NEW text, NEW got, NEW qs, NEW answers, Len(answers) # Len(qs),
           NEW options, options = Question(qs, answers).options, options \in Nat,
           NEW n \in 0..options
    PROVE  /\ Listed(Downs(n))
           /\ Leads(a, Picking(text, got, qs, answers, 0, {}, None), Downs(n),
                      Picking(text, got, qs, answers, n, {}, None))
<1> DEFINE At(row) == Picking(text, got, qs, answers, row, {}, None)
<1>1. ASSUME NEW row, row < options PROVE Input!Pressed(a, At(row), "Down") = At(row + 1)
  <2> PICK g : g = At(row)
    OBVIOUS
  <2>1. row < Question(qs, answers).options
    BY <1>1
  <2>2. Input!Pressed(a, g, "Down") = At(row + 1)
    BY ONLY g = At(row), a \in OfCodex, Len(answers) # Len(qs), <2>1, CodexDown
  <2> QED
    BY <2>2
<1>2. \A row : At(row).mode = "asking"
  BY PickingParts
<1> HIDE DEF At
<1> PICK s : s = Downs(n)
  OBVIOUS
<1>3. n \in Nat /\ n <= options /\ Len(s) = n /\ \A k \in 1..n : s[k] = Input!Key("Down")
  BY DEF Downs
<1>4. Listed(s)
  <2>1. s \in Seq({Input!Key("Down")})
    BY <1>3 DEF Downs
  <2> QED
    BY <2>1 DEF Listed
<1> DEFINE f == [k \in 0..n |-> At(k)]
<1>5. \A k \in 0..n : f[k] = At(k)
  OBVIOUS
<1> HIDE DEF f
<1>6. ASSUME NEW k \in 1..n PROVE f[k - 1].mode = "asking" /\ f[k] = Do(a, f[k - 1], s[k])
  <2>1. k - 1 \in 0..n /\ k \in 0..n /\ k - 1 < options /\ (k - 1) + 1 = k
    BY <1>3
  <2> PICK g : g = f[k - 1]
    OBVIOUS
  <2>2. g = At(k - 1) /\ f[k] = At(k)
    BY <2>1, <1>5
  <2>3. Do(a, g, Input!Key("Down")) = Input!Pressed(a, g, "Down")
    BY DoFact
  <2>4. Input!Pressed(a, g, "Down") = At((k - 1) + 1)
    BY <2>1, <2>2, <1>1
  <2> QED
    BY <2>1, <2>2, <2>3, <2>4, <1>2, <1>3
<1>7. Run(f, a, s)
  BY <1>3, <1>6 DEF Run
<1>8. f[0] = At(0) /\ f[n] = At(n)
  <2>1. 0 \in 0..n /\ n \in 0..n
    BY <1>3
  <2> QED
    BY <2>1, <1>5
<1>9. Leads(a, At(0), s, At(n))
  BY <1>3, <1>7, <1>8 DEF Leads
<1> QED
  BY <1>4, <1>9 DEF At

CodexKeysOf(c) ==
    IF c.other # <<>> THEN Downs(c.options) \o <<Input!Key("Tab")>> \o Input!TmuxSendKeys(c.other)
    ELSE Downs(Head(c.picks)) \o <<Input!Key("Enter")>>

(* The prompt when these answers are given: codex goes on after the last. *)
After(a, text, got, qs, answers) ==
    IF a \in OfCodex /\ Len(answers) = Len(qs) THEN Prompt("busy", text, Append(got, answers), None)
    ELSE Picking(text, got, qs, answers, 0, {}, None)

(* The keys for one answer of a card give codex's picker that answer. *)
LEMMA CodexQuestion ==
    ASSUME NEW a \in OfCodex, NEW text, NEW got, NEW qs, NEW answers, Len(answers) # Len(qs),
           NEW c, Fits(c, Question(qs, answers))
    PROVE  /\ Listed(CodexKeysOf(c))
           /\ Leads(a, Picking(text, got, qs, answers, 0, {}, None), CodexKeysOf(c),
                      After(a, text, got, qs, Append(answers, Input!Wanted(a, c))))
<1> DEFINE g == Picking(text, got, qs, answers, 0, {}, None)
           next(ans) == After(a, text, got, qs, Append(answers, ans))
<1>1. \A row, typed, ans :
          Input!Answered(a, Picking(text, got, qs, answers, row, {}, typed), ans) = next(ans)
  BY AnsweredFact DEF After
<1>2. \A row, typed : Picking(text, got, qs, answers, row, {}, typed).mode = "asking"
  BY PickingParts
<1> HIDE DEF next
<1> PICK options : options = c.options
  OBVIOUS
<1>3. options \in 1..8 /\ options \in Nat /\ options \in 0..options /\ options = Question(qs, answers).options
  BY DEF Fits
<1>4. CASE c.other # <<>>
  <2> PICK w : w = c.other
    OBVIOUS
  <2> DEFINE h == Picking(text, got, qs, answers, options, {}, None)
             i == Picking(text, got, qs, answers, options, {}, <<>>)
             s == Downs(options)
             tab == <<Input!Key("Tab")>>
             t == Input!TmuxSendKeys(w)
  <2>1. w \in Seq(Input!Words) /\ w # None
    BY InputAssumption DEF Fits, Input!Sendable
  <2>2. Listed(s) /\ Leads(a, g, s, h)
    BY <1>3, DownsRuns
  <2>3. Input!Pressed(a, h, "Tab") = i
    <3> PICK j, none : j = Picking(text, got, qs, answers, options, {}, none) /\ none = None
      OBVIOUS
    <3>1. Input!Pressed(a, j, "Tab") = Picking(text, got, qs, answers, options, {}, <<>>)
      BY ONLY j = Picking(text, got, qs, answers, options, {}, none), none = None, a \in OfCodex,
              Len(answers) # Len(qs), CodexTab
    <3> QED
      BY <3>1
  <2>4. Listed(tab) /\ Leads(a, h, tab, i)
    BY <2>3, <1>2, KeyRuns
  <2> PICK note : note = Picking(text, got, qs, answers, options, {}, w)
    OBVIOUS
  <2>5. ~(options < Question(qs, answers).options)
    BY <1>3
  <2>6. Input!Pressed(a, note, "Enter") = Input!Answered(a, note, Input!Choice({}, w))
    BY ONLY note = Picking(text, got, qs, answers, options, {}, w), a \in OfCodex,
            Len(answers) # Len(qs), <2>1, <2>5, CodexNote
  <2>7. Input!Pressed(a, note, "Enter") = next(Input!Choice({}, w))
    BY <2>6, <1>1
  <2>8. Listed(t) /\ Leads(a, i, t, next(Input!Choice({}, w)))
    BY <2>1, <2>7, NoteRuns
  <2>9. CodexKeysOf(c) = (s \o tab) \o t /\ Input!Wanted(a, c) = Input!Choice({}, w)
    BY <1>4, <1>3 DEF CodexKeysOf, Input!Wanted
  <2> HIDE DEF g, h, i, s, t, tab
  <2>10. Listed(s \o tab) /\ Leads(a, g, s \o tab, i)
    BY <2>2, <2>4, ListedJoin, LeadsJoin
  <2>11. Listed((s \o tab) \o t) /\ Leads(a, g, (s \o tab) \o t, next(Input!Choice({}, w)))
    BY <2>8, <2>10, ListedJoin, LeadsJoin
  <2> QED
    BY <2>9, <2>11 DEF g, next
<1>5. CASE c.other = <<>>
  <2> PICK n : n = Head(c.picks)
    OBVIOUS
  <2> DEFINE h == Picking(text, got, qs, answers, n, {}, None)
             s == Downs(n)
             t == <<Input!Key("Enter")>>
             ans == Input!Choice({n}, <<>>)
  <2>1. n \in 0..options
    <3>1. c.picks \in Seq(0..(options - 1)) /\ c.picks # <<>>
      BY <1>5 DEF Fits
    <3>2. n \in 0..(options - 1)
      <4> PICK picks : picks = c.picks
        OBVIOUS
      <4>1. \A S : picks \in Seq(S) /\ picks # <<>> => Head(picks) \in S
        OBVIOUS
      <4> QED
        BY <3>1, <4>1
    <3> QED
      BY <3>2, <1>3
  <2>2. Listed(s) /\ Leads(a, g, s, h)
    BY <1>3, <2>1, DownsRuns
  <2>3. Input!Pressed(a, h, "Enter") = Input!Answered(a, h, ans)
    BY CodexEnter
  <2>4. Input!Pressed(a, h, "Enter") = next(ans)
    BY <2>3, <1>1
  <2>5. Listed(t) /\ Leads(a, h, t, next(ans))
    BY <2>4, <1>2, KeyRuns
  <2>6. CodexKeysOf(c) = s \o t /\ Input!Wanted(a, c) = ans
    BY <1>5 DEF CodexKeysOf, Input!Wanted
  <2> HIDE DEF g, h, s, t, ans
  <2>7. Listed(s \o t) /\ Leads(a, g, s \o t, next(ans))
    BY <2>2, <2>5, ListedJoin, LeadsJoin
  <2> QED
    BY <2>6, <2>7 DEF g, next
<1> QED
  BY <1>4, <1>5

(* The keys of a card, question by question. *)
LEMMA CardParts ==
    ASSUME NEW cs
    PROVE  /\ Input!driveAskUserQuestionPicker(cs)
              = Input!FlattenSeq([i \in DOMAIN cs |-> ClaudeKeysOf(cs[i])]) \o <<Input!Key("Enter")>>
           /\ Input!driveCodexRequestUserInputPicker(cs)
              = Input!FlattenSeq([i \in DOMAIN cs |-> CodexKeysOf(cs[i])])
BY DEF Input!driveAskUserQuestionPicker, Input!driveCodexRequestUserInputPicker, ClaudeKeysOf, CodexKeysOf,
       Marking, Downs

Script(a, cs) ==
    IF a \in OfCodex THEN Input!driveCodexRequestUserInputPicker(cs) ELSE Input!driveAskUserQuestionPicker(cs)

(* A card that fits the questions gives them its answers, all of them, and *)
(* nothing else.                                                           *)
LEMMA CardRuns ==
    ASSUME NEW a, NEW text, NEW got, NEW qs, NEW S, NEW cs \in Seq(S), cs # <<>>, Len(cs) = Len(qs),
           \A i \in 1..Len(cs) : Fits(cs[i], qs[i])
    PROVE  /\ Listed(Script(a, cs)) /\ Script(a, cs) # <<>>
           /\ Leads(a, Picking(text, got, qs, <<>>, 0, {}, None), Script(a, cs),
                      Prompt("busy", text, Append(got, [i \in DOMAIN cs |-> Input!Wanted(a, cs[i])]), None))
<1> PICK n : n = Len(cs)
  OBVIOUS
<1>1. n \in Nat \ {0} /\ DOMAIN cs = 1..n /\ Len(qs) = n
  OBVIOUS
<1> DEFINE keys(c) == IF a \in OfCodex THEN CodexKeysOf(c) ELSE ClaudeKeysOf(c)
           seqs == [i \in 1..n |-> keys(cs[i])]
           given(k) == [i \in 1..k |-> Input!Wanted(a, cs[i])]
           state == [k \in 0..n |-> After(a, text, got, qs, given(k))]
<1>2. ASSUME NEW k \in 0..n PROVE Len(given(k)) = k
  BY <1>1
<1>3. ASSUME NEW k \in 1..n PROVE given(k) = Append(given(k - 1), Input!Wanted(a, cs[k]))
  <2> PICK w : w = [i \in 1..n |-> Input!Wanted(a, cs[i])]
    OBVIOUS
  <2>1. given(k) = [i \in 1..k |-> w[i]] /\ given(k - 1) = [i \in 1..(k - 1) |-> w[i]] /\ w[k] = Input!Wanted(a, cs[k])
    BY <1>1
  <2>2. [i \in 1..k |-> w[i]] = Append([i \in 1..(k - 1) |-> w[i]], w[k])
    BY <1>1
  <2> QED
    BY <2>1, <2>2
<1>4. given(0) = <<>> /\ given(n) = [i \in DOMAIN cs |-> Input!Wanted(a, cs[i])]
  BY <1>1
<1>5. \A i \in 1..n : seqs[i] = keys(cs[i])
  OBVIOUS
<1>6. \A k \in 0..n : state[k] = After(a, text, got, qs, given(k))
  OBVIOUS
<1>7. seqs = [i \in 1..n |-> seqs[i]]
  OBVIOUS
<1> HIDE DEF seqs, given, state, keys
<1>8. ASSUME NEW i \in 1..n PROVE Listed(seqs[i]) /\ Leads(a, state[i - 1], seqs[i], state[i])
  <2> PICK answers, c, ans : answers = given(i - 1) /\ c = cs[i] /\ ans = Input!Wanted(a, c)
    OBVIOUS
  <2>1. i - 1 \in 0..n /\ i \in 0..n /\ (i - 1) + 1 = i /\ i - 1 # n
    BY <1>1
  <2>2. Len(answers) = i - 1
    BY <1>2, <2>1
  <2>3. Len(answers) # Len(qs)
    BY <2>1, <2>2, <1>1
  <2>4. Fits(c, Question(qs, answers))
    BY <2>1, <2>2 DEF Question
  <2>5. state[i - 1] = Picking(text, got, qs, answers, 0, {}, None)
    BY <2>1, <2>3, <1>6 DEF After
  <2>6. state[i] = After(a, text, got, qs, Append(answers, ans))
    BY <2>1, <1>3, <1>6
  <2>7. CASE a \in OfCodex
    <3>1. seqs[i] = CodexKeysOf(c)
      BY <2>7, <1>5 DEF keys
    <3> QED
      BY <2>3, <2>4, <2>5, <2>6, <2>7, <3>1, CodexQuestion
  <2>8. CASE a \notin OfCodex
    <3>1. seqs[i] = ClaudeKeysOf(c)
      BY <2>8, <1>5 DEF keys
    <3>2. state[i] = Picking(text, got, qs, Append(answers, ans), 0, {}, None)
      BY <2>6, <2>8 DEF After
    <3> QED
      BY <2>3, <2>4, <2>5, <2>8, <3>1, <3>2, ClaudeQuestion
  <2> QED
    BY <2>7, <2>8
<1> PICK flat, want : flat = Input!FlattenSeq(seqs) /\ want = given(n)
  OBVIOUS
<1>9. Listed(flat) /\ Leads(a, state[0], flat, state[n])
  BY <1>1, <1>7, <1>8, LeadsFlat
<1>10. state[0] = Picking(text, got, qs, <<>>, 0, {}, None)
  <2>1. 0 \in 0..n /\ Len(<<>>) = 0 /\ 0 # n
    BY <1>1
  <2> QED
    BY <2>1, <1>1, <1>4, <1>6 DEF After
<1>11. n \in 0..n /\ Len(want) = n
  BY <1>1, <1>2
<1>12. state[n] = After(a, text, got, qs, want)
  BY <1>6, <1>11
<1>13. CASE a \in OfCodex
  <2>1. Script(a, cs) = flat
    BY <1>13, <1>1, CardParts DEF Script, seqs, keys
  <2>2. state[n] = Prompt("busy", text, Append(got, want), None)
    BY <1>1, <1>11, <1>12, <1>13 DEF After
  <2>3. flat # <<>>
    <3>1. ASSUME flat = <<>> PROVE state[0] = state[n]
      BY <3>1, <1>9, LeadsNothing
    <3>2. state[0].mode = "asking" /\ state[n].mode = "busy"
      BY <2>2, <1>10, PickingParts, PromptParts
    <3> QED
      BY <3>1, <3>2
  <2> QED
    BY <2>1, <2>2, <2>3, <1>4, <1>9, <1>10
<1>14. CASE a \notin OfCodex
  <2> PICK enter, g : enter = <<Input!Key("Enter")>> /\ g = state[n]
    OBVIOUS
  <2>1. Script(a, cs) = flat \o enter
    BY <1>14, <1>1, CardParts DEF Script, seqs, keys
  <2>2. g = Picking(text, got, qs, want, 0, {}, None)
    BY <1>12, <1>14 DEF After
  <2>3. Input!Pressed(a, g, "Enter") = Prompt("busy", text, Append(got, want), None)
    BY <2>2, <1>1, <1>11, SubmitKey
  <2>4. g.mode = "asking"
    BY <2>2, PickingParts
  <2>5. Listed(enter) /\ Leads(a, g, enter, Prompt("busy", text, Append(got, want), None))
    BY <2>3, <2>4, KeyRuns
  <2>6. /\ Listed(flat \o enter)
        /\ Leads(a, state[0], flat \o enter, Prompt("busy", text, Append(got, want), None))
    BY <1>9, <2>5, ListedJoin, LeadsJoin
  <2>7. flat \o enter # <<>>
    <3>1. Len(flat \o enter) = Len(flat) + Len(enter) /\ Len(flat) \in Nat
      BY <1>9, <2>5, ListedJoin
    <3>2. Len(enter) = 1 /\ Len(<<>>) = 0
      OBVIOUS
    <3> QED
      BY <3>1, <3>2
  <2> QED
    BY <2>1, <2>6, <2>7, <1>4, <1>10
<1> QED
  BY <1>13, <1>14
-----------------------------------------------------------------------------
(* What the scripts of requests are made of.                                 *)

(* Only keys and words: the paste buffer and the footer are not used. *)
Plain(s) == \A k \in 1..Len(s) : s[k].cmd \in {"keys", "type"}

Bufferless(s) == Listed(s) /\ Plain(s)

LEMMA BufferlessJoin ==
    ASSUME NEW s, Bufferless(s), NEW t, Bufferless(t)
    PROVE  Bufferless(s \o t)
<1> PICK j, k, u : j = Len(s) /\ k = Len(t) /\ u = s \o t
  OBVIOUS
<1>1. /\ Listed(u) /\ j \in Nat /\ k \in Nat /\ Len(u) = j + k
      /\ \A i \in 1..j : u[i] = s[i]
      /\ \A i \in 1..k : u[j + i] = t[i]
  BY ListedJoin DEF Bufferless
<1>2. /\ \A i \in 1..j : s[i].cmd \in {"keys", "type"}
      /\ \A i \in 1..k : t[i].cmd \in {"keys", "type"}
  BY DEF Bufferless, Plain
<1>3. ASSUME NEW i \in 1..(j + k) PROVE u[i].cmd \in {"keys", "type"}
  <2>1. CASE i <= j
    <3>1. i \in 1..j
      BY <1>1, <2>1
    <3> QED
      BY <1>1, <1>2, <3>1
  <2>2. CASE i > j
    <3>1. i - j \in 1..k /\ j + (i - j) = i
      BY <1>1, <2>2
    <3>2. u[j + (i - j)] = t[i - j]
      BY <1>1, <3>1
    <3> QED
      BY <1>2, <3>1, <3>2
  <2> QED
    BY <2>1, <2>2, <1>1
<1> QED
  BY <1>1, <1>3 DEF Bufferless, Plain

LEMMA BufferlessFlat ==
    ASSUME NEW n \in Nat, NEW seqs, seqs = [i \in 1..n |-> seqs[i]], \A i \in 1..n : Bufferless(seqs[i])
    PROVE  Bufferless(Input!FlattenSeq(seqs))
<1>1. Len(seqs) = n
  OBVIOUS
<1>2. CASE n = 0
  <2>1. seqs = <<>> /\ <<>> \in Seq({}) /\ Len(<<>>) = 0
    BY <1>2
  <2>2. Bufferless(<<>>)
    BY <2>1 DEF Bufferless, Listed, Plain
  <2> QED
    BY <1>1, <1>2, <2>1, <2>2 DEF Input!FlattenSeq
<1>3. CASE n # 0
  <2> DEFINE f == CHOOSE f : Joins(f, seqs, n)
             S == UNION {{seqs[i][j] : j \in 1..Len(seqs[i])} : i \in 1..n}
  <2>1. ASSUME NEW i \in 1..n PROVE seqs[i] \in Seq(S)
    <3> PICK s : s = seqs[i]
      OBVIOUS
    <3>1. PICK T : s \in Seq(T)
      BY DEF Bufferless, Listed
    <3>2. \A j \in 1..Len(s) : s[j] \in S
      OBVIOUS
    <3> HIDE DEF S
    <3>3. s \in Seq(S)
      BY ONLY <3>1, <3>2
    <3> QED
      BY <3>3
  <2> HIDE DEF S
  <2>2. seqs \in [1..n -> Seq(S)]
    BY <2>1
  <2>3. Joins(f, seqs, n)
    BY <2>2, JoinExists
  <2>4. Input!FlattenSeq(seqs) = f[n]
    BY <1>1, <1>3, <2>2 DEF Input!FlattenSeq, Joins
  <2> HIDE DEF f
  <2> DEFINE Good == {k \in Nat : k + 1 <= n => Bufferless(f[k + 1])}
  <2>5. 0 \in Good
    <3>1. f[1] = seqs[1] /\ 1 \in 1..n
      BY <2>3, <1>3 DEF Joins
    <3> QED
      BY <3>1
  <2>6. ASSUME NEW k \in Nat, k \in Good PROVE k + 1 \in Good
    <3> SUFFICES ASSUME k + 2 <= n PROVE Bufferless(f[(k + 1) + 1])
      BY <2>6
    <3>1. k + 2 \in 1..n /\ k + 2 # 1 /\ (k + 2) - 1 = k + 1 /\ (k + 1) + 1 = k + 2 /\ k + 1 <= n
      BY <2>6
    <3>2. f[k + 2] = f[k + 1] \o seqs[k + 2]
      BY <2>3, <3>1 DEF Joins
    <3>3. Bufferless(f[k + 1]) /\ Bufferless(seqs[k + 2])
      BY <2>6, <3>1
    <3> QED
      BY <3>1, <3>2, <3>3, BufferlessJoin
  <2> HIDE DEF Good
  <2>7. Nat \subseteq Good
    BY <2>5, <2>6, Induct
  <2>8. n - 1 \in Nat /\ (n - 1) + 1 = n
    BY <1>3
  <2>9. Bufferless(f[(n - 1) + 1])
    <3>1. n - 1 \in Good
      BY <2>7, <2>8
    <3> QED
      BY <3>1, <2>8 DEF Good
  <2> QED
    BY <2>4, <2>8, <2>9
<1> QED
  BY <1>2, <1>3

LEMMA BufferlessOne ==
    /\ Bufferless(<<>>)
    /\ \A ks : Bufferless(<<Input!Keys(ks)>>)
    /\ \A key : Bufferless(<<Input!Key(key)>>)
<1>1. \A ks : Bufferless(<<Input!Keys(ks)>>)
  <2> TAKE ks
  <2> PICK c, s : c = Input!Keys(ks) /\ s = <<c>>
    OBVIOUS
  <2>1. c.cmd = "keys"
    BY DEF Input!Keys
  <2>2. s \in Seq({c}) /\ Len(s) = 1 /\ s[1] = c
    OBVIOUS
  <2>3. \A k \in 1..1 : k = 1
    OBVIOUS
  <2> QED
    BY <2>1, <2>2, <2>3 DEF Bufferless, Listed, Plain
<1>2. Bufferless(<<>>)
  <2>1. <<>> \in Seq({}) /\ Len(<<>>) = 0
    OBVIOUS
  <2> QED
    BY <2>1 DEF Bufferless, Listed, Plain
<1> QED
  BY <1>1, <1>2 DEF Input!Key

LEMMA BufferlessMap ==
    ASSUME NEW n \in Nat, NEW s, s = [i \in 1..n |-> s[i]],
           \A i \in 1..n : s[i].cmd \in {"keys", "type"}
    PROVE  Bufferless(s) /\ Len(s) = n
<1>1. s \in Seq({s[i] : i \in 1..n}) /\ Len(s) = n
  OBVIOUS
<1> QED
  BY <1>1 DEF Bufferless, Listed, Plain

LEMMA TypingBufferless ==
    ASSUME NEW S, NEW w \in Seq(S)
    PROVE  Bufferless(Input!TmuxSendKeys(w)) /\ Len(Input!TmuxSendKeys(w)) = Len(w) + 1
<1> PICK n, s, enter : n = Len(w) /\ s = [i \in DOMAIN w |-> Input!Type(<<w[i]>>)] /\ enter = <<Input!Key("Enter")>>
  OBVIOUS
<1>1. n \in Nat /\ DOMAIN w = 1..n
  OBVIOUS
<1>2. s = [i \in 1..n |-> s[i]] /\ \A i \in 1..n : s[i].cmd = "type"
  BY <1>1 DEF Input!Type
<1>3. Bufferless(s) /\ Len(s) = n
  BY <1>1, <1>2, BufferlessMap
<1>4. Bufferless(enter) /\ Len(enter) = 1
  BY BufferlessOne
<1>5. Len(s \o enter) = Len(s) + Len(enter)
  BY <1>3, <1>4, ListedJoin DEF Bufferless
<1> QED
  BY <1>3, <1>4, <1>5, BufferlessJoin DEF Input!TmuxSendKeys

(* The scripts of cards, whether the cards fit or not. *)
LEMMA ScriptBufferless ==
    ASSUME NEW a, NEW S, NEW cs \in Seq(S),
           \A i \in 1..Len(cs) : /\ cs[i].options \in Nat /\ cs[i].picks \in Seq(Nat)
                                 /\ cs[i].other \in Seq(Input!Words)
                                 /\ cs[i].other # <<>> \/ cs[i].picks # <<>>
    PROVE  Bufferless(Script(a, cs))
<1> PICK n : n = Len(cs)
  OBVIOUS
<1>1. n \in Nat /\ DOMAIN cs = 1..n
  OBVIOUS
<1>2. ASSUME NEW k \in Nat PROVE Bufferless(Downs(k))
  <2> PICK s : s = Downs(k)
    OBVIOUS
  <2>1. s = [i \in 1..k |-> s[i]] /\ \A i \in 1..k : s[i].cmd = "keys"
    BY DEF Downs, Input!Key, Input!Keys
  <2> QED
    BY <2>1, BufferlessMap
<1>3. ASSUME NEW picks \in Seq(Nat) PROVE Bufferless(Marking(picks))
  <2> PICK k, s : k = Len(picks) /\ s = Marking(picks)
    OBVIOUS
  <2>1. k \in Nat /\ s = [i \in 1..k |-> s[i]] /\ \A i \in 1..k : s[i].cmd = "keys"
    BY DEF Marking, Input!Keys
  <2> QED
    BY <2>1, BufferlessMap
<1>4. \A w \in Seq(Input!Words) : Bufferless(Input!TmuxSendKeys(w))
  BY TypingBufferless
<1>5. ASSUME NEW i \in 1..n PROVE Bufferless(ClaudeKeysOf(cs[i])) /\ Bufferless(CodexKeysOf(cs[i]))
  <2> PICK c, options, picks, other : c = cs[i] /\ options = c.options /\ picks = c.picks /\ other = c.other
    OBVIOUS
  <2>1. options \in Nat /\ picks \in Seq(Nat) /\ other \in Seq(Input!Words) /\ (other # <<>> \/ picks # <<>>)
    OBVIOUS
  <2>2. picks # <<>> => Head(picks) \in Nat
    BY <2>1
  <2>3. Bufferless(ClaudeKeysOf(c))
    BY <2>1, <1>3, <1>4, BufferlessOne, BufferlessJoin DEF ClaudeKeysOf
  <2>4. Bufferless(CodexKeysOf(c))
    BY <2>1, <2>2, <1>2, <1>4, BufferlessOne, BufferlessJoin DEF CodexKeysOf
  <2> QED
    BY <2>3, <2>4
<1> DEFINE codex == [i \in 1..n |-> CodexKeysOf(cs[i])]
           claude == [i \in 1..n |-> ClaudeKeysOf(cs[i])]
<1>6. Bufferless(Input!FlattenSeq(codex))
  <2>1. codex = [i \in 1..n |-> codex[i]] /\ \A i \in 1..n : Bufferless(codex[i])
    BY <1>5
  <2> HIDE DEF codex
  <2> QED
    BY <2>1, <1>1, BufferlessFlat
<1>7. Bufferless(Input!FlattenSeq(claude))
  <2>1. claude = [i \in 1..n |-> claude[i]] /\ \A i \in 1..n : Bufferless(claude[i])
    BY <1>5
  <2> HIDE DEF claude
  <2> QED
    BY <2>1, <1>1, BufferlessFlat
<1> HIDE DEF codex, claude
<1>8. Bufferless(Input!FlattenSeq(claude) \o <<Input!Key("Enter")>>)
  BY <1>7, BufferlessOne, BufferlessJoin
<1> QED
  BY <1>1, <1>6, <1>8, CardParts DEF Script, codex, claude
-----------------------------------------------------------------------------
(* The replies at a prompt.                                                  *)

LEMMA PromptChanged ==
    ASSUME NEW mode, NEW text, NEW got, NEW picker, NEW g, g = Prompt(mode, text, got, picker), NEW x
    PROVE  [g EXCEPT !.text = x] = Prompt(mode, x, got, picker)
BY DEF Prompt

LEMMA TypedText ==
    ASSUME NEW mode, mode # "asking", NEW text, NEW got, NEW picker, NEW g,
           g = Prompt(mode, text, got, picker), NEW ws
    PROVE  Input!Typed(g, ws) = Prompt(mode, text \o ws, got, picker)
<1>1. g.mode # "asking" /\ g.text = text
  BY PromptParts
<1> PICK new : new = text \o ws
  OBVIOUS
<1>2. [g EXCEPT !.text = new] = Prompt(mode, new, got, picker)
  BY ONLY g = Prompt(mode, text, got, picker) DEF Prompt
<1> QED
  BY <1>1, <1>2 DEF Input!Typed

LEMMA ClearedText ==
    ASSUME NEW a, NEW mode, mode \in {"idle", "busy"}, NEW text, NEW got, NEW picker, NEW g,
           g = Prompt(mode, text, got, picker)
    PROVE  Input!Pressed(a, g, "C-u") = Prompt(mode, <<>>, got, picker)
<1>1. g.mode \in {"idle", "busy"}
  BY PromptParts
<1>2. [g EXCEPT !.text = <<>>] = Prompt(mode, <<>>, got, picker)
  BY PromptChanged
<1> QED
  BY <1>1, <1>2 DEF Input!Pressed, Input!Digits

(* Enter gives the agent its prompt's text, except to a busy codex. *)
LEMMA EnteredText ==
    ASSUME NEW a, NEW mode, mode \in {"idle", "busy"}, mode = "idle" \/ a \notin OfCodex,
           NEW text, text # <<>>, NEW got, NEW picker, NEW g, g = Prompt(mode, text, got, picker)
    PROVE  Input!Pressed(a, g, "Enter") = Prompt("busy", <<>>, Append(got, text), None)
<1>1. g.mode = mode /\ g.text = text
  BY PromptParts
<1> PICK h : h = [g EXCEPT !.text = <<>>]
  OBVIOUS
<1>2. h = Prompt(mode, <<>>, got, picker)
  BY PromptChanged
<1>3. Input!Given(h, text) = Prompt("busy", <<>>, Append(got, text), None)
  BY <1>2, GivenFact
<1>4. Input!Pressed(a, g, "Enter") = Input!Given(h, text)
  BY <1>1 DEF Input!Pressed, Input!Digits
<1> QED
  BY <1>3, <1>4

LEMMA EnteredNothing ==
    ASSUME NEW a, NEW mode, mode \in {"idle", "busy"}, NEW got, NEW picker, NEW g,
           g = Prompt(mode, <<>>, got, picker)
    PROVE  Input!Pressed(a, g, "Enter") = g
<1>1. g.mode \in {"idle", "busy"} /\ g.text = <<>>
  BY PromptParts
<1> QED
  BY <1>1 DEF Input!Pressed, Input!Digits

(* Tab gives it to a busy codex, and does nothing to an idle one. *)
LEMMA TabbedText ==
    ASSUME NEW a \in OfCodex, NEW text, text # <<>>, NEW got, NEW picker
    PROVE  /\ \A g : g = Prompt("busy", text, got, picker)
                  => Input!Pressed(a, g, "Tab") = Prompt("busy", <<>>, Append(got, text), None)
           /\ \A g : g = Prompt("idle", text, got, picker) => Input!Pressed(a, g, "Tab") = g
<1>1. ASSUME NEW g, g = Prompt("busy", text, got, picker)
      PROVE  Input!Pressed(a, g, "Tab") = Prompt("busy", <<>>, Append(got, text), None)
  <2>1. g.mode = "busy" /\ g.text = text
    BY <1>1, PromptParts
  <2> PICK h : h = [g EXCEPT !.text = <<>>]
    OBVIOUS
  <2>2. h = Prompt("busy", <<>>, got, picker)
    BY <1>1, PromptChanged
  <2>3. Input!Given(h, text) = Prompt("busy", <<>>, Append(got, text), None)
    BY <2>2, GivenFact
  <2>4. Input!Pressed(a, g, "Tab") = Input!Given(h, text)
    BY <2>1 DEF Input!Pressed, Input!Digits
  <2> QED
    BY <2>3, <2>4
<1>2. ASSUME NEW g, g = Prompt("idle", text, got, picker) PROVE Input!Pressed(a, g, "Tab") = g
  <2>1. g.mode = "idle"
    BY <1>2, PromptParts
  <2> QED
    BY <2>1 DEF Input!Pressed, Input!Digits
<1> QED
  BY <1>1, <1>2

(* The n-th thing given to the agent is w. *)
Holds(got, n, w) == n \in DOMAIN got /\ got[n] = w

LEMMA AppendHolds ==
    ASSUME NEW got, Listed(got), NEW w
    PROVE  Holds(Append(got, w), Len(got) + 1, w)
<1>1. PICK S : got \in Seq(S)
  BY DEF Listed
<1>2. Append(got, w) \in Seq(S \cup {w}) /\ Len(Append(got, w)) = Len(got) + 1
      /\ Append(got, w)[Len(got) + 1] = w /\ Len(got) \in Nat
  BY <1>1
<1> QED
  BY <1>2 DEF Holds

(* A reply to claude of which the first k words are typed. *)
ClaudeReply(script, want, nth, g) ==
    /\ g.mode # "asking" /\ nth = Len(g.got) + 1 /\ want # <<>> /\ Listed(want)
    /\ \E k \in 0..Len(want) :
           /\ script = SubSeq(Input!TmuxSendKeys(want), k + 1, Len(want) + 1)
           /\ g.text = SubSeq(want, 1, k)

LEMMA TypingParts ==
    ASSUME NEW want, Listed(want)
    PROVE  /\ Len(want) \in Nat
           /\ \A k \in 0..Len(want) :
                  LET s == SubSeq(Input!TmuxSendKeys(want), k + 1, Len(want) + 1)
                  IN  /\ s # <<>>
                      /\ Head(s) = IF k = Len(want) THEN Input!Key("Enter") ELSE Input!Type(<<want[k + 1]>>)
                      /\ Tail(s) = SubSeq(Input!TmuxSendKeys(want), k + 2, Len(want) + 1)
                      /\ k = Len(want) => Tail(s) = <<>>
<1>1. PICK S : want \in Seq(S)
  BY DEF Listed
<1> PICK n, s, t, enter : /\ n = Len(want) /\ s = [i \in DOMAIN want |-> Input!Type(<<want[i]>>)]
                          /\ enter = Input!Key("Enter") /\ t = Input!TmuxSendKeys(want)
  OBVIOUS
<1>2. n \in Nat /\ DOMAIN want = 1..n
  BY <1>1
<1>3. t = s \o <<enter>>
  BY DEF Input!TmuxSendKeys
<1>4. s \in Seq({Input!Type(<<want[i]>>) : i \in 1..n}) /\ Len(s) = n
  BY <1>2
<1>5. PICK T : s \in Seq(T)
  BY <1>4
<1>6. /\ t \in Seq(T \cup {enter}) /\ Len(t) = n + 1 /\ t[n + 1] = enter
      /\ \A i \in 1..n : t[i] = s[i]
  BY ONLY <1>2, <1>3, <1>4, <1>5
<1>7. \A i \in 1..n : s[i] = Input!Type(<<want[i]>>)
  BY <1>2
<1>8. ASSUME NEW k \in 0..n, NEW u, u = SubSeq(t, k + 1, n + 1)
      PROVE  /\ u # <<>> /\ Head(u) = t[k + 1] /\ Tail(u) = SubSeq(t, k + 2, n + 1)
             /\ k = n => Tail(u) = <<>>
  BY ONLY <1>2, <1>6, <1>8
<1>9. \A k \in 0..n : t[k + 1] = IF k = n THEN enter ELSE Input!Type(<<want[k + 1]>>)
  <2> TAKE k \in 0..n
  <2>1. k # n => k + 1 \in 1..n
    BY <1>2
  <2> QED
    BY <2>1, <1>6, <1>7
<1> QED
  BY <1>2, <1>8, <1>9

LEMMA ClaudeReplyStep ==
    ASSUME NEW a, a \notin OfCodex, NEW g, PromptShape(g), NEW script, NEW want, NEW nth,
           ClaudeReply(script, want, nth, g), NEW h, h = Do(a, g, Head(script))
    PROVE  \/ ClaudeReply(Tail(script), want, nth, h)
           \/ Tail(script) = <<>> /\ Holds(h.got, nth, want)
<1> PICK mode, text, got, picker : g = Prompt(mode, text, got, picker)
  BY PromptParts
<1>1. /\ g.mode = mode /\ g.text = text /\ g.got = got
      /\ mode \in {"idle", "busy"} /\ Listed(got) /\ nth = Len(got) + 1 /\ want # <<>> /\ Listed(want)
  BY PromptParts DEF ClaudeReply
<1>2. PICK k \in 0..Len(want) :
          /\ script = SubSeq(Input!TmuxSendKeys(want), k + 1, Len(want) + 1)
          /\ text = SubSeq(want, 1, k)
  BY <1>1 DEF ClaudeReply
<1> PICK n : n = Len(want)
  OBVIOUS
<1>3. n \in Nat /\ k \in 0..n
  BY <1>1, <1>2, TypingParts
<1>4. CASE k = n
  <2>1. Head(script) = Input!Key("Enter") /\ Tail(script) = <<>>
    BY <1>1, <1>2, <1>4, TypingParts
  <2>2. h = Input!Pressed(a, g, "Enter")
    BY <2>1, DoFact
  <2>3. text = want
    <3>1. PICK S : want \in Seq(S)
      BY <1>1 DEF Listed
    <3>2. SubSeq(want, 1, Len(want)) = want
      BY <3>1
    <3> QED
      BY <3>2, <1>2, <1>4
  <2>4. h = Prompt("busy", <<>>, Append(got, want), None)
    BY <1>1, <2>2, <2>3, EnteredText
  <2>5. h.got = Append(got, want)
    <3> PICK new, busy, none, empty : new = Append(got, want) /\ busy = "busy" /\ none = None /\ empty = <<>>
      OBVIOUS
    <3>1. h = Prompt(busy, empty, new, none)
      BY <2>4
    <3>2. h.got = new
      BY ONLY <3>1, PromptParts
    <3> QED
      BY <3>2
  <2> QED
    BY <1>1, <2>1, <2>5, AppendHolds
<1>5. CASE k # n
  <2> PICK w : w = <<want[k + 1]>>
    OBVIOUS
  <2>1. Head(script) = Input!Type(w) /\ Tail(script) = SubSeq(Input!TmuxSendKeys(want), k + 2, n + 1)
    BY <1>1, <1>2, <1>5, TypingParts
  <2>2. h = Input!Typed(g, w)
    BY <2>1, DoFact
  <2>3. h = Prompt(mode, text \o w, got, picker)
    BY <1>1, <2>2, TypedText
  <2>4. k + 1 \in 0..n /\ (k + 1) + 1 = k + 2
    BY <1>3, <1>5
  <2>5. text \o w = SubSeq(want, 1, k + 1)
    <3>1. PICK S : want \in Seq(S)
      BY <1>1 DEF Listed
    <3>2. SubSeq(want, 1, k) \o <<want[k + 1]>> = SubSeq(want, 1, k + 1)
      BY ONLY <3>1, <1>3, <2>4, n = Len(want)
    <3> QED
      BY <3>2, <1>2
  <2>6. h.mode = mode /\ h.text = SubSeq(want, 1, k + 1) /\ h.got = got
    <3> PICK new : new = SubSeq(want, 1, k + 1)
      OBVIOUS
    <3>1. h = Prompt(mode, new, got, picker)
      BY <2>3, <2>5
    <3>2. h.mode = mode /\ h.text = new /\ h.got = got
      BY ONLY <3>1, PromptParts
    <3> QED
      BY <3>2
  <2>7. ClaudeReply(Tail(script), want, nth, h)
    BY <1>1, <2>1, <2>4, <2>6 DEF ClaudeReply
  <2> QED
    BY <2>7
<1> QED
  BY <1>4, <1>5

(* A reply to codex, cleared, pasted, looked at and submitted. *)
Preparing(script, want, nth, g, buf) ==
    /\ nth = Len(g.got) + 1
    /\ \E st : \/ script = <<Input!Key("C-u"), Input!SetBuffer(want), Input!Paste, Input!Look(st)>>
               \/ script = <<Input!SetBuffer(want), Input!Paste, Input!Look(st)>> /\ g.text = <<>>
               \/ script = <<Input!Paste, Input!Look(st)>> /\ g.text = <<>> /\ buf = want
               \/ script = <<Input!Look(st)>> /\ g.text = want

Submitting(script, want, nth, g) ==
    \/ /\ nth = Len(g.got) + 1 /\ g.text = want
       /\ \/ script = <<Input!Key("Tab"), Input!Key("Enter")>>
          \/ script = <<Input!Key("Enter")>> /\ g.mode = "idle"
    \/ Holds(g.got, nth, want) /\ g.text = <<>> /\ script = <<Input!Key("Enter")>>

CodexReply(script, want, nth, g, buf) ==
    /\ g.mode # "asking" /\ want # <<>> /\ Listed(want)
    /\ Preparing(script, want, nth, g, buf) \/ Submitting(script, want, nth, g)

LEMMA CommandKinds ==
    /\ \A x : Input!Key(x).cmd = "keys"
    /\ \A x : Input!SetBuffer(x).cmd = "buffer" /\ Input!SetBuffer(x).arg = x
    /\ Input!Paste.cmd = "paste"
    /\ \A x : Input!Look(x).cmd = "look" /\ Input!Look(x).arg = x
BY DEF Input!Key, Input!Keys, Input!SetBuffer, Input!Paste, Input!Look

LEMMA Firsts ==
    /\ \A c : Head(<<c>>) = c /\ Tail(<<c>>) = <<>> /\ Len(<<c>>) = 1
    /\ \A c, d : Head(<<c, d>>) = c /\ Tail(<<c, d>>) = <<d>>
    /\ \A c, d, e : Head(<<c, d, e>>) = c /\ Tail(<<c, d, e>>) = <<d, e>>
    /\ \A c, d, e, f : Head(<<c, d, e, f>>) = c /\ Tail(<<c, d, e, f>>) = <<d, e, f>>
OBVIOUS

LEMMA CodexKeysStep ==
    ASSUME NEW a \in OfCodex, NEW g, PromptShape(g), NEW script, NEW want, NEW nth, NEW buf,
           CodexReply(script, want, nth, g, buf), Head(script).cmd = "keys",
           NEW h, h = Do(a, g, Head(script))
    PROVE  \/ CodexReply(Tail(script), want, nth, h, buf)
           \/ Tail(script) = <<>> /\ Holds(h.got, nth, want)
<1> PICK mode, text, got, picker : g = Prompt(mode, text, got, picker)
  BY PromptParts
<1>1. /\ g.mode = mode /\ g.text = text /\ g.got = got
      /\ mode \in {"idle", "busy"} /\ Listed(got) /\ want # <<>> /\ Listed(want)
  BY PromptParts DEF CodexReply
<1>2. CASE Preparing(script, want, nth, g, buf)
  <2>1. PICK st : script = <<Input!Key("C-u"), Input!SetBuffer(want), Input!Paste, Input!Look(st)>>
    BY <1>2, Firsts, CommandKinds DEF Preparing
  <2>2. Head(script) = Input!Key("C-u") /\ Tail(script) = <<Input!SetBuffer(want), Input!Paste, Input!Look(st)>>
    BY <2>1, Firsts
  <2>3. h = Input!Pressed(a, g, "C-u")
    BY <2>2, DoFact
  <2>4. h = Prompt(mode, <<>>, got, picker)
    BY <2>3, <1>1, ClearedText
  <2>5. h.mode = mode /\ h.text = <<>> /\ h.got = got
    BY <2>4, PromptParts
  <2>6. nth = Len(h.got) + 1
    BY <1>2, <1>1, <2>5 DEF Preparing
  <2>7. Preparing(Tail(script), want, nth, h, buf)
    BY <2>2, <2>5, <2>6 DEF Preparing
  <2> QED
    BY <1>1, <2>5, <2>7 DEF CodexReply
<1>3. CASE script = <<Input!Key("Tab"), Input!Key("Enter")>> /\ text = want /\ nth = Len(got) + 1
  <2>1. Head(script) = Input!Key("Tab") /\ Tail(script) = <<Input!Key("Enter")>>
    BY <1>3, Firsts
  <2>2. h = Input!Pressed(a, g, "Tab")
    BY <2>1, DoFact
  <2>3. CASE mode = "busy"
    <3> PICK new, busy, none, empty : new = Append(got, want) /\ busy = "busy" /\ none = None /\ empty = <<>>
      OBVIOUS
    <3>1. h = Prompt(busy, empty, new, none)
      BY <2>2, <2>3, <1>1, <1>3, TabbedText
    <3>2. h.mode = busy /\ h.text = empty /\ h.got = new
      BY ONLY <3>1, PromptParts
    <3>3. Holds(new, nth, want)
      BY <1>1, <1>3, AppendHolds
    <3>4. Submitting(Tail(script), want, nth, h)
      BY <2>1, <3>2, <3>3 DEF Submitting
    <3> QED
      BY <1>1, <3>2, <3>4 DEF CodexReply
  <2>4. CASE mode = "idle"
    <3>1. h = g
      BY <2>2, <2>4, <1>1, <1>3, TabbedText
    <3>2. Submitting(Tail(script), want, nth, h)
      BY <2>1, <2>4, <3>1, <1>1, <1>3 DEF Submitting
    <3> QED
      BY <1>1, <3>1, <3>2 DEF CodexReply
  <2> QED
    BY <1>1, <2>3, <2>4
<1>4. CASE script = <<Input!Key("Enter")>> /\ text = want /\ nth = Len(got) + 1 /\ mode = "idle"
  <2>1. Head(script) = Input!Key("Enter") /\ Tail(script) = <<>>
    BY <1>4, Firsts
  <2>2. h = Input!Pressed(a, g, "Enter")
    BY <2>1, DoFact
  <2> PICK new, busy, none, empty : new = Append(got, want) /\ busy = "busy" /\ none = None /\ empty = <<>>
    OBVIOUS
  <2>3. h = Prompt(busy, empty, new, none)
    BY <2>2, <1>1, <1>4, EnteredText
  <2>4. h.got = new
    BY ONLY <2>3, PromptParts
  <2> QED
    BY <1>1, <1>4, <2>1, <2>4, AppendHolds
<1>5. CASE script = <<Input!Key("Enter")>> /\ text = <<>> /\ Holds(got, nth, want)
  <2>1. Head(script) = Input!Key("Enter") /\ Tail(script) = <<>>
    BY <1>5, Firsts
  <2>2. h = Input!Pressed(a, g, "Enter")
    BY <2>1, DoFact
  <2>3. h = g
    BY <2>2, <1>1, <1>5, EnteredNothing
  <2> QED
    BY <1>1, <1>5, <2>1, <2>3
<1> QED
  BY <1>1, <1>2, <1>3, <1>4, <1>5 DEF CodexReply, Submitting

LEMMA CodexBufferStep ==
    ASSUME NEW g, NEW script, NEW want, NEW nth, NEW buf,
           CodexReply(script, want, nth, g, buf), Head(script).cmd = "buffer"
    PROVE  CodexReply(Tail(script), want, nth, g, Head(script).arg)
<1>1. Preparing(script, want, nth, g, buf)
  BY Firsts, CommandKinds DEF CodexReply, Submitting
<1>2. PICK st : script = <<Input!SetBuffer(want), Input!Paste, Input!Look(st)>> /\ g.text = <<>>
  BY <1>1, Firsts, CommandKinds DEF Preparing
<1>3. Head(script).arg = want /\ Tail(script) = <<Input!Paste, Input!Look(st)>>
  BY <1>2, Firsts, CommandKinds
<1>4. Preparing(Tail(script), want, nth, g, Head(script).arg)
  BY <1>1, <1>2, <1>3 DEF Preparing
<1> QED
  BY <1>4 DEF CodexReply

LEMMA CodexPasteStep ==
    ASSUME NEW g, PromptShape(g), NEW script, NEW want, NEW nth, NEW buf, NEW new,
           CodexReply(script, want, nth, g, buf), Head(script).cmd = "paste"
    PROVE  CodexReply(Tail(script), want, nth, Input!Typed(g, buf), new)
<1> PICK mode, text, got, picker : g = Prompt(mode, text, got, picker)
  BY PromptParts
<1>1. /\ g.mode = mode /\ g.text = text /\ g.got = got
      /\ mode # "asking" /\ want # <<>> /\ Listed(want)
  BY PromptParts DEF CodexReply
<1>2. Preparing(script, want, nth, g, buf)
  BY Firsts, CommandKinds DEF CodexReply, Submitting
<1>3. PICK st : script = <<Input!Paste, Input!Look(st)>> /\ text = <<>> /\ buf = want
  BY <1>1, <1>2, Firsts, CommandKinds DEF Preparing
<1>4. Tail(script) = <<Input!Look(st)>>
  BY <1>3, Firsts
<1> PICK h, pasted : h = Input!Typed(g, buf) /\ pasted = text \o buf
  OBVIOUS
<1>5. h = Prompt(mode, pasted, got, picker)
  BY <1>1, TypedText
<1>6. pasted = want
  <2>1. PICK S : want \in Seq(S)
    BY <1>1 DEF Listed
  <2>2. <<>> \o want = want
    BY <2>1
  <2> QED
    BY <2>2, <1>3
<1>7. h.mode = mode /\ h.text = want /\ h.got = got
  BY ONLY <1>5, <1>6, PromptParts
<1>8. Preparing(Tail(script), want, nth, h, new)
  BY <1>1, <1>2, <1>4, <1>7 DEF Preparing
<1> QED
  BY <1>1, <1>7, <1>8 DEF CodexReply

(* After the look the keys that submit are those of the agent's mode. *)
LEMMA CodexLookStep ==
    ASSUME NEW g, PromptShape(g), NEW script, NEW want, NEW nth, NEW buf, NEW state,
           CodexReply(script, want, nth, g, buf), Head(script).cmd = "look"
    PROVE  /\ CodexReply(Input!SubmitKeys(g.mode = "busy" /\ g.text # <<>>, state), want, nth, g, buf)
           /\ Input!stateMayQueue(state) \/ g.mode = "idle"
                  => CodexReply(Input!fallbackSubmitKeys(state), want, nth, g, buf)
<1>1. Preparing(script, want, nth, g, buf)
  BY Firsts, CommandKinds DEF CodexReply, Submitting
<1>2. nth = Len(g.got) + 1 /\ g.text = want /\ want # <<>> /\ Listed(want)
  BY <1>1, Firsts, CommandKinds DEF Preparing, CodexReply
<1>3. g.mode \in {"idle", "busy"}
  BY DEF CodexReply, PromptShape
<1>4. CodexReply(<<Input!Key("Tab"), Input!Key("Enter")>>, want, nth, g, buf)
  BY <1>2, <1>3 DEF CodexReply, Submitting
<1>5. g.mode = "idle" => CodexReply(<<Input!Key("Enter")>>, want, nth, g, buf)
  BY <1>2, <1>3 DEF CodexReply, Submitting
<1> HIDE DEF CodexReply
<1>6. CodexReply(Input!SubmitKeys(g.mode = "busy" /\ g.text # <<>>, state), want, nth, g, buf)
  BY <1>2, <1>3, <1>4, <1>5 DEF Input!SubmitKeys
<1>7. Input!stateMayQueue(state) \/ g.mode = "idle"
          => CodexReply(Input!fallbackSubmitKeys(state), want, nth, g, buf)
  BY <1>4, <1>5 DEF Input!fallbackSubmitKeys
<1> QED
  BY <1>6, <1>7
-----------------------------------------------------------------------------
(* What is still to be sent will give the agent, as its next thing, what was *)
(* asked; or it has.                                                         *)
Coming(kind, to, script, want, nth, g, buf) ==
    \/ script = <<>> /\ Holds(g.got, nth, want)
    \/ kind = "reply" /\ to \notin OfCodex /\ ClaudeReply(script, want, nth, g)
    \/ kind = "reply" /\ to \in OfCodex /\ CodexReply(script, want, nth, g, buf)
    \/ kind = "answer" /\ \E h : Leads(to, g, script, h) /\ Holds(h.got, nth, want)

LEMMA ComingCommand ==
    ASSUME NEW kind, NEW to, NEW script, Listed(script), script # <<>>, NEW want, NEW nth, NEW g, NEW buf,
           PromptShape(g), Coming(kind, to, script, want, nth, g, buf),
           Head(script).cmd \in {"keys", "type"}
    PROVE  Coming(kind, to, Tail(script), want, nth, Do(to, g, Head(script)), buf)
<1> PICK h : h = Do(to, g, Head(script))
  OBVIOUS
<1>1. CASE kind = "reply" /\ to \notin OfCodex /\ ClaudeReply(script, want, nth, g)
  BY <1>1, ClaudeReplyStep DEF Coming
<1>2. CASE kind = "reply" /\ to \in OfCodex /\ CodexReply(script, want, nth, g, buf)
  <2>1. Head(script).cmd # "type"
    BY <1>2, Firsts, CommandKinds DEF CodexReply, Preparing, Submitting
  <2>2. Head(script).cmd = "keys"
    BY <2>1
  <2> QED
    BY <1>2, <2>2, CodexKeysStep DEF Coming
<1>3. CASE kind = "answer" /\ \E i : Leads(to, g, script, i) /\ Holds(i.got, nth, want)
  <2>1. PICK i : Leads(to, g, script, i) /\ Holds(i.got, nth, want)
    BY <1>3
  <2>2. Leads(to, h, Tail(script), i)
    BY <2>1, LeadsHead
  <2> QED
    BY <1>3, <2>1, <2>2 DEF Coming
<1> QED
  BY <1>1, <1>2, <1>3 DEF Coming

(* A picker that awaits more keys is open. *)
LEMMA ComingAsks ==
    ASSUME NEW kind, NEW to, NEW script, Listed(script), script # <<>>, NEW want, NEW nth, NEW g, NEW buf,
           Coming(kind, to, script, want, nth, g, buf), g.mode # "asking"
    PROVE  kind = "reply"
BY LeadsHead DEF Coming

(* A turn begins or ends at a prompt: it only matters to a reply to codex  *)
(* whose footer was read.                                                  *)
LEMMA ComingTurn ==
    ASSUME NEW kind, NEW to, NEW script, Listed(script), NEW want, NEW nth, NEW g, NEW buf,
           PromptShape(g), Coming(kind, to, script, want, nth, g, buf), g.mode # "asking",
           NEW mode, mode \in {"idle", "busy"},
           mode = "idle" \/ to \notin OfCodex \/ script = <<>> \/ \E i \in DOMAIN script : script[i].cmd = "look"
    PROVE  Coming(kind, to, script, want, nth, [g EXCEPT !.mode = mode], buf)
<1> PICK old, text, got, picker : g = Prompt(old, text, got, picker)
  BY PromptParts
<1> PICK h : h = [g EXCEPT !.mode = mode]
  OBVIOUS
<1>1. h = Prompt(mode, text, got, picker)
  BY ONLY h = [g EXCEPT !.mode = mode], g = Prompt(old, text, got, picker) DEF Prompt
<1>2. h.mode = mode /\ h.text = text /\ h.got = got
  BY ONLY <1>1, PromptParts
<1>3. g.mode = old /\ g.text = text /\ g.got = got
  BY PromptParts
<1>4. CASE script = <<>> /\ Holds(got, nth, want)
  BY <1>2, <1>4 DEF Coming
<1>5. CASE kind = "reply" /\ to \notin OfCodex /\ ClaudeReply(script, want, nth, g)
  <2>1. ClaudeReply(script, want, nth, h)
    BY <1>2, <1>3, <1>5 DEF ClaudeReply
  <2> QED
    BY <1>5, <2>1 DEF Coming
<1>6. CASE kind = "reply" /\ to \in OfCodex /\ CodexReply(script, want, nth, g, buf)
  <2>1. CASE Preparing(script, want, nth, g, buf)
    <3>1. Preparing(script, want, nth, h, buf)
      BY <1>2, <1>3, <2>1 DEF Preparing
    <3> QED
      BY <1>2, <1>6, <3>1 DEF Coming, CodexReply
  <2>2. CASE Submitting(script, want, nth, g)
    <3>1. mode = "idle"
      <4>1. script # <<>>
        BY <2>2 DEF Submitting
      <4>2. \A i \in DOMAIN script : script[i].cmd = "keys"
        <5> PICK tab, enter : tab = Input!Key("Tab") /\ enter = Input!Key("Enter")
          OBVIOUS
        <5>1. tab.cmd = "keys" /\ enter.cmd = "keys"
          BY CommandKinds
        <5>2. \A i \in DOMAIN <<tab, enter>> : <<tab, enter>>[i] \in {tab, enter}
          OBVIOUS
        <5>3. \A i \in DOMAIN <<enter>> : <<enter>>[i] \in {enter}
          OBVIOUS
        <5>4. script = <<tab, enter>> \/ script = <<enter>>
          BY <2>2 DEF Submitting
        <5> QED
          BY <5>1, <5>2, <5>3, <5>4
      <4> QED
        BY <1>6, <4>1, <4>2
    <3>2. Submitting(script, want, nth, h)
      BY <1>2, <1>3, <2>2, <3>1 DEF Submitting
    <3> QED
      BY <1>2, <1>6, <3>2 DEF Coming, CodexReply
  <2> QED
    BY <1>6, <2>1, <2>2 DEF CodexReply
<1>7. CASE kind = "answer" /\ \E i : Leads(to, g, script, i) /\ Holds(i.got, nth, want)
  <2>1. PICK i : Leads(to, g, script, i) /\ Holds(i.got, nth, want)
    BY <1>7
  <2>2. script = <<>>
    BY <2>1, LeadsHead
  <2>3. i = g
    BY <2>1, <2>2, LeadsNothing
  <2> QED
    BY <1>2, <1>3, <2>1, <2>2, <2>3 DEF Coming
<1> QED
  BY <1>3, <1>4, <1>5, <1>6, <1>7 DEF Coming
-----------------------------------------------------------------------------
(* The requests.                                                             *)
Asked(to, kind, target, script, failed, want, nth, calm) ==
    [to |-> to, kind |-> kind, target |-> target, script |-> script, failed |-> failed,
     want |-> want, nth |-> nth, calm |-> calm]

Whole(x) == x = Asked(x.to, x.kind, x.target, x.script, x.failed, x.want, x.nth, x.calm)

Calm(x) == x.calm /\ ~x.failed

(* The same request, of which no more is said than that it is undisturbed. *)
Later(x, y) ==
    /\ Whole(y) /\ y.to = x.to /\ y.kind = x.kind /\ y.target = x.target
    /\ y.want = x.want /\ y.nth = x.nth
    /\ Calm(y) => Calm(x)

LEMMA AskedParts ==
    ASSUME NEW to, NEW kind, NEW target, NEW script, NEW failed, NEW want, NEW nth, NEW calm, NEW x,
           x = Asked(to, kind, target, script, failed, want, nth, calm)
    PROVE  /\ Whole(x) /\ x.to = to /\ x.kind = kind /\ x.target = target /\ x.script = script
           /\ x.failed = failed /\ x.want = want /\ x.nth = nth /\ x.calm = calm
BY DEF Asked, Whole

LEMMA WholeParts ==
    ASSUME NEW x, Whole(x)
    PROVE  \E to, kind, target, script, failed, want, nth, calm :
               x = Asked(to, kind, target, script, failed, want, nth, calm)
BY DEF Whole

(* A request that is disturbed. *)
LEMMA DimFact ==
    ASSUME NEW x, Whole(x), NEW y, y = [x EXCEPT !.calm = FALSE]
    PROVE  Later(x, y) /\ y.script = x.script /\ ~Calm(y)
<1> PICK to, kind, target, script, failed, want, nth, calm :
         x = Asked(to, kind, target, script, failed, want, nth, calm)
  BY WholeParts
<1> PICK b : b = FALSE
  OBVIOUS
<1>1. y = Asked(to, kind, target, script, failed, want, nth, b)
  BY ONLY b = FALSE, y = [x EXCEPT !.calm = FALSE],
          x = Asked(to, kind, target, script, failed, want, nth, calm) DEF Asked
<1>2. /\ x.to = to /\ x.kind = kind /\ x.target = target /\ x.script = script /\ x.want = want /\ x.nth = nth
  BY AskedParts
<1>3. /\ Whole(y) /\ y.to = to /\ y.kind = kind /\ y.target = target /\ y.script = script
      /\ y.want = want /\ y.nth = nth /\ y.calm = b
  BY ONLY <1>1, AskedParts
<1>4. ~Calm(y)
  BY ONLY <1>3, b = FALSE DEF Calm
<1> QED
  BY ONLY <1>2, <1>3, <1>4 DEF Later
-----------------------------------------------------------------------------
(* The invariant: an undisturbed request is aimed at its agent's pane, no    *)
(* other reaches that agent or shares its paste buffer, and what it has still *)
(* to send brings what was asked.                                            *)
ByPaste(x) == x.kind = "reply" /\ x.to \in OfCodex

RequestShape(x) ==
    /\ Whole(x) /\ x.to \in Agents /\ x.target \in Nat /\ Listed(x.script)
    /\ ByPaste(x) \/ Plain(x.script)

Reach(x, w) == {x.to} \cup {w[i] : i \in {x.target} \cap DOMAIN w}

Apart(x, y, w) == x.to \notin Reach(y, w) /\ ~(ByPaste(x) /\ ByPaste(y))

Going(x, w, ag, buf) ==
    /\ x.target \in DOMAIN w /\ w[x.target] = x.to
    /\ Coming(x.kind, x.to, x.script, x.want, x.nth, ag[x.to], buf)

PromptsInv == agent = [a \in Agents |-> agent[a]] /\ \A a \in Agents : PromptShape(agent[a])

RequestsInv ==
    /\ sender = [p \in Senders |-> sender[p]]
    /\ \A p \in Senders : sender[p] # None => RequestShape(sender[p])

GoingInv == \A p \in Senders : sender[p] # None /\ Calm(sender[p]) => Going(sender[p], window, agent, buffer)

ApartInv ==
    \A p, q \in Senders :
        p # q /\ sender[p] # None /\ sender[q] # None /\ Calm(sender[p]) => Apart(sender[p], sender[q], window)

InputInv == window \in Seq(Agents) /\ PromptsInv /\ RequestsInv /\ GoingInv /\ ApartInv

LEMMA LaterFact ==
    ASSUME NEW x, RequestShape(x), NEW y, Later(x, y), Listed(y.script), ByPaste(x) \/ Plain(y.script)
    PROVE  RequestShape(y)
BY DEF RequestShape, Later, ByPaste

LEMMA LaterApart ==
    ASSUME NEW x, NEW y, NEW x2, NEW y2, Later(x, x2), Later(y, y2), NEW w, Apart(x, y, w)
    PROVE  Apart(x2, y2, w)
BY DEF Apart, Later, ByPaste, Reach

LEMMA ComingBuffer ==
    ASSUME NEW kind, NEW to, ~(kind = "reply" /\ to \in OfCodex), NEW script, NEW want, NEW nth, NEW g,
           NEW buf, NEW new, Coming(kind, to, script, want, nth, g, buf)
    PROVE  Coming(kind, to, script, want, nth, g, new)
BY DEF Coming

(* Others are apart still when requests only go on. *)
LEMMA ApartKept ==
    ASSUME InputInv, window' = window,
           \A q \in Senders : sender'[q] # None => sender[q] # None /\ Later(sender[q], sender'[q])
    PROVE  ApartInv'
<1> SUFFICES ASSUME NEW p \in Senders, NEW q \in Senders, p # q, sender'[p] # None, sender'[q] # None,
                    Calm(sender'[p])
             PROVE  Apart(sender'[p], sender'[q], window')
  BY DEF ApartInv
<1>1. sender[p] # None /\ sender[q] # None /\ Later(sender[p], sender'[p]) /\ Later(sender[q], sender'[q])
  OBVIOUS
<1>2. Calm(sender[p])
  BY <1>1 DEF Later
<1>3. Apart(sender[p], sender[q], window)
  BY <1>1, <1>2 DEF InputInv, ApartInv
<1> QED
  BY <1>1, <1>3, LaterApart

Becomes(a, g) == agent' = [agent EXCEPT ![a] = g]

(* A command of p, at the pane of agent a. *)
LEMMA CommandKept ==
    ASSUME InputInv, NEW p \in Senders, sender[p] # None, sender[p].target \in DOMAIN window, window' = window,
           NEW s, NEW c, Input!Go(p, s, c),
           Listed(s), ByPaste(sender[p]) \/ Plain(s),
           NEW a, a = window[sender[p].target],
           NEW g, PromptShape(g), Becomes(a, g),
           buffer' = buffer \/ ByPaste(sender[p]),
           a = sender[p].to /\ Calm(sender[p]) /\ c
               => Coming(sender[p].kind, a, s, sender[p].want, sender[p].nth, g, buffer')
    PROVE  InputInv'
<1> PICK x : x = sender[p]
  OBVIOUS
<1> PICK y : y = sender'[p]
  OBVIOUS
<1>1. RequestShape(x) /\ window \in Seq(Agents) /\ a \in Agents
  BY DEF InputInv, RequestsInv
<1>2. sender = [q \in Senders |-> sender[q]] /\ agent = [b \in Agents |-> agent[b]]
  BY DEF InputInv, RequestsInv, PromptsInv
<1>3. /\ sender' = [q \in Senders |-> sender'[q]]
      /\ \A q \in Senders : q # p => sender'[q] = sender[q]
      /\ Later(x, y) /\ y.script = s
      /\ Calm(y) => c
  <2> PICK sd, new : sd = sender /\ new = sender'
    OBVIOUS
  <2>0. sd = [q \in Senders |-> sd[q]] /\ x = sd[p] /\ Whole(x)
    BY <1>1, <1>2 DEF RequestShape
  <2>00. new = [sd EXCEPT ![p].script = s, ![p].calm = @ /\ c]
    BY DEF Input!Go
  <2> PICK to, kind, target, script, failed, want, nth, calm :
           x = Asked(to, kind, target, script, failed, want, nth, calm)
    BY ONLY <2>0, WholeParts
  <2> PICK u, b : u = [x EXCEPT !.script = s] /\ b = (x.calm /\ c)
    OBVIOUS
  <2> PICK z : z = [u EXCEPT !.calm = b]
    OBVIOUS
  <2>1. u = Asked(to, kind, target, s, failed, want, nth, calm)
    BY ONLY u = [x EXCEPT !.script = s], x = Asked(to, kind, target, script, failed, want, nth, calm) DEF Asked
  <2>2. z = Asked(to, kind, target, s, failed, want, nth, b)
    BY ONLY <2>1, z = [u EXCEPT !.calm = b] DEF Asked
  <2>3. u.calm = x.calm
    BY ONLY u = [x EXCEPT !.script = s], x = Asked(to, kind, target, script, failed, want, nth, calm) DEF Asked
  <2>4. new = [sd EXCEPT ![p] = z]
    <3> PICK mid : mid = [sd EXCEPT ![p].script = s]
      OBVIOUS
    <3>1. mid = [sd EXCEPT ![p] = u] /\ mid[p] = u
      BY ONLY mid = [sd EXCEPT ![p].script = s], u = [x EXCEPT !.script = s], <2>0, p \in Senders
    <3>2. new = [mid EXCEPT ![p].calm = @ /\ c]
      BY ONLY <2>00, mid = [sd EXCEPT ![p].script = s]
    <3>3. (mid[p].calm /\ c) = b
      BY <3>1, <2>3
    <3>4. new = [mid EXCEPT ![p] = z]
      BY ONLY <3>1, <3>2, <3>3, z = [u EXCEPT !.calm = b]
    <3> QED
      BY ONLY <3>1, <3>4, p \in Senders, <2>0
  <2>5. new = [q \in Senders |-> new[q]] /\ new[p] = z /\ \A q \in Senders : q # p => new[q] = sd[q]
    BY ONLY <2>4, p \in Senders, <2>0
  <2>6. /\ x.to = to /\ x.kind = kind /\ x.target = target /\ x.failed = failed /\ x.want = want /\ x.nth = nth
        /\ x.calm = calm
    BY AskedParts
  <2>7. /\ Whole(z) /\ z.to = to /\ z.kind = kind /\ z.target = target /\ z.script = s
        /\ z.failed = failed /\ z.want = want /\ z.nth = nth /\ z.calm = b
    BY ONLY <2>2, AskedParts
  <2>8. Calm(z) => Calm(x) /\ c
    BY ONLY <2>6, <2>7, b = (x.calm /\ c) DEF Calm
  <2>9. Later(x, z)
    BY ONLY <2>6, <2>7, <2>8 DEF Later
  <2> QED
    BY ONLY <2>5, <2>7, <2>8, <2>9, sd = sender, new = sender', y = sender'[p]
<1>4. \A q \in Senders : sender'[q] # None => sender[q] # None /\ Later(sender[q], sender'[q])
  <2>1. \A q \in Senders : sender[q] # None => Later(sender[q], sender[q])
    BY DEF InputInv, RequestsInv, RequestShape, Later
  <2> QED
    BY <1>3, <2>1
<1>5. /\ agent' = [b \in Agents |-> agent'[b]] /\ agent'[a] = g
      /\ \A b \in Agents : b # a => agent'[b] = agent[b]
  BY <1>1, <1>2 DEF Becomes
<1>6. PromptsInv'
  BY <1>5 DEF InputInv, PromptsInv
<1>7. RequestsInv'
  <2>1. RequestShape(y)
    BY <1>1, <1>3, LaterFact
  <2> QED
    BY <1>3, <2>1 DEF InputInv, RequestsInv
<1>8. ApartInv'
  BY <1>4, ApartKept
<1>9. ASSUME NEW q \in Senders, sender'[q] # None, Calm(sender'[q])
      PROVE  Going(sender'[q], window', agent', buffer')
  <2>1. CASE q = p
    <3>1. Calm(x) /\ c
      BY <1>3, <1>9, <2>1 DEF Later
    <3>2. Going(x, window, agent, buffer)
      BY <3>1 DEF InputInv, GoingInv
    <3>3. a = x.to
      BY <3>2 DEF Going
    <3>4. Coming(x.kind, a, s, x.want, x.nth, g, buffer')
      BY <3>1, <3>3
    <3>5. y.to = a /\ y.kind = x.kind /\ y.target = x.target /\ y.want = x.want /\ y.nth = x.nth
      BY <1>3, <3>3 DEF Later
    <3>6. Coming(y.kind, y.to, y.script, y.want, y.nth, agent'[y.to], buffer')
      BY <3>4, <3>5, <1>3, <1>5
    <3> QED
      BY <2>1, <3>2, <3>3, <3>5, <3>6 DEF Going
  <2>2. CASE q # p
    <3> PICK z : z = sender[q]
      OBVIOUS
    <3>1. sender'[q] = z /\ z # None /\ Calm(z)
      BY <1>3, <1>9, <2>2
    <3>2. Going(z, window, agent, buffer) /\ Apart(z, x, window)
      BY <3>1, <2>2 DEF InputInv, GoingInv, ApartInv
    <3>3. z.to # a
      BY <3>2 DEF Apart, Reach
    <3>4. z.to \in Agents
      BY <3>1 DEF InputInv, RequestsInv, RequestShape
    <3>5. agent'[z.to] = agent[z.to]
      BY <3>3, <3>4, <1>5
    <3>6. buffer' = buffer \/ ~ByPaste(z)
      BY <3>2 DEF Apart
    <3>7. Coming(z.kind, z.to, z.script, z.want, z.nth, agent[z.to], buffer')
      BY <3>2, <3>6, ComingBuffer DEF Going, ByPaste
    <3> QED
      BY <3>1, <3>2, <3>5, <3>7 DEF Going
  <2> QED
    BY <2>1, <2>2
<1>10. GoingInv'
  BY <1>9 DEF GoingInv
<1> QED
  BY <1>1, <1>6, <1>7, <1>8, <1>10 DEF InputInv

LEMMA TailFact ==
    ASSUME NEW s, Listed(s), s # <<>>
    PROVE  /\ Listed(Tail(s))
           /\ Plain(s) => Plain(Tail(s)) /\ Head(s).cmd \in {"keys", "type"}
<1>1. PICK S : s \in Seq(S)
  BY DEF Listed
<1> PICK n, t : n = Len(s) /\ t = Tail(s)
  OBVIOUS
<1>2. /\ t \in Seq(S) /\ n \in Nat \ {0} /\ Len(t) = n - 1 /\ Head(s) = s[1]
      /\ \A i \in 1..(n - 1) : t[i] = s[i + 1] /\ i + 1 \in 1..n
      /\ 1 \in 1..n
  BY ONLY <1>1, s # <<>>, n = Len(s), t = Tail(s)
<1>3. Plain(s) => Plain(t) /\ Head(s).cmd \in {"keys", "type"}
  BY <1>2 DEF Plain
<1> QED
  BY <1>2, <1>3 DEF Listed

(* What holds of a request whose next command is c. *)
LEMMA CommandFact ==
    ASSUME InputInv, NEW p \in Senders, NEW c, Input!Command(p, c), NEW x, x = sender[p]
    PROVE  /\ x # None /\ x.script # <<>> /\ Head(x.script).cmd = c /\ x.target \in DOMAIN window
           /\ RequestShape(x) /\ Listed(x.script) /\ Listed(Tail(x.script))
           /\ ByPaste(x) \/ Plain(Tail(x.script))
           /\ c \notin {"keys", "type"} => ByPaste(x)
           /\ window[x.target] \in Agents /\ PromptShape(agent[window[x.target]])
           /\ window[x.target] = x.to /\ Calm(x)
                  => Coming(x.kind, x.to, x.script, x.want, x.nth, agent[x.to], buffer)
<1>1. x # None /\ x.script # <<>> /\ Head(x.script).cmd = c /\ x.target \in DOMAIN window
  BY DEF Input!Command
<1>2. RequestShape(x) /\ window \in Seq(Agents)
  BY <1>1 DEF InputInv, RequestsInv
<1>3. Listed(x.script) /\ (ByPaste(x) \/ Plain(x.script))
  BY <1>2 DEF RequestShape
<1>4. window[x.target] \in Agents
  BY <1>1, <1>2
<1>5. PromptShape(agent[window[x.target]])
  BY <1>4 DEF InputInv, PromptsInv
<1>6. Calm(x) => Coming(x.kind, x.to, x.script, x.want, x.nth, agent[x.to], buffer)
  BY <1>1 DEF InputInv, GoingInv, Going
<1> QED
  BY <1>1, <1>2, <1>3, <1>4, <1>5, <1>6, TailFact

LEMMA SendKeysKept ==
    ASSUME InputInv, NEW p \in Senders, Input!SendKeys(p) \/ Input!SendLiteral(p)
    PROVE  InputInv'
<1> PICK x, a, g, s, yes : /\ x = sender[p] /\ a = window[x.target] /\ s = Tail(x.script) /\ yes = TRUE
                           /\ g = Do(a, agent[a], Head(x.script))
  OBVIOUS
<1> PICK c : c = Head(x.script).cmd
  OBVIOUS
<1>1. Input!Command(p, c) /\ c \in {"keys", "type"}
  BY DEF Input!SendKeys, Input!SendLiteral, Input!Command
<1>2. Input!Go(p, s, yes) /\ window' = window /\ buffer' = buffer
  BY DEF Input!SendKeys, Input!SendLiteral
<1>3. Becomes(a, g)
  <2>1. CASE Input!SendKeys(p)
    <3>1. g = Input!Press(a, agent[a], Head(x.script).arg)
      BY <2>1 DEF Do, Input!SendKeys, Input!Command
    <3> QED
      BY <2>1, <3>1 DEF Becomes, Input!SendKeys, Input!There, Input!Arg
  <2>2. CASE Input!SendLiteral(p)
    <3>1. g = Input!Typed(agent[a], Head(x.script).arg)
      BY <2>2 DEF Do, Input!SendLiteral, Input!Command
    <3> QED
      BY <2>2, <3>1 DEF Becomes, Input!SendLiteral, Input!There, Input!Arg
  <2> QED
    BY <2>1, <2>2
<1>4. /\ x # None /\ x.script # <<>> /\ Head(x.script).cmd = c /\ x.target \in DOMAIN window
      /\ Listed(x.script) /\ Listed(s) /\ (ByPaste(x) \/ Plain(s))
      /\ PromptShape(agent[a])
      /\ a = x.to /\ Calm(x) => Coming(x.kind, x.to, x.script, x.want, x.nth, agent[x.to], buffer)
  BY <1>1, CommandFact
<1>5. PromptShape(g)
  BY <1>4, PressShape, TypedShape DEF Do
<1>6. ASSUME a = x.to, Calm(x) PROVE Coming(x.kind, a, s, x.want, x.nth, g, buffer')
  <2>1. Coming(x.kind, a, x.script, x.want, x.nth, agent[a], buffer)
    BY <1>4, <1>6
  <2>2. Coming(x.kind, a, s, x.want, x.nth, g, buffer)
    BY <2>1, <1>1, <1>4, ComingCommand
  <2> QED
    BY <2>2, <1>2
<1> QED
  BY <1>2, <1>3, <1>4, <1>5, <1>6, CommandKept

LEMMA FillBufferKept ==
    ASSUME InputInv, NEW p \in Senders, Input!FillBuffer(p)
    PROVE  InputInv'
<1> PICK x, a, g, s, yes : /\ x = sender[p] /\ a = window[x.target] /\ s = Tail(x.script) /\ yes = TRUE
                           /\ g = agent[a]
  OBVIOUS
<1> PICK c : c = "buffer"
  OBVIOUS
<1>1. Input!Command(p, c) /\ Input!Go(p, s, yes) /\ window' = window /\ agent' = agent
      /\ buffer' = Head(x.script).arg
  BY DEF Input!FillBuffer, Input!Arg
<1>2. /\ x # None /\ x.script # <<>> /\ Head(x.script).cmd = c /\ x.target \in DOMAIN window
      /\ Listed(s) /\ ByPaste(x) /\ a \in Agents /\ PromptShape(g)
      /\ a = x.to /\ Calm(x) => Coming(x.kind, x.to, x.script, x.want, x.nth, agent[x.to], buffer)
  BY <1>1, CommandFact
<1>3. Becomes(a, g)
  BY <1>1, <1>2 DEF Becomes, InputInv, PromptsInv
<1>4. ASSUME a = x.to, Calm(x) PROVE Coming(x.kind, a, s, x.want, x.nth, g, buffer')
  <2>1. CodexReply(x.script, x.want, x.nth, g, buffer)
    BY <1>2, <1>4 DEF Coming, ByPaste
  <2>2. CodexReply(s, x.want, x.nth, g, buffer')
    BY <2>1, <1>1, <1>2, CodexBufferStep
  <2> QED
    BY <2>2, <1>2, <1>4 DEF Coming, ByPaste
<1> QED
  BY <1>1, <1>2, <1>3, <1>4, CommandKept

LEMMA PasteBufferKept ==
    ASSUME InputInv, NEW p \in Senders, Input!PasteBuffer(p)
    PROVE  InputInv'
<1> PICK x, a, g, s, yes : /\ x = sender[p] /\ a = window[x.target] /\ s = Tail(x.script) /\ yes = TRUE
                           /\ g = Input!Typed(agent[a], buffer)
  OBVIOUS
<1> PICK c : c = "paste"
  OBVIOUS
<1>1. Input!Command(p, c) /\ Input!Go(p, s, yes) /\ window' = window /\ Becomes(a, g)
  BY DEF Input!PasteBuffer, Input!There, Becomes
<1>2. /\ x # None /\ x.script # <<>> /\ Head(x.script).cmd = c /\ x.target \in DOMAIN window
      /\ Listed(s) /\ ByPaste(x) /\ a \in Agents /\ PromptShape(agent[a])
      /\ a = x.to /\ Calm(x) => Coming(x.kind, x.to, x.script, x.want, x.nth, agent[x.to], buffer)
  BY <1>1, CommandFact
<1>3. PromptShape(g)
  BY <1>2, TypedShape
<1>4. ASSUME a = x.to, Calm(x) PROVE Coming(x.kind, a, s, x.want, x.nth, g, buffer')
  <2>1. CodexReply(x.script, x.want, x.nth, agent[a], buffer)
    BY <1>2, <1>4 DEF Coming, ByPaste
  <2>2. CodexReply(s, x.want, x.nth, g, buffer')
    BY <2>1, <1>2, CodexPasteStep
  <2> QED
    BY <2>2, <1>2, <1>4 DEF Coming, ByPaste
<1> QED
  BY <1>1, <1>2, <1>3, <1>4, CommandKept

(* The footer, or the state when it cannot be read, tells the keys. *)
LEMMA SubmitKeysKept ==
    ASSUME InputInv, NEW p \in Senders, Input!SubmitKeysAfterPaste(p)
    PROVE  InputInv'
<1> PICK x, a, g, state, hint : /\ x = sender[p] /\ a = window[x.target] /\ g = agent[a]
                                /\ state = Head(x.script).arg /\ hint = Input!ShowsQueueHint(a)
  OBVIOUS
<1> PICK c : c = "look"
  OBVIOUS
<1> PICK read, guess, yes, sure : /\ read = Input!SubmitKeys(hint, state) /\ guess = Input!fallbackSubmitKeys(state)
                                  /\ yes = TRUE /\ sure = (Input!stateMayQueue(state) \/ g.mode = "idle")
  OBVIOUS
<1>1. /\ Input!Command(p, c) /\ window' = window /\ agent' = agent /\ buffer' = buffer
      /\ Input!Go(p, read, yes) \/ Input!Go(p, guess, sure)
  BY DEF Input!SubmitKeysAfterPaste, Input!There, Input!Arg
<1>2. /\ x # None /\ Head(x.script).cmd = c /\ x.target \in DOMAIN window
      /\ ByPaste(x) /\ a \in Agents /\ PromptShape(g)
      /\ a = x.to /\ Calm(x) => Coming(x.kind, x.to, x.script, x.want, x.nth, agent[x.to], buffer)
      /\ x.script # <<>>
  BY <1>1, CommandFact
<1>3. Becomes(a, g)
  BY <1>1, <1>2 DEF Becomes, InputInv, PromptsInv
<1>4. Listed(read) /\ Listed(guess)
  <2>1. \A k : Listed(<<Input!Key(k)>>)
    BY BufferlessOne DEF Bufferless
  <2>2. Listed(<<Input!Key("Tab"), Input!Key("Enter")>>)
    <3> PICK tab, enter : tab = Input!Key("Tab") /\ enter = Input!Key("Enter")
      OBVIOUS
    <3>1. <<tab, enter>> \in Seq({tab, enter})
      OBVIOUS
    <3> QED
      BY <3>1 DEF Listed
  <2> QED
    BY <2>1, <2>2 DEF Input!SubmitKeys, Input!fallbackSubmitKeys
<1>5. ASSUME a = x.to, Calm(x)
      PROVE  /\ Coming(x.kind, a, read, x.want, x.nth, g, buffer')
             /\ sure => Coming(x.kind, a, guess, x.want, x.nth, g, buffer')
  <2>1. CodexReply(x.script, x.want, x.nth, g, buffer) /\ a \in OfCodex /\ x.kind = "reply"
    BY <1>2, <1>5 DEF Coming, ByPaste
  <2>2. hint <=> (g.mode = "busy" /\ g.text # <<>>)
    BY <2>1 DEF Input!ShowsQueueHint
  <2>3. /\ CodexReply(Input!SubmitKeys(g.mode = "busy" /\ g.text # <<>>, state), x.want, x.nth, g, buffer)
        /\ Input!stateMayQueue(state) \/ g.mode = "idle"
               => CodexReply(Input!fallbackSubmitKeys(state), x.want, x.nth, g, buffer)
    BY <2>1, <1>2, CodexLookStep
  <2>4. Input!SubmitKeys(g.mode = "busy" /\ g.text # <<>>, state) = read
    BY <2>2 DEF Input!SubmitKeys
  <2>5. CodexReply(read, x.want, x.nth, g, buffer) /\ (sure => CodexReply(guess, x.want, x.nth, g, buffer))
    BY <2>3, <2>4
  <2> QED
    BY <2>1, <2>5, <1>1 DEF Coming
<1>6. CASE Input!Go(p, read, yes)
  BY <1>1, <1>2, <1>3, <1>4, <1>5, <1>6, CommandKept
<1>7. CASE Input!Go(p, guess, sure)
  BY <1>1, <1>2, <1>3, <1>4, <1>5, <1>7, CommandKept
<1> QED
  BY <1>1, <1>6, <1>7

(* Requests that only go on, while nothing else changes. *)
LEMMA RestKept ==
    ASSUME InputInv, window' = window, agent' = agent, buffer' = buffer,
           sender' = [q \in Senders |-> sender'[q]],
           \A q \in Senders : sender'[q] # None =>
               /\ sender[q] # None /\ Later(sender[q], sender'[q])
               /\ Listed(sender'[q].script) /\ (ByPaste(sender[q]) \/ Plain(sender'[q].script))
               /\ Calm(sender'[q]) => sender'[q] = sender[q]
    PROVE  InputInv'
<1>1. ApartInv'
  BY ApartKept
<1>2. GoingInv'
  BY DEF InputInv, GoingInv
<1>3. RequestsInv'
  BY LaterFact DEF InputInv, RequestsInv
<1>4. PromptsInv'
  BY DEF InputInv, PromptsInv
<1> QED
  BY <1>1, <1>2, <1>3, <1>4 DEF InputInv

LEMMA FailKept ==
    ASSUME InputInv, NEW p \in Senders, Input!Fail(p)
    PROVE  InputInv'
<1> PICK x, s : /\ x = sender[p]
                /\ s = IF x.kind = "answer" /\ ~x.failed THEN <<Input!Key("Escape")>> ELSE <<>>
  OBVIOUS
<1>1. /\ x # None /\ window' = window /\ agent' = agent /\ buffer' = buffer
      /\ sender' = [sender EXCEPT ![p].failed = TRUE, ![p].script = s]
  BY DEF Input!Fail
<1>2. sender = [q \in Senders |-> sender[q]] /\ RequestShape(x)
  BY <1>1 DEF InputInv, RequestsInv
<1>3. /\ sender' = [q \in Senders |-> sender'[q]]
      /\ \A q \in Senders : q # p => sender'[q] = sender[q]
      /\ Later(x, sender'[p]) /\ sender'[p].script = s /\ ~Calm(sender'[p])
  <2> PICK sd, new : sd = sender /\ new = sender'
    OBVIOUS
  <2>0. sd = [q \in Senders |-> sd[q]] /\ x = sd[p] /\ Whole(x)
    BY <1>2 DEF RequestShape
  <2>00. new = [sd EXCEPT ![p].failed = TRUE, ![p].script = s]
    BY <1>1
  <2> PICK to, kind, target, script, failed, want, nth, calm :
           x = Asked(to, kind, target, script, failed, want, nth, calm)
    BY ONLY <2>0, WholeParts
  <2> PICK b : b = TRUE
    OBVIOUS
  <2> PICK y : y = [x EXCEPT !.failed = b]
    OBVIOUS
  <2> PICK z : z = [y EXCEPT !.script = s]
    OBVIOUS
  <2>1. y = Asked(to, kind, target, script, b, want, nth, calm)
    BY ONLY y = [x EXCEPT !.failed = b], x = Asked(to, kind, target, script, failed, want, nth, calm) DEF Asked
  <2>2. z = Asked(to, kind, target, s, b, want, nth, calm)
    BY ONLY <2>1, z = [y EXCEPT !.script = s] DEF Asked
  <2>3. new = [sd EXCEPT ![p] = z]
    <3> PICK mid : mid = [sd EXCEPT ![p].failed = b]
      OBVIOUS
    <3>1. mid = [sd EXCEPT ![p] = y] /\ mid[p] = y
      BY ONLY mid = [sd EXCEPT ![p].failed = b], y = [x EXCEPT !.failed = b], <2>0, p \in Senders
    <3>2. new = [mid EXCEPT ![p].script = s]
      BY ONLY b = TRUE, <2>00, mid = [sd EXCEPT ![p].failed = b]
    <3>3. new = [mid EXCEPT ![p] = z]
      BY ONLY <3>1, <3>2, z = [y EXCEPT !.script = s]
    <3> QED
      BY ONLY <3>1, <3>3, p \in Senders, <2>0
  <2>4. new = [q \in Senders |-> new[q]] /\ new[p] = z /\ \A q \in Senders : q # p => new[q] = sd[q]
    BY ONLY <2>3, p \in Senders, <2>0
  <2>5. x.to = to /\ x.kind = kind /\ x.target = target /\ x.want = want /\ x.nth = nth
    BY AskedParts
  <2>6. /\ Whole(z) /\ z.to = to /\ z.kind = kind /\ z.target = target /\ z.script = s
        /\ z.failed = b /\ z.want = want /\ z.nth = nth
    BY ONLY <2>2, AskedParts
  <2>7. ~Calm(z)
    BY ONLY <2>6, b = TRUE DEF Calm
  <2>8. Later(x, z)
    BY ONLY <2>5, <2>6, <2>7 DEF Later
  <2> QED
    BY ONLY <2>4, <2>6, <2>7, <2>8, sd = sender, new = sender'
<1>4. Listed(s) /\ Plain(s)
  BY BufferlessOne DEF Bufferless
<1>5. \A q \in Senders : sender[q] # None =>
          /\ RequestShape(sender[q]) /\ Later(sender[q], sender[q])
          /\ Listed(sender[q].script) /\ (ByPaste(sender[q]) \/ Plain(sender[q].script))
  BY DEF InputInv, RequestsInv, RequestShape, Later
<1> QED
  BY <1>1, <1>3, <1>4, <1>5, RestKept

LEMMA ReturnKept ==
    ASSUME InputInv, NEW p \in Senders, Input!Return(p)
    PROVE  InputInv'
<1>1. /\ window' = window /\ agent' = agent /\ buffer' = buffer
      /\ sender' = [sender EXCEPT ![p] = None]
  BY DEF Input!Return
<1>2. sender = [q \in Senders |-> sender[q]]
  BY DEF InputInv, RequestsInv
<1>3. /\ sender' = [q \in Senders |-> sender'[q]] /\ sender'[p] = None
      /\ \A q \in Senders : q # p => sender'[q] = sender[q]
  BY ONLY <1>1, <1>2, p \in Senders
<1>4. \A q \in Senders : sender[q] # None =>
          /\ RequestShape(sender[q]) /\ Later(sender[q], sender[q])
          /\ Listed(sender[q].script) /\ (ByPaste(sender[q]) \/ Plain(sender[q].script))
  BY DEF InputInv, RequestsInv, RequestShape, Later
<1> QED
  BY <1>1, <1>3, <1>4, RestKept

(* Those that are disturbed. *)
Dimmed(hit) == [p \in Senders |-> IF p \in hit THEN [sender[p] EXCEPT !.calm = FALSE] ELSE sender[p]]

LEMMA DimmedFact ==
    ASSUME InputInv, NEW hit, \A p \in hit : p \in Senders /\ sender[p] # None, sender' = Dimmed(hit)
    PROVE  /\ sender' = [p \in Senders |-> sender'[p]]
           /\ \A p \in Senders : p \notin hit => sender'[p] = sender[p]
           /\ \A p \in Senders : sender'[p] # None =>
                  /\ sender[p] # None /\ RequestShape(sender[p]) /\ Later(sender[p], sender'[p])
                  /\ sender'[p].script = sender[p].script
                  /\ Listed(sender'[p].script) /\ (ByPaste(sender[p]) \/ Plain(sender'[p].script))
                  /\ Calm(sender'[p]) => p \notin hit
<1>1. \A p \in Senders : sender[p] # None => RequestShape(sender[p])
  BY DEF InputInv, RequestsInv
<1>2. /\ sender' = [p \in Senders |-> sender'[p]]
      /\ \A p \in Senders : p \notin hit => sender'[p] = sender[p]
      /\ \A p \in Senders : p \in hit => sender'[p] = [sender[p] EXCEPT !.calm = FALSE]
  BY DEF Dimmed
<1>3. ASSUME NEW p \in Senders, sender'[p] # None
      PROVE  /\ sender[p] # None /\ RequestShape(sender[p]) /\ Later(sender[p], sender'[p])
             /\ sender'[p].script = sender[p].script
             /\ Calm(sender'[p]) => p \notin hit
  <2> PICK x, y : x = sender[p] /\ y = sender'[p]
    OBVIOUS
  <2>1. CASE p \in hit
    <3>1. x # None /\ RequestShape(x) /\ y = [x EXCEPT !.calm = FALSE]
      BY <2>1, <1>1, <1>2
    <3>2. Later(x, y) /\ y.script = x.script /\ ~Calm(y)
      BY ONLY <3>1, DimFact DEF RequestShape
    <3> QED
      BY <3>1, <3>2
  <2>2. CASE p \notin hit
    <3>1. y = x /\ x # None /\ RequestShape(x)
      BY <2>2, <1>1, <1>2, <1>3
    <3> QED
      BY <2>2, <3>1 DEF Later, RequestShape
  <2> QED
    BY <2>1, <2>2
<1>4. ASSUME NEW p \in Senders, sender'[p] # None
      PROVE  Listed(sender'[p].script) /\ (ByPaste(sender[p]) \/ Plain(sender'[p].script))
  BY <1>3, <1>4 DEF RequestShape
<1> QED
  BY <1>2, <1>3, <1>4

(* Something happens to agent a's prompt. *)
LEMMA EventKept ==
    ASSUME InputInv, window' = window, buffer' = buffer, NEW a \in Agents, NEW g, PromptShape(g), Becomes(a, g),
           NEW hit, \A p \in hit : p \in Senders /\ sender[p] # None, sender' = Dimmed(hit),
           \A p \in Senders :
               /\ p \notin hit /\ sender[p] # None /\ RequestShape(sender[p]) /\ sender[p].to = a
               /\ Coming(sender[p].kind, a, sender[p].script, sender[p].want, sender[p].nth, agent[a], buffer)
               => Coming(sender[p].kind, a, sender[p].script, sender[p].want, sender[p].nth, g, buffer)
    PROVE  InputInv'
<1>1. /\ sender' = [p \in Senders |-> sender'[p]]
      /\ \A p \in Senders : p \notin hit => sender'[p] = sender[p]
  BY DimmedFact
<1>2. \A p \in Senders : sender'[p] # None =>
          /\ sender[p] # None /\ RequestShape(sender[p]) /\ Later(sender[p], sender'[p])
          /\ Listed(sender'[p].script) /\ (ByPaste(sender[p]) \/ Plain(sender'[p].script))
          /\ Calm(sender'[p]) => p \notin hit
  BY DimmedFact
<1>3. /\ agent' = [b \in Agents |-> agent'[b]] /\ agent'[a] = g
      /\ \A b \in Agents : b # a => agent'[b] = agent[b]
  BY DEF InputInv, PromptsInv, Becomes
<1>4. PromptsInv'
  BY <1>3 DEF InputInv, PromptsInv
<1>5. RequestsInv'
  BY <1>1, <1>2, LaterFact DEF InputInv, RequestsInv
<1>6. ApartInv'
  BY <1>2, ApartKept
<1>7. ASSUME NEW p \in Senders, sender'[p] # None, Calm(sender'[p])
      PROVE  Going(sender'[p], window', agent', buffer')
  <2> PICK x : x = sender[p]
    OBVIOUS
  <2>1. x # None /\ RequestShape(x) /\ p \notin hit /\ sender'[p] = x /\ Calm(x)
    BY <1>1, <1>2, <1>7
  <2>2. Going(x, window, agent, buffer) /\ x.to \in Agents
    BY <2>1 DEF InputInv, GoingInv, RequestShape
  <2>3. Coming(x.kind, x.to, x.script, x.want, x.nth, agent'[x.to], buffer)
    <3>1. CASE x.to = a
      BY <2>1, <2>2, <3>1, <1>3 DEF Going
    <3>2. CASE x.to # a
      BY <2>2, <3>2, <1>3 DEF Going
    <3> QED
      BY <3>1, <3>2
  <2> QED
    BY <2>1, <2>2, <2>3 DEF Going
<1>8. GoingInv'
  BY <1>7 DEF GoingInv
<1> QED
  BY <1>4, <1>5, <1>6, <1>8 DEF InputInv

LEMMA TurnKept ==
    ASSUME InputInv, NEW a \in Agents, Input!TurnStarts(a) \/ Input!TurnEnds(a)
    PROVE  InputInv'
<1> PICK mode : mode = IF Input!TurnStarts(a) THEN "busy" ELSE "idle"
  OBVIOUS
<1> PICK g : g = [agent[a] EXCEPT !.mode = mode]
  OBVIOUS
<1> DEFINE hit == {p \in Senders : /\ sender[p] # None /\ mode = "busy"
                                   /\ sender[p].to = a /\ a \in OfCodex
                                   /\ \A i \in DOMAIN sender[p].script : sender[p].script[i].cmd # "look"}
<1>1. agent[a].mode # "asking" /\ window' = window /\ buffer' = buffer /\ mode \in {"idle", "busy"}
  BY DEF Input!TurnStarts, Input!TurnEnds
<1>2. PromptShape(agent[a])
  BY DEF InputInv, PromptsInv
<1>3. PromptShape(g)
  <2>1. mode \in {"idle", "busy", "asking"}
    BY <1>1
  <2> QED
    BY <2>1, <1>2, ChangedShape
<1>4. Becomes(a, g)
  BY DEF Input!TurnStarts, Input!TurnEnds, Becomes
<1>5. sender' = Dimmed(hit)
  <2>1. CASE Input!TurnStarts(a)
    <3>1. mode = "busy"
      BY <2>1
    <3>2. sender' = [p \in Senders |->
              IF sender[p] # None /\ (sender[p].to = a /\ a \in OfCodex
                                      /\ \A i \in DOMAIN sender[p].script : sender[p].script[i].cmd # "look")
              THEN [sender[p] EXCEPT !.calm = FALSE] ELSE sender[p]]
      BY <2>1 DEF Input!TurnStarts, Input!Happens
    <3> QED
      BY <3>1, <3>2 DEF Dimmed
  <2>2. CASE ~Input!TurnStarts(a)
    <3>1. mode # "busy"
      BY <2>2
    <3>2. sender' = [p \in Senders |->
              IF sender[p] # None /\ FALSE THEN [sender[p] EXCEPT !.calm = FALSE] ELSE sender[p]]
      BY <2>2 DEF Input!TurnEnds, Input!Happens
    <3> QED
      BY <3>1, <3>2 DEF Dimmed
  <2> QED
    BY <2>1, <2>2
<1>6. ASSUME NEW p \in Senders, p \notin hit, sender[p] # None, RequestShape(sender[p]), sender[p].to = a,
             Coming(sender[p].kind, a, sender[p].script, sender[p].want, sender[p].nth, agent[a], buffer)
      PROVE  Coming(sender[p].kind, a, sender[p].script, sender[p].want, sender[p].nth, g, buffer)
  <2> PICK x, s : x = sender[p] /\ s = x.script
    OBVIOUS
  <2>1. Listed(s)
    BY <1>6 DEF RequestShape
  <2>2. mode = "idle" \/ a \notin OfCodex \/ s = <<>> \/ \E i \in DOMAIN s : s[i].cmd = "look"
    BY <1>1, <1>6
  <2> QED
    BY <2>1, <2>2, <1>1, <1>2, <1>6, ComingTurn
<1>7. \A p \in hit : p \in Senders /\ sender[p] # None
  OBVIOUS
<1> HIDE DEF hit
<1> QED
  BY <1>1, <1>3, <1>4, <1>5, <1>6, <1>7, EventKept

(* A question, or the user, comes over whatever is sent to the agent. *)
LEMMA AsksKept ==
    ASSUME InputInv, NEW a \in Agents, NEW qs, Input!Asks(a, qs) \/ Input!UserTypes(a)
    PROVE  InputInv'
<1> PICK g : g = agent'[a]
  OBVIOUS
<1> DEFINE hit == {p \in Senders : sender[p] # None /\ sender[p].to = a}
<1>1. window' = window /\ buffer' = buffer
  BY DEF Input!Asks, Input!UserTypes
<1>2. agent = [b \in Agents |-> agent[b]] /\ PromptShape(agent[a])
  BY DEF InputInv, PromptsInv
<1>3. Becomes(a, g) /\ PromptShape(g)
  <2>1. CASE Input!Asks(a, qs)
    <3> PICK k, md, h : k = Input!Fresh(qs) /\ md = "asking" /\ h = [agent[a] EXCEPT !.mode = md, !.picker = k]
      OBVIOUS
    <3>1. PromptShape(h)
      <4>1. md \in {"idle", "busy", "asking"}
        OBVIOUS
      <4> QED
        BY <4>1, <1>2, LeftShape
    <3>2. agent' = [agent EXCEPT ![a] = h]
      BY <2>1, <1>2 DEF Input!Asks
    <3> QED
      BY <3>1, <3>2, <1>2 DEF Becomes
  <2>2. CASE Input!UserTypes(a)
    <3> PICK h : h = IF agent[a].mode = "asking" THEN Input!Pressed(a, agent[a], "Escape")
                     ELSE Input!Typed(agent[a], <<Input!Word("draft")>>)
      OBVIOUS
    <3>1. PromptShape(h)
      BY <1>2, PressedShape, TypedShape
    <3>2. agent' = [agent EXCEPT ![a] = h]
      BY <2>2 DEF Input!UserTypes
    <3> QED
      BY <3>1, <3>2, <1>2 DEF Becomes
  <2> QED
    BY <2>1, <2>2
<1>4. sender' = Dimmed(hit)
  <2>1. sender' = [p \in Senders |-> IF sender[p] # None /\ sender[p].to = a
                                     THEN [sender[p] EXCEPT !.calm = FALSE] ELSE sender[p]]
    BY DEF Input!Asks, Input!UserTypes, Input!Happens
  <2> QED
    BY <2>1 DEF Dimmed
<1>5. \A p \in Senders : p \notin hit => ~(sender[p] # None /\ sender[p].to = a)
  OBVIOUS
<1>6. \A p \in hit : p \in Senders /\ sender[p] # None
  OBVIOUS
<1> HIDE DEF hit
<1> QED
  BY <1>1, <1>3, <1>4, <1>5, <1>6, EventKept

LEMMA StampKept ==
    ASSUME InputInv, window' = window, agent' = agent, buffer' = buffer, sender' = sender
    PROVE  InputInv'
BY DEF InputInv, PromptsInv, RequestsInv, GoingInv, ApartInv

(* The panes before the one that closes stay. *)
LEMMA RemovedPane ==
    ASSUME NEW S, NEW w \in Seq(S), NEW i \in DOMAIN w, NEW v, v = Input!RemoveAt(w, i)
    PROVE  /\ v \in Seq(S)
           /\ \A t \in DOMAIN w : t < i => t \in DOMAIN v /\ v[t] = w[t]
<1> PICK n, l, r : n = Len(w) /\ l = SubSeq(w, 1, i - 1) /\ r = SubSeq(w, i + 1, Len(w))
  OBVIOUS
<1>1. n \in Nat /\ DOMAIN w = 1..n /\ i \in 1..n
  OBVIOUS
<1>2. l \in Seq(S) /\ Len(l) = i - 1 /\ \A t \in 1..(i - 1) : l[t] = w[t]
  BY <1>1
<1>3. r \in Seq(S)
  BY <1>1
<1>4. v = l \o r
  BY DEF Input!RemoveAt
<1>5. v \in Seq(S) /\ Len(v) = Len(l) + Len(r) /\ \A t \in 1..Len(l) : v[t] = l[t]
  BY ONLY <1>2, <1>3, <1>4
<1>6. Len(r) \in Nat
  BY <1>3
<1>7. ASSUME NEW t \in DOMAIN w, t < i PROVE t \in DOMAIN v /\ v[t] = w[t]
  <2>1. t \in 1..(i - 1)
    BY <1>1, <1>7
  <2>2. t \in 1..Len(v) /\ DOMAIN v = 1..Len(v)
    BY <2>1, <1>1, <1>2, <1>5, <1>6
  <2> QED
    BY <2>1, <2>2, <1>2, <1>5
<1> QED
  BY <1>5, <1>7

(* A pane closes: those behind it move up, and disturb whoever they reach. *)
LEMMA ClosePaneKept ==
    ASSUME InputInv, NEW i \in DOMAIN window, Input!ClosePane(i)
    PROVE  InputInv'
<1> PICK v : v = window'
  OBVIOUS
<1> DEFINE moved(x) == {v[j] : j \in {x.target} \cap DOMAIN v}
           hit == {p \in Senders : /\ sender[p] # None
                                   /\ \E q \in Input!Active :
                                          /\ sender[q].target >= i
                                          /\ sender[p] = sender[q] \/ sender[p].to \in moved(sender[q])}
<1>1. window \in Seq(Agents) /\ i \in Nat
  BY DEF InputInv
<1>2. /\ agent' = agent /\ buffer' = buffer /\ v = Input!RemoveAt(window, i)
      /\ sender' = Dimmed(hit)
  <2>1. sender' = [p \in Senders |->
            IF /\ sender[p] # None
               /\ \E q \in Input!Active :
                      /\ sender[q].target >= i
                      /\ sender[p] = sender[q] \/ sender[p].to \in moved(sender[q])
            THEN [sender[p] EXCEPT !.calm = FALSE] ELSE sender[p]]
    BY DEF Input!ClosePane, Input!Happens
  <2> QED
    BY <2>1 DEF Dimmed, Input!ClosePane
<1>3. v \in Seq(Agents) /\ \A t \in DOMAIN window : t < i => t \in DOMAIN v /\ v[t] = window[t]
  BY <1>1, <1>2, RemovedPane
<1>4. \A p \in hit : p \in Senders /\ sender[p] # None
  OBVIOUS
<1>5. ASSUME NEW p \in Senders, sender[p] # None, p \notin hit
      PROVE  /\ ~(sender[p].target >= i)
             /\ \A q \in Senders : sender[q] # None /\ sender[q].target >= i => sender[p].to \notin moved(sender[q])
  BY <1>5 DEF Input!Active
<1> HIDE DEF hit
<1>6. /\ sender' = [p \in Senders |-> sender'[p]]
      /\ \A p \in Senders : p \notin hit => sender'[p] = sender[p]
  BY <1>2, <1>4, DimmedFact
<1>7. \A p \in Senders : sender'[p] # None =>
          /\ sender[p] # None /\ RequestShape(sender[p]) /\ Later(sender[p], sender'[p])
          /\ Listed(sender'[p].script) /\ (ByPaste(sender[p]) \/ Plain(sender'[p].script))
          /\ Calm(sender'[p]) => p \notin hit
  BY <1>2, <1>4, DimmedFact
<1>8. PromptsInv'
  BY <1>2 DEF InputInv, PromptsInv
<1>9. RequestsInv'
  BY <1>6, <1>7, LaterFact DEF InputInv, RequestsInv
<1>10. ASSUME NEW p \in Senders, sender'[p] # None, Calm(sender'[p])
       PROVE  Going(sender'[p], v, agent, buffer)
  <2> PICK x : x = sender[p]
    OBVIOUS
  <2>1. x # None /\ RequestShape(x) /\ p \notin hit /\ sender'[p] = x /\ Calm(x)
    BY <1>6, <1>7, <1>10
  <2>2. Going(x, window, agent, buffer)
    BY <2>1 DEF InputInv, GoingInv
  <2>3. x.target \in DOMAIN window /\ x.target < i
    BY <2>1, <2>2, <1>1, <1>5 DEF RequestShape, Going
  <2> QED
    BY <2>1, <2>2, <2>3, <1>3 DEF Going
<1>11. GoingInv'
  BY <1>2, <1>10 DEF GoingInv
<1>12. ASSUME NEW p \in Senders, NEW q \in Senders, p # q, sender'[p] # None, sender'[q] # None, Calm(sender'[p])
       PROVE  Apart(sender'[p], sender'[q], v)
  <2> PICK x, y : x = sender[p] /\ y = sender[q]
    OBVIOUS
  <2>1. x # None /\ p \notin hit /\ sender'[p] = x /\ Calm(x)
    BY <1>6, <1>7, <1>12
  <2>2. y # None /\ RequestShape(y) /\ Later(y, sender'[q])
    BY <1>7, <1>12
  <2>3. Apart(x, y, window)
    BY <2>1, <2>2, <1>12 DEF InputInv, ApartInv
  <2>4. x.to \notin Reach(y, v)
    <3>1. CASE y.target >= i
      <4>1. x.to \notin moved(y)
        BY <2>1, <2>2, <3>1, <1>5
      <4> QED
        BY <2>3, <4>1 DEF Apart, Reach
    <3>2. CASE y.target < i /\ y.target \in DOMAIN window
      BY <2>3, <3>2, <1>3 DEF Apart, Reach
    <3>3. CASE y.target < i /\ y.target \notin DOMAIN window
      <4>1. y.target \notin DOMAIN v
        <5>1. DOMAIN v = 1..Len(v) /\ DOMAIN window = 1..Len(window) /\ Len(window) \in Nat /\ i \in 1..Len(window)
          BY <1>1, <1>3
        <5>2. y.target \in Nat
          BY <2>2 DEF RequestShape
        <5>3. y.target = 0
          BY <3>3, <5>1, <5>2
        <5> QED
          BY <5>1, <5>3
      <4> QED
        BY <2>3, <4>1 DEF Apart, Reach
    <3> QED
      BY <3>1, <3>2, <3>3, <1>1, <2>2 DEF RequestShape
  <2>5. Apart(x, y, v)
    BY <2>3, <2>4 DEF Apart
  <2> QED
    BY <2>1, <2>2, <2>5 DEF Apart, Later, ByPaste, Reach
<1>13. ApartInv'
  BY <1>12 DEF ApartInv
<1> QED
  BY <1>3, <1>8, <1>9, <1>11, <1>13 DEF InputInv
-----------------------------------------------------------------------------
(* Requests that do not cross reach different agents, and paste apart. *)
LEMMA CrossFact ==
    ASSUME NEW x, NEW y, ~Input!Cross(x, y)
    PROVE  Apart(x, y, window) /\ Apart(y, x, window)
<1>1. /\ Input!Reaches(x) \cap Input!Reaches(y) = {}
      /\ ~(x.to \in OfCodex /\ y.to \in OfCodex /\ x.kind = "reply" /\ y.kind = "reply")
  BY DEF Input!Cross
<1>2. Input!Reaches(x) = Reach(x, window) /\ Input!Reaches(y) = Reach(y, window)
  BY DEF Input!Reaches, Reach
<1>3. x.to \in Reach(x, window) /\ y.to \in Reach(y, window)
  BY DEF Reach
<1> QED
  BY <1>1, <1>2, <1>3 DEF Apart, ByPaste

(* A request that begins. *)
Sent(p, x, y) ==
    sender' = [q \in Senders |->
        IF q = p THEN y
        ELSE IF sender[q] # None /\ Input!Cross(x, sender[q]) THEN [sender[q] EXCEPT !.calm = FALSE]
        ELSE sender[q]]

(* The other requests go on, disturbed when they cross it. *)
Moving(p, x) ==
    /\ sender' = [q \in Senders |-> sender'[q]]
    /\ \A q \in Senders : q # p /\ sender'[q] # None =>
           /\ sender[q] # None /\ RequestShape(sender[q]) /\ Later(sender[q], sender'[q])
           /\ RequestShape(sender'[q])
           /\ Calm(sender'[q]) => sender'[q] = sender[q] /\ ~Input!Cross(x, sender[q])

LEMMA SentFact ==
    ASSUME InputInv, NEW p \in Senders, NEW x, NEW y, Sent(p, x, y)
    PROVE  Moving(p, x) /\ sender'[p] = y
<1>1. /\ sender' = [q \in Senders |-> sender'[q]] /\ sender'[p] = y
      /\ \A q \in Senders : q # p /\ ~(sender[q] # None /\ Input!Cross(x, sender[q])) => sender'[q] = sender[q]
      /\ \A q \in Senders : q # p /\ sender[q] # None /\ Input!Cross(x, sender[q])
             => sender'[q] = [sender[q] EXCEPT !.calm = FALSE]
  BY DEF Sent
<1>2. ASSUME NEW q \in Senders, q # p, sender'[q] # None
      PROVE  /\ sender[q] # None /\ RequestShape(sender[q]) /\ Later(sender[q], sender'[q])
             /\ RequestShape(sender'[q])
             /\ Calm(sender'[q]) => sender'[q] = sender[q] /\ ~Input!Cross(x, sender[q])
  <2> PICK old, new : old = sender[q] /\ new = sender'[q]
    OBVIOUS
  <2>1. CASE old # None /\ Input!Cross(x, old)
    <3>1. new = [old EXCEPT !.calm = FALSE] /\ RequestShape(old)
      BY <1>1, <1>2, <2>1 DEF InputInv, RequestsInv
    <3>2. Later(old, new) /\ new.script = old.script /\ ~Calm(new)
      BY ONLY <3>1, DimFact DEF RequestShape
    <3>3. RequestShape(new)
      BY <3>1, <3>2, LaterFact DEF RequestShape
    <3> QED
      BY <2>1, <3>1, <3>2, <3>3
  <2>2. CASE ~(old # None /\ Input!Cross(x, old))
    <3>1. new = old /\ old # None /\ RequestShape(old)
      BY <1>1, <1>2, <2>2 DEF InputInv, RequestsInv
    <3>2. Later(old, new)
      BY <3>1 DEF Later, RequestShape
    <3> QED
      BY <2>2, <3>1, <3>2
  <2> QED
    BY <2>1, <2>2
<1>3. sender' = [q \in Senders |-> sender'[q]] /\ sender'[p] = y
  BY ONLY <1>1
<1> QED
  BY ONLY <1>2, <1>3, Zenon DEF Moving

LEMMA SendKept ==
    ASSUME InputInv, NEW p \in Senders, NEW a \in Agents, NEW kind, NEW script, NEW want, NEW ready,
           Input!Send(p, a, kind, script, want, ready),
           Listed(script), (kind = "reply" /\ a \in OfCodex) \/ Plain(script),
           ready => Coming(kind, a, script, want, Len(agent[a].got) + 1, agent[a], buffer)
    PROVE  InputInv'
<1> PICK t, nth : t = (CHOOSE i \in DOMAIN window : window[i] = a) /\ nth = Len(agent[a].got) + 1
  OBVIOUS
<1> PICK x : x = [to |-> a, kind |-> kind, target |-> t]
  OBVIOUS
<1> PICK no, calm : no = FALSE /\ calm = (ready /\ \A q \in Input!Active : ~Input!Cross(x, sender[q]))
  OBVIOUS
<1> PICK y : y = Asked(a, kind, t, script, no, want, nth, calm)
  OBVIOUS
<1>0. x.to = a /\ x.kind = kind /\ x.target = t
  BY ONLY x = [to |-> a, kind |-> kind, target |-> t]
<1>1. /\ window' = window /\ agent' = agent /\ buffer' = buffer
      /\ sender[p] = None /\ a \in Input!ToSet(window)
  BY DEF Input!Send
<1>2. Sent(p, x, y)
  <2>1. sender' = [q \in Senders |->
               IF q = p
               THEN [to |-> a, kind |-> kind, target |-> x.target, script |-> script, failed |-> FALSE,
                     want |-> want, nth |-> Len(agent[a].got) + 1,
                     calm |-> ready /\ \A r \in Input!Active : ~Input!Cross(x, sender[r])]
               ELSE IF sender[q] # None /\ Input!Cross(x, sender[q]) THEN [sender[q] EXCEPT !.calm = FALSE]
               ELSE sender[q]]
    BY DEF Input!Send
  <2>2. y = [to |-> a, kind |-> kind, target |-> x.target, script |-> script, failed |-> FALSE,
             want |-> want, nth |-> Len(agent[a].got) + 1,
             calm |-> ready /\ \A r \in Input!Active : ~Input!Cross(x, sender[r])]
    BY <1>0 DEF Asked
  <2> QED
    BY <2>1, <2>2 DEF Sent
<1>3. t \in DOMAIN window /\ window[t] = a /\ t \in Nat /\ window \in Seq(Agents)
  <2>1. \E i \in DOMAIN window : window[i] = a
    BY <1>1 DEF Input!ToSet
  <2>2. window \in Seq(Agents)
    BY DEF InputInv
  <2> QED
    BY <2>1, <2>2
<1>4. /\ Whole(y) /\ y.to = a /\ y.kind = kind /\ y.target = t /\ y.script = script
      /\ y.want = want /\ y.nth = nth /\ y.calm = calm
  BY ONLY y = Asked(a, kind, t, script, no, want, nth, calm), AskedParts
<1>5. RequestShape(y)
  BY <1>3, <1>4 DEF RequestShape, ByPaste
<1>6. /\ sender' = [q \in Senders |-> sender'[q]] /\ sender'[p] = y
      /\ \A q \in Senders : q # p /\ sender'[q] # None =>
             /\ sender[q] # None /\ RequestShape(sender[q]) /\ Later(sender[q], sender'[q])
             /\ RequestShape(sender'[q])
             /\ Calm(sender'[q]) => sender'[q] = sender[q] /\ ~Input!Cross(x, sender[q])
  <2>1. Moving(p, x) /\ sender'[p] = y
    BY <1>2, SentFact
  <2> QED
    BY ONLY <2>1, Zenon DEF Moving
<1>7. Calm(y) => ready /\ \A q \in Senders : sender[q] # None => ~Input!Cross(x, sender[q])
  BY <1>4 DEF Calm, Input!Active
<1>8. RequestsInv'
  BY <1>5, <1>6 DEF RequestsInv
<1>9. PromptsInv'
  BY <1>1 DEF InputInv, PromptsInv
<1>10. ASSUME NEW q \in Senders, sender'[q] # None, Calm(sender'[q])
       PROVE  Going(sender'[q], window, agent, buffer)
  <2>1. CASE q = p
    <3>1. Coming(y.kind, y.to, y.script, y.want, y.nth, agent[y.to], buffer)
      BY <1>4, <1>6, <1>7, <1>10, <2>1
    <3> QED
      BY <2>1, <3>1, <1>3, <1>4, <1>6 DEF Going
  <2>2. CASE q # p
    BY <2>2, <1>6, <1>10 DEF InputInv, GoingInv
  <2> QED
    BY <2>1, <2>2
<1>11. GoingInv'
  BY <1>1, <1>10 DEF GoingInv
<1>12. ASSUME NEW q \in Senders, NEW r \in Senders, q # r, sender'[q] # None, sender'[r] # None, Calm(sender'[q])
       PROVE  Apart(sender'[q], sender'[r], window)
  <2>1. CASE q = p
    <3> PICK z : z = sender[r]
      OBVIOUS
    <3>1. z # None /\ Later(z, sender'[r]) /\ Calm(y)
      BY <1>6, <1>12, <2>1
    <3>2. Apart(x, z, window)
      BY <3>1, <1>7, CrossFact
    <3> QED
      BY <2>1, <3>1, <3>2, <1>0, <1>4, <1>6 DEF Apart, Later, ByPaste, Reach
  <2>2. CASE r = p
    <3> PICK z : z = sender[q]
      OBVIOUS
    <3>1. sender'[q] = z /\ ~Input!Cross(x, z)
      BY <1>6, <1>12, <2>2
    <3>2. Apart(z, x, window)
      BY <3>1, CrossFact
    <3> QED
      BY <2>2, <3>1, <3>2, <1>0, <1>4, <1>6 DEF Apart, ByPaste, Reach
  <2>3. CASE q # p /\ r # p
    <3> PICK z : z = sender[r]
      OBVIOUS
    <3>1. sender'[q] = sender[q] /\ sender[q] # None /\ Calm(sender[q]) /\ z # None /\ Later(z, sender'[r])
      BY <1>6, <1>12, <2>3
    <3>2. Apart(sender[q], z, window)
      BY <3>1, <1>12 DEF InputInv, ApartInv
    <3> QED
      BY <3>1, <3>2 DEF Apart, Later, ByPaste, Reach
  <2> QED
    BY <2>1, <2>2, <2>3
<1>13. ApartInv'
  BY <1>1, <1>12 DEF ApartInv
<1> QED
  BY <1>1, <1>3, <1>8, <1>9, <1>11, <1>13 DEF InputInv

LEMMA SameSeq ==
    ASSUME NEW S, NEW v \in Seq(S), NEW w \in Seq(S), Len(v) = Len(w), \A i \in 1..Len(v) : v[i] = w[i]
    PROVE  v = w
OBVIOUS

LEMMA FourCommands ==
    ASSUME NEW c, NEW d, NEW e, NEW f
    PROVE  <<c, d, e>> \o <<f>> = <<c, d, e, f>>
<1> PICK S, l, r, v, w : /\ S = {c, d, e, f} /\ l = <<c, d, e>> /\ r = <<f>> /\ v = l \o r
                         /\ w = <<c, d, e, f>>
  OBVIOUS
<1>1. l \in Seq(S) /\ Len(l) = 3 /\ l[1] = c /\ l[2] = d /\ l[3] = e
  OBVIOUS
<1>2. r \in Seq(S) /\ Len(r) = 1 /\ r[1] = f
  OBVIOUS
<1>3. w \in Seq(S) /\ Len(w) = 4 /\ w[1] = c /\ w[2] = d /\ w[3] = e /\ w[4] = f
  OBVIOUS
<1>4. v \in Seq(S) /\ Len(v) = 4 /\ v[1] = l[1] /\ v[2] = l[2] /\ v[3] = l[3] /\ v[4] = r[1]
  <2>1. /\ v \in Seq(S) /\ Len(v) = Len(l) + Len(r)
        /\ \A i \in 1..Len(l) : v[i] = l[i]
        /\ \A i \in 1..Len(r) : v[Len(l) + i] = r[i]
    <3>1. l \in Seq(S) /\ r \in Seq(S)
      BY <1>1, <1>2
    <3>2. v \in Seq(S)
      BY <3>1, ConcatInSeq
    <3>3. Listed(l) /\ Listed(r)
      BY <3>1 DEF Listed
    <3> QED
      BY ONLY v = l \o r, <3>2, <3>3, ListedJoin
  <2>2. 1 \in 1..3 /\ 2 \in 1..3 /\ 3 \in 1..3 /\ 1 \in 1..1 /\ 3 + 1 = 4
    OBVIOUS
  <2> QED
    BY ONLY <1>1, <1>2, <2>1, <2>2
<1>5. Len(v) = Len(w) /\ \A i \in 1..Len(v) : v[i] = w[i]
  BY ONLY <1>1, <1>2, <1>3, <1>4
<1> QED
  BY <1>3, <1>4, <1>5, SameSeq

LEMMA RepliesFact ==
    ASSUME NEW text \in Texts, text # <<>>
    PROVE  /\ text \in Seq(Input!Words) /\ Listed(text)
           /\ Listed(Input!ExpandCodexShortkeys(text)) /\ Input!ExpandCodexShortkeys(text) # <<>>
<1>1. text \in Seq(Input!Words)
  BY InputAssumption DEF Input!Sendable
<1> PICK n, t : n = Len(text) /\ t = Input!ExpandCodexShortkeys(text)
  OBVIOUS
<1>2. n \in Nat \ {0} /\ DOMAIN text = 1..n
  BY <1>1
<1>3. t = [i \in 1..n |-> t[i]]
  BY <1>2 DEF Input!ExpandCodexShortkeys
<1>4. t \in Seq({t[i] : i \in 1..n}) /\ Len(t) = n
  BY <1>2, <1>3
<1> QED
  BY <1>1, <1>2, <1>4 DEF Listed

LEMMA ReplyKept ==
    ASSUME InputInv, NEW p \in Senders, NEW a \in Agents, NEW text \in Texts, NEW state,
           Input!Reply(p, a, text, state)
    PROVE  InputInv'
<1> PICK g, nth, kind : g = agent[a] /\ nth = Len(agent[a].got) + 1 /\ kind = "reply"
  OBVIOUS
<1>1. /\ text # <<>> /\ text \in Seq(Input!Words) /\ Listed(text)
      /\ Listed(Input!ExpandCodexShortkeys(text)) /\ Input!ExpandCodexShortkeys(text) # <<>>
  BY RepliesFact DEF Input!Reply
<1>2. CASE a \in OfCodex
  <2> PICK t, s, cu, set, paste, look, ready :
           /\ t = Input!ExpandCodexShortkeys(text)
           /\ cu = Input!Key("C-u") /\ set = Input!SetBuffer(t) /\ paste = Input!Paste /\ look = Input!Look(state)
           /\ s = <<cu, set, paste, look>>
           /\ ready = Input!Ready(a, "reply", <<>>, <<>>)
    OBVIOUS
  <2>1. Input!TmuxPasteKeysClearingInput(t) \o <<Input!Look(state)>> = s
    BY FourCommands DEF Input!TmuxPasteKeysClearingInput
  <2>2. Input!Send(p, a, kind, s, t, ready)
    BY <1>2, <2>1 DEF Input!Reply
  <2>3. Listed(s)
    <3>1. <<cu, set, paste, look>> \in Seq({cu, set, paste, look})
      OBVIOUS
    <3> QED
      BY <3>1 DEF Listed
  <2>4. ASSUME ready PROVE Coming(kind, a, s, t, nth, g, buffer)
    <3>1. g.mode # "asking"
      BY <2>4 DEF Input!Ready
    <3>2. Preparing(s, t, nth, g, buffer)
      BY DEF Preparing
    <3>3. CodexReply(s, t, nth, g, buffer)
      BY <1>1, <3>1, <3>2 DEF CodexReply
    <3> QED
      BY <1>2, <3>3 DEF Coming
  <2> QED
    BY <1>2, <2>2, <2>3, <2>4, SendKept
<1>3. CASE a \notin OfCodex
  <2> PICK s, ready, n, zero : s = Input!TmuxSendKeys(text) /\ ready = Input!Ready(a, "reply", <<>>, <<>>)
                               /\ n = Len(text) /\ zero = 0
    OBVIOUS
  <2>1. Input!Send(p, a, kind, s, text, ready)
    BY <1>3 DEF Input!Reply
  <2>2. Bufferless(s) /\ Len(s) = n + 1 /\ n \in Nat
    BY <1>1, TypingBufferless
  <2>3. ASSUME ready PROVE Coming(kind, a, s, text, nth, g, buffer)
    <3>1. g.mode # "asking" /\ g.text = <<>>
      BY <1>3, <2>3 DEF Input!Ready
    <3>2. s = SubSeq(s, zero + 1, n + 1)
      <4>1. PICK S : s \in Seq(S)
        BY <2>2 DEF Bufferless, Listed
      <4>2. SubSeq(s, zero + 1, n + 1) \in Seq(S) /\ Len(SubSeq(s, zero + 1, n + 1)) = n + 1
            /\ \A i \in 1..(n + 1) : SubSeq(s, zero + 1, n + 1)[i] = s[i]
        BY <4>1, <2>2
      <4> QED
        BY <4>1, <4>2, <2>2, SameSeq
    <3>3. g.text = SubSeq(text, 1, zero)
      BY <1>1, <3>1
    <3>4. zero \in 0..n
      BY <2>2
    <3>5. ClaudeReply(s, text, nth, g)
      BY <1>1, <3>1, <3>2, <3>3, <3>4 DEF ClaudeReply
    <3> QED
      BY <1>3, <3>5 DEF Coming
  <2> QED
    BY <2>1, <2>2, <2>3, SendKept DEF Bufferless
<1> QED
  BY <1>2, <1>3

LEMMA SendRawKeyKept ==
    ASSUME InputInv, NEW p \in Senders, NEW a \in Agents, NEW key, Input!SendRawKey(p, a, key)
    PROVE  InputInv'
<1> PICK kind, s, ready, want : kind = "key" /\ s = <<Input!Key(key)>> /\ ready = FALSE /\ want = None
  OBVIOUS
<1>1. Input!Send(p, a, kind, s, want, ready)
  BY DEF Input!SendRawKey
<1>2. Bufferless(s)
  BY BufferlessOne
<1> QED
  BY <1>1, <1>2, SendKept DEF Bufferless

CardSet == [options : Nat, multi : BOOLEAN, picks : Seq(Nat), other : Seq(Input!Words)]

LEMMA AnswerKept ==
    ASSUME InputInv, NEW p \in Senders, NEW a \in Agents, NEW cs \in Cards, Input!AnswerQuestion(p, a, cs)
    PROVE  InputInv'
<1> PICK n, qs, s, want, ready, g, nth, kind :
         /\ n = Len(cs) /\ qs = Input!PausedOnQuestion(a) /\ s = Script(a, cs)
         /\ want = [i \in DOMAIN cs |-> Input!Wanted(a, cs[i])]
         /\ ready = Input!Ready(a, "answer", qs, cs) /\ g = agent[a]
         /\ nth = Len(agent[a].got) + 1 /\ kind = "answer"
  OBVIOUS
<1>1. Input!Send(p, a, kind, s, want, ready) /\ cs # <<>>
  BY DEF Input!AnswerQuestion, Script
<1>2. cs \in Seq(CardSet) /\ n \in Nat /\ DOMAIN cs = 1..n
  <2>1. cs \in Seq(CardSet)
    BY InputAssumption DEF Input!Sendable, CardSet
  <2> QED
    BY ONLY <2>1, n = Len(cs)
<1>3. \A i \in 1..n : cs[i] \in CardSet
  BY <1>2
<1>4. \A i \in 1..n : cs[i].options \in Nat /\ cs[i].picks \in Seq(Nat) /\ cs[i].other \in Seq(Input!Words)
  BY <1>3 DEF CardSet
<1>5. \A i \in 1..n : /\ cs[i].options > 0
                      /\ cs[i].other # <<>> \/ cs[i].picks # <<>>
                      /\ Input!ToSet(cs[i].picks) \subseteq 0..(cs[i].options - 1)
  BY <1>2 DEF Input!AnswerQuestion
<1>6. Bufferless(s)
  BY <1>2, <1>4, <1>5, ScriptBufferless
<1>7. ASSUME ready PROVE Coming(kind, a, s, want, nth, g, buffer)
  <2>1. g.mode = "asking" /\ g.picker = Input!Fresh(qs) /\ n = Len(qs)
    BY <1>7 DEF Input!Ready
  <2>2. \A i \in 1..n : /\ cs[i].options = qs[i].options /\ cs[i].options < 9
                        /\ cs[i].multi = qs[i].multi
                        /\ cs[i].other = <<>> => Input!IsInjective(cs[i].picks)
                        /\ cs[i].other = <<>> /\ ~cs[i].multi => Len(cs[i].picks) = 1
    BY <1>2, <1>7 DEF Input!Ready
  <2>3. ASSUME NEW i \in 1..n PROVE Fits(cs[i], qs[i])
    <3> PICK c, q, picks, options : c = cs[i] /\ q = qs[i] /\ picks = c.picks /\ options = c.options
      OBVIOUS
    <3>1. options \in Nat /\ picks \in Seq(Nat) /\ c.other \in Seq(Input!Words) /\ options > 0 /\ options < 9
      BY <1>4, <1>5, <2>2
    <3>2. picks \in Seq(0..(options - 1))
      <4>1. \A j \in 1..Len(picks) : picks[j] \in 0..(options - 1)
        <5>1. Input!ToSet(picks) \subseteq 0..(options - 1)
          BY <1>5
        <5>2. \A j \in DOMAIN picks : picks[j] \in Input!ToSet(picks)
          BY ONLY DEF Input!ToSet
        <5>3. DOMAIN picks = 1..Len(picks)
          BY ONLY <3>1
        <5> QED
          BY ONLY <5>1, <5>2, <5>3
      <4> QED
        BY ONLY <3>1, <4>1
    <3>3. options \in 1..8
      BY ONLY <3>1
    <3> QED
      BY <1>5, <2>2, <3>1, <3>2, <3>3 DEF Fits
  <2> PICK text, got, empty, zero, none : /\ text = g.text /\ got = g.got
                                          /\ empty = <<>> /\ zero = 0 /\ none = None
    OBVIOUS
  <2>4. PromptShape(g) /\ Listed(got)
    BY DEF InputInv, PromptsInv, PromptShape
  <2>5. g = Picking(text, got, qs, <<>>, 0, {}, None)
    <3>1. Input!Fresh(qs) = Picker(qs, <<>>, 0, {}, None)
      BY DEF Input!Fresh, Picker
    <3>2. g = Prompt(g.mode, text, got, g.picker)
      BY <2>4 DEF PromptShape, Prompt
    <3> QED
      BY <2>1, <3>1, <3>2 DEF Picking
  <2> PICK h : h = Prompt("busy", text, Append(got, want), None)
    OBVIOUS
  <2>6. Leads(a, g, s, h)
    BY <1>1, <1>2, <2>1, <2>3, <2>5, CardRuns
  <2>7. h.got = Append(got, want)
    <3> PICK new, busy : new = Append(got, want) /\ busy = "busy"
      OBVIOUS
    <3>1. h = Prompt(busy, text, new, None)
      OBVIOUS
    <3>2. h.got = new
      BY ONLY <3>1, PromptParts
    <3> QED
      BY <3>2
  <2>8. Holds(h.got, nth, want)
    BY <2>4, <2>7, AppendHolds
  <2> QED
    BY <2>6, <2>8 DEF Coming
<1> QED
  BY <1>1, <1>6, <1>7, SendKept DEF Bufferless
-----------------------------------------------------------------------------
(* The theorem.                                                              *)

LEMMA WindowFact ==
    ASSUME NEW w \in Input!SetToSeqs(Agents)
    PROVE  w \in Seq(Agents)
<1>1. Input!IsFiniteSet(Agents)
  BY InputAssumption DEF Input!Sendable
<1>2. IsFiniteSet(Agents)
  BY <1>1 DEF Input!IsFiniteSet, IsFiniteSet
<1>3. Input!Cardinality(Agents) = Cardinality(Agents)
  BY DEF Input!Cardinality, Cardinality
<1> PICK n : n = Input!Cardinality(Agents)
  OBVIOUS
<1>4. n \in Nat
  BY <1>2, <1>3, FS_CardinalityType
<1>5. w \in [1..n -> Agents]
  BY DEF Input!SetToSeqs
<1> QED
  BY <1>4, <1>5

LEMMA InputInitKept ==
    ASSUME Input!Init
    PROVE  InputInv
<1>1. window \in Seq(Agents)
  BY WindowFact DEF Input!Init
<1>2. sender = [p \in Senders |-> None]
  BY DEF Input!Init
<1>3. PromptsInv
  <2>1. agent = [a \in Agents |-> [mode |-> "idle", text |-> <<>>, got |-> <<>>, picker |-> None]]
    BY DEF Input!Init
  <2> PICK g, idle, empty, none : g = Prompt(idle, empty, empty, none) /\ idle = "idle" /\ empty = <<>> /\ none = None
    OBVIOUS
  <2>2. Listed(empty)
    <3>1. <<>> \in Seq({})
      OBVIOUS
    <3> QED
      BY <3>1 DEF Listed
  <2>3. PromptShape(g)
    <3>1. idle \in {"idle", "busy", "asking"}
      OBVIOUS
    <3> QED
      BY ONLY <3>1, <2>2, g = Prompt(idle, empty, empty, none), PromptParts
  <2>4. agent = [a \in Agents |-> g]
    BY <2>1 DEF Prompt
  <2> QED
    BY ONLY <2>3, <2>4 DEF PromptsInv
<1> QED
  BY <1>1, <1>2, <1>3 DEF InputInv, RequestsInv, GoingInv, ApartInv

LEMMA InputNextKept ==
    ASSUME InputInv, Input!Next
    PROVE  InputInv'
<1>1. ASSUME NEW p \in Senders, NEW a \in Agents, NEW t \in Texts, NEW st, Input!Reply(p, a, t, st)
      PROVE  InputInv'
  BY <1>1, ReplyKept
<1>2. ASSUME NEW p \in Senders, NEW a \in Agents, NEW k, Input!SendRawKey(p, a, k)
      PROVE  InputInv'
  BY <1>2, SendRawKeyKept
<1>3. ASSUME NEW p \in Senders, NEW a \in Agents, NEW cs \in Cards, Input!AnswerQuestion(p, a, cs)
      PROVE  InputInv'
  BY <1>3, AnswerKept
<1>4. ASSUME NEW p \in Senders, Input!SendKeys(p) \/ Input!SendLiteral(p)
      PROVE  InputInv'
  BY <1>4, SendKeysKept
<1>5. ASSUME NEW p \in Senders, Input!FillBuffer(p) PROVE InputInv'
  BY <1>5, FillBufferKept
<1>6. ASSUME NEW p \in Senders, Input!PasteBuffer(p) PROVE InputInv'
  BY <1>6, PasteBufferKept
<1>7. ASSUME NEW p \in Senders, Input!SubmitKeysAfterPaste(p) PROVE InputInv'
  BY <1>7, SubmitKeysKept
<1>8. ASSUME NEW p \in Senders, Input!Fail(p) PROVE InputInv'
  BY <1>8, FailKept
<1>9. ASSUME NEW p \in Senders, Input!Return(p) PROVE InputInv'
  BY <1>9, ReturnKept
<1>10. ASSUME NEW a \in Agents, Input!TurnStarts(a) \/ Input!TurnEnds(a) PROVE InputInv'
  BY <1>10, TurnKept
<1>11. ASSUME NEW a \in Agents, Input!Stamp(a) PROVE InputInv'
  BY <1>11, StampKept DEF Input!Stamp
<1>12. ASSUME NEW a \in Agents, NEW qs, Input!Asks(a, qs) \/ Input!UserTypes(a) PROVE InputInv'
  BY <1>12, AsksKept
<1>13. ASSUME NEW i \in DOMAIN window, Input!ClosePane(i) PROVE InputInv'
  BY <1>13, ClosePaneKept
<1> QED
  BY <1>1, <1>2, <1>3, <1>4, <1>5, <1>6, <1>7, <1>8, <1>9, <1>10, <1>11, <1>12, <1>13 DEF Input!Next

(* What was sent has been given to the agent. *)
LEMMA InputInvGives ==
    ASSUME InputInv
    PROVE  InputArrives
<1> SUFFICES ASSUME NEW p \in Senders, sender[p] # None, sender[p].script = <<>>, sender[p].calm, ~sender[p].failed
             PROVE  Holds(agent[sender[p].to].got, sender[p].nth, sender[p].want)
  BY DEF InputArrives, Input!InputArrives, Holds
<1> PICK x, g : x = sender[p] /\ g = agent[x.to]
  OBVIOUS
<1>1. Coming(x.kind, x.to, x.script, x.want, x.nth, g, buffer)
  BY DEF InputInv, GoingInv, Going, Calm
<1>2. x.script = <<>>
  OBVIOUS
<1>3. CASE x.kind = "reply" /\ x.to \notin OfCodex /\ ClaudeReply(x.script, x.want, x.nth, g)
  <2>1. PICK k \in 0..Len(x.want) : x.script = SubSeq(Input!TmuxSendKeys(x.want), k + 1, Len(x.want) + 1)
    BY <1>3 DEF ClaudeReply
  <2> PICK s, n, t : s = Input!TmuxSendKeys(x.want) /\ n = Len(x.want) /\ t = SubSeq(s, k + 1, n + 1)
    OBVIOUS
  <2>2. PICK S : x.want \in Seq(S)
    BY <1>3 DEF ClaudeReply, Listed
  <2>3. Bufferless(s) /\ Len(s) = n + 1 /\ n \in Nat
    BY <2>2, TypingBufferless
  <2>4. PICK T : s \in Seq(T)
    BY <2>3 DEF Bufferless, Listed
  <2>5. Len(t) = (n + 1) - (k + 1) + 1
    BY ONLY <2>3, <2>4, k \in 0..Len(x.want), n = Len(x.want), t = SubSeq(s, k + 1, n + 1)
  <2>6. Len(t) # 0
    BY ONLY <2>3, <2>5, k \in 0..Len(x.want), n = Len(x.want)
  <2>7. t = <<>>
    BY <2>1, <1>2
  <2> QED
    BY ONLY <2>6, <2>7
<1>4. CASE x.kind = "reply" /\ x.to \in OfCodex /\ CodexReply(x.script, x.want, x.nth, g, buffer)
  <2>1. /\ \A c : <<c>> # <<>>
        /\ \A c, d : <<c, d>> # <<>>
        /\ \A c, d, e : <<c, d, e>> # <<>>
        /\ \A c, d, e, f : <<c, d, e, f>> # <<>>
    OBVIOUS
  <2> QED
    BY ONLY <2>1, <1>2, <1>4, Zenon DEF CodexReply, Preparing, Submitting
<1>5. CASE x.kind = "answer" /\ \E h : Leads(x.to, g, x.script, h) /\ Holds(h.got, x.nth, x.want)
  <2>1. PICK h : Leads(x.to, g, x.script, h) /\ Holds(h.got, x.nth, x.want)
    BY <1>5
  <2>2. h = g
    BY <2>1, <1>2, LeadsNothing
  <2> QED
    BY <2>1, <2>2
<1>6. CASE Holds(g.got, x.nth, x.want)
  BY <1>6
<1>7. \/ Holds(g.got, x.nth, x.want)
      \/ x.kind = "reply" /\ x.to \notin OfCodex /\ ClaudeReply(x.script, x.want, x.nth, g)
      \/ x.kind = "reply" /\ x.to \in OfCodex /\ CodexReply(x.script, x.want, x.nth, g, buffer)
      \/ x.kind = "answer" /\ \E h : Leads(x.to, g, x.script, h) /\ Holds(h.got, x.nth, x.want)
  BY ONLY <1>1, Zenon DEF Coming
<1> QED
  BY ONLY <1>3, <1>4, <1>5, <1>6, <1>7, Zenon

(* What the dashboards send arrives at the agent whole and unmixed, whatever *)
(* the agents, the requests at a time, the texts, the questions and the      *)
(* cards: a reply, typed or pasted, is the agent's next prompt and a card's   *)
(* answers are the answers to its questions, when nothing came between        *)
(* (internal/web/actions.go and internal/tui/commands.go over internal/tmux). *)
THEOREM InputDelivered == MCSpec => []InputArrives
<1>1. MCInit => InputInv
  BY InputInitKept DEF MCInit
<1>2. InputInv /\ [MCNext]_<<part, vars, inputVars>> => InputInv'
  <2> SUFFICES ASSUME InputInv, [MCNext]_<<part, vars, inputVars>>
               PROVE  InputInv'
    OBVIOUS
  <2>1. CASE Input!Next
    BY <2>1, InputNextKept
  <2>2. CASE UNCHANGED inputVars
    BY <2>2, StampKept DEF inputVars
  <2> QED
    BY <2>1, <2>2 DEF MCNext
<1>3. InputInv => InputArrives
  BY InputInvGives
<1> QED
  BY <1>1, <1>2, <1>3, PTL DEF MCSpec
=============================================================================
