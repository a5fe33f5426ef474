--------------------------- MODULE WorktreeClaim ---------------------------
(***************************************************************************)
(* Which agent a linked worktree belongs to: a marker file in its git      *)
(* directory, created exclusively, names the session.  It is claimed by    *)
(* the hooks (packages/worktree-reconcile), by the skill that makes a      *)
(* worktree, and by the dashboards when they read the agent state          *)
(* (internal/state, ResolveAgentWorktree); a dashboard that spawns an      *)
(* agent leaves a spawn pin for it and reaps a marker whose owner is gone  *)
(* (internal/state/spawnpin.go).                                           *)
(*                                                                         *)
(* A session and its pane are one here.  A process is the hooks of a       *)
(* session, one after the other, or a dashboard.                           *)
(***************************************************************************)
EXTENDS Integers, FiniteSets

CONSTANTS
    None,
    Main,        \* the main worktree
    Linked,      \* the linked ones
    Sessions,
    Ghost,       \* a session that ended before, whose markers are left
    Dashboards,
    MaxResolves  \* bound on reads of the agent state that claim

VARIABLES
    cwd,      \* session -> where it was started; None before and after its life
    exists,   \* the linked worktrees there are
    marker,   \* linked worktree -> owner, or who is about to write it
    staged,   \* session -> the worktree of its spawn pin
    record,   \* session -> its state file: pin, and the worktrees it has seen
    proc,     \* process -> what it is about to do
    claims,   \* history: <<session, worktree>> whose marker was claimed
    reaped,   \* history: worktrees whose marker was removed while its owner lived
    resolves

vars == <<cwd, exists, marker, staged, record, proc, claims, reaped, resolves>>

(* The marker that s has created and not yet written: it names no one. *)
Blank(s) == <<s>>

(* The names stand for different things, and an empty marker is none of    *)
(* them.                                                                   *)
NamesDiffer ==
    /\ Main \notin Linked
    /\ Ghost \notin Sessions \cup {None} /\ None \notin Sessions \cup Linked \cup {Main}
    /\ Sessions \cap Dashboards = {}
    /\ \A s \in Sessions : Blank(s) \notin Sessions \cup {None, Ghost}

Places == Linked \cup {Main}

Idle == [op |-> "idle", s |-> None, w |-> None]

Unpinned == [pin |-> None, seen |-> {}]

Init ==
    /\ cwd = [s \in Sessions |-> None]
    /\ exists \in SUBSET Linked
    /\ marker \in [Linked -> {None, Ghost}] /\ \A w \in Linked \ exists : marker[w] = None
    /\ staged = [s \in Sessions |-> None] /\ record = [s \in Sessions |-> None]
    /\ proc = [p \in Sessions \cup Dashboards |-> Idle]
    /\ claims = {} /\ reaped = {} /\ resolves = 0

Alive(s) == s \in Sessions /\ cwd[s] # None

Go(p, op, s, w) == proc' = [proc EXCEPT ![p] = [op |-> op, s |-> s, w |-> w]]

At(p, op) == proc[p].op = op

Done(p) == proc' = [proc EXCEPT ![p] = Idle]

-----------------------------------------------------------------------------
(* claimMarker, of a hook, a skill or a dashboard.                          *)

(* Mistake: an existing marker is truncated. *)
CreateAnyway(p) ==
    LET s == proc[p].s
        w == proc[p].w
    IN  /\ At(p, "create") \/ At(p, "claim")
        /\ marker' = [marker EXCEPT ![w] = Blank(s)] /\ Go(p, "write", s, w)
        /\ UNCHANGED <<cwd, exists, staged, record, claims, reaped, resolves>>

(* Others of the worktrees a hook in the main one looks through. *)
Unclaimed(s, w) == {x \in exists \ {w} : cwd[s] = Main /\ marker[x] \in {None, s}}

(* Who is refused: a hook looks at the next worktree, or saves what it has; *)
(* a skill and a dashboard give up.                                         *)
Refused(p, s, w) ==
    IF ~At(p, "create") \/ p \in Dashboards THEN Done(p)
    ELSE IF Unclaimed(s, w) # {} THEN \E x \in Unclaimed(s, w) : Go(p, "create", s, x)
    ELSE Go(p, "save", s, None)

(* The marker is created, or the one that is there is compared. *)
Create(p) ==
    LET s == proc[p].s
        w == proc[p].w
    IN  /\ At(p, "create") \/ At(p, "claim")
        /\ CASE marker[w] = None -> /\ marker' = [marker EXCEPT ![w] = Blank(s)]
                                    /\ Go(p, "write", s, w) /\ UNCHANGED claims
             [] marker[w] = s    -> /\ claims' = claims \cup {<<s, w>>}
                                    /\ Go(p, "save", s, w) /\ UNCHANGED marker
             [] OTHER            -> Refused(p, s, w) /\ UNCHANGED <<marker, claims>>
        /\ UNCHANGED <<cwd, exists, staged, record, reaped, resolves>>

(* Into the file that was created, though it may have been reaped. *)
WriteMarker(p) ==
    LET s == proc[p].s
        w == proc[p].w
    IN  /\ At(p, "write")
        /\ marker' = IF marker[w] = Blank(s) THEN [marker EXCEPT ![w] = s] ELSE marker
        /\ claims' = claims \cup {<<s, w>>}
        /\ Go(p, "save", s, w)
        /\ UNCHANGED <<cwd, exists, staged, record, reaped, resolves>>

(* What is at the path now goes, whoever was looked at before. *)
Reap(p) ==
    LET w == proc[p].w
    IN  /\ At(p, "reap")
        /\ marker' = [marker EXCEPT ![w] = None]
        /\ reaped' = IF \E s \in Sessions : Alive(s) /\ marker[w] \in {s, Blank(s)} THEN reaped \cup {w} ELSE reaped
        /\ Go(p, IF p \in Sessions THEN "claim" ELSE "stage", proc[p].s, w)
        /\ UNCHANGED <<cwd, exists, staged, record, claims, resolves>>

-----------------------------------------------------------------------------
(* The hooks of a session, and the skill that makes a worktree for it.      *)

PinnedToLinked(s) == record[s] # None /\ record[s].pin \in Linked

(* reconcileWorktree: a spawn pin is consumed; an agent in a linked         *)
(* worktree claims that; one in the main worktree looks through the linked  *)
(* ones when there are others than it has seen.  A pin has its branch here: *)
(* the case that looks up a missing one, and claims the marker of the       *)
(* pinned worktree on the way, is left out.                                 *)
reconcileWorktree(s) ==
    /\ Alive(s) /\ proc[s] = Idle /\ ~PinnedToLinked(s)
    /\ \/ staged[s] # None /\ Go(s, "save", s, staged[s]) /\ staged' = [staged EXCEPT ![s] = None]
       \/ /\ staged[s] = None /\ UNCHANGED staged
          /\ IF cwd[s] \in Linked THEN Go(s, "create", s, cwd[s])
             ELSE IF record[s] # None /\ record[s].seen = exists THEN FALSE
             ELSE \/ \E w \in exists : marker[w] \in {None, s} /\ Go(s, "create", s, w)
                  \/ (\A w \in exists : marker[w] \notin {None, s}) /\ Go(s, "save", s, None)
    /\ UNCHANGED <<cwd, exists, marker, record, claims, reaped, resolves>>

(* The state file is written, for a session that was closed meanwhile too. *)
SaveHook(s) ==
    /\ At(s, "save")
    /\ LET old == IF record[s] = None THEN Unpinned ELSE record[s]
       IN  record' = [record EXCEPT ![s] =
                [pin  |-> IF proc[s].w = None THEN old.pin ELSE proc[s].w,
                 seen |-> IF cwd[s] = Main /\ proc[s].w # Main THEN exists ELSE old.seen]]
    /\ Done(s)
    /\ UNCHANGED <<cwd, exists, marker, staged, claims, reaped, resolves>>

(* claimWorktreeForPane: the marker of an owner without a state file, or    *)
(* with one that pins another worktree, is reaped first.  The two looks at  *)
(* the marker are one.                                                      *)
claimWorktreeForPane(s, w) ==
    /\ Alive(s) /\ proc[s] = Idle /\ cwd[s] = Main
    /\ record[s] # None /\ record[s].pin # w
    /\ w \in exists
    /\ LET owner == marker[w]
           gone  == owner = Ghost \/ (owner \in Sessions /\ (record[owner] = None \/ record[owner].pin # w))
       IN  Go(s, IF gone THEN "reap" ELSE "claim", s, w)
    /\ UNCHANGED <<cwd, exists, marker, staged, record, claims, reaped, resolves>>

AddWorktree(w) ==
    /\ w \notin exists /\ exists' = exists \cup {w}
    /\ \E s \in Sessions : cwd[s] = Main
    /\ UNCHANGED <<cwd, marker, staged, record, proc, claims, reaped, resolves>>

-----------------------------------------------------------------------------
(* The dashboards.                                                          *)

(* No trace of an earlier life is left: sessions are never used again. *)
Unused(s) ==
    /\ cwd[s] = None /\ record[s] = None /\ staged[s] = None /\ proc[s] = Idle
    /\ \A w \in Linked : marker[w] # s /\ <<s, w>> \notin claims
    /\ \A d \in Dashboards : proc[d].s # s

(* The pane is there, and its agent at work, before the spawn pin is.       *)
Spawn(d, s, w) ==
    /\ proc[d] = Idle /\ Unused(s)
    /\ w \in exists \cup {Main}
    /\ cwd' = [cwd EXCEPT ![s] = w]
    /\ Go(d, "look", s, w)
    /\ UNCHANGED <<exists, marker, staged, record, claims, reaped, resolves>>

(* ReapStaleMarker: live is who has a state file. *)
Look(d) ==
    LET w == proc[d].w
    IN  /\ At(d, "look")
        /\ Go(d, IF w \in Linked /\ (marker[w] = Ghost \/ \E o \in Sessions : marker[w] = o /\ record[o] = None)
                 THEN "reap" ELSE "stage", proc[d].s, w)
        /\ UNCHANGED <<cwd, exists, marker, staged, record, claims, reaped, resolves>>

(* Mistake: no pin for a worktree that another agent owns. *)
StageUnlessOwned(d) ==
    /\ At(d, "stage")
    /\ staged' = IF proc[d].w \in Linked /\ marker[proc[d].w] \in Sessions THEN staged
                 ELSE [staged EXCEPT ![proc[d].s] = proc[d].w]
    /\ Done(d)
    /\ UNCHANGED <<cwd, exists, marker, record, claims, reaped, resolves>>

StageSpawnPin(d) ==
    /\ At(d, "stage")
    /\ staged' = [staged EXCEPT ![proc[d].s] = proc[d].w]
    /\ Done(d)
    /\ UNCHANGED <<cwd, exists, marker, record, claims, reaped, resolves>>

(* ApplySpawnPins and ResolveAgentWorktree of one agent: its spawn pin,     *)
(* then a marker that names it, then a claim for the worktree it runs in.   *)
Resolve(d, s) ==
    /\ proc[d] = Idle /\ record[s] # None /\ resolves < MaxResolves /\ resolves' = resolves + 1
    /\ LET own == {w \in exists : marker[w] = s}
       IN  \/ record[s].pin = None /\ staged[s] # None /\ Go(d, "pin", s, staged[s])
           \/ record[s].pin = None /\ staged[s] = None /\ \E w \in own : Go(d, "save", s, w)
           \/ /\ record[s].pin = None /\ staged[s] = None /\ own = {}
              /\ cwd[s] \in Linked /\ Go(d, "create", s, cwd[s])
    /\ UNCHANGED <<cwd, exists, marker, staged, record, claims, reaped>>

(* An agent that is pinned needs its spawn pin no more. *)
DropSpawnPin(s) ==
    /\ record[s] # None /\ record[s].pin # None /\ staged[s] # None
    /\ staged' = [staged EXCEPT ![s] = None]
    /\ UNCHANGED <<cwd, exists, marker, record, proc, claims, reaped, resolves>>

(* pinAgentToWorktree: into the state file, if there still is one. *)
Pin(d) ==
    LET s == proc[d].s
    IN  /\ At(d, "save") \/ At(d, "pin")
        /\ record' = IF record[s] = None THEN record ELSE [record EXCEPT ![s].pin = proc[d].w]
        /\ staged' = IF At(d, "pin") THEN [staged EXCEPT ![s] = None] ELSE staged
        /\ Done(d)
        /\ UNCHANGED <<cwd, exists, marker, claims, reaped, resolves>>

(* Closing the agent; its marker stays. *)
Close(s) ==
    /\ Alive(s)
    /\ cwd' = [cwd EXCEPT ![s] = None] /\ record' = [record EXCEPT ![s] = None]
    /\ UNCHANGED <<exists, marker, staged, proc, claims, reaped, resolves>>

-----------------------------------------------------------------------------
Step(p) == Create(p) \/ WriteMarker(p) \/ Reap(p)

HookStep(s) == reconcileWorktree(s) \/ Step(s) \/ SaveHook(s)

DashboardStep(d) == Step(d) \/ Look(d) \/ StageSpawnPin(d) \/ Pin(d)

Next ==
    \/ \E s \in Sessions : HookStep(s) \/ DropSpawnPin(s) \/ Close(s)
    \/ \E s \in Sessions, w \in Linked : claimWorktreeForPane(s, w)
    \/ \E w \in Linked : AddWorktree(w)
    \/ \E d \in Dashboards : DashboardStep(d)
    \/ \E d \in Dashboards, s \in Sessions : Resolve(d, s) \/ \E w \in Places : Spawn(d, s, w)

(* An agent at work fires hooks, and a dashboard ends what it began. *)
Fairness ==
    /\ \A s \in Sessions : WF_vars(HookStep(s))
    /\ \A d \in Dashboards : WF_vars(DashboardStep(d))

Spec == Init /\ [][Next]_vars /\ Fairness

-----------------------------------------------------------------------------
(* No two living sessions have both claimed a worktree, unless the marker   *)
(* of one of them was reaped: that of a session whose first hook has not    *)
(* yet written its state file, or one that came after the look at another   *)
(* (claimMarker, ReapStaleMarker, reapMisalignedMarker).                    *)
ClaimIsExclusive ==
    \A s, t \in Sessions, w \in Linked \ reaped :
        Alive(s) /\ Alive(t) /\ <<s, w>> \in claims /\ <<t, w>> \in claims => s = t

(* An agent that is spawned into a linked worktree and stays comes to be    *)
(* pinned to it, whatever markers are there and whether its hooks or a      *)
(* dashboard come first (StageSpawnPin, ApplySpawnPins, reconcileWorktree). *)
SpawnedIsPinned ==
    \A s \in Sessions, w \in Linked :
        <>[](cwd[s] = w) => <>[](record[s] # None /\ record[s].pin = w)
=============================================================================
