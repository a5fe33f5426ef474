---------------------------- MODULE AgentStore ----------------------------
(***************************************************************************)
(* One agent file, agents/<session_id>.json, and everyone who changes it:  *)
(* hook processes through writeState (packages/agent-state/index.js), the  *)
(* dashboard's goroutines through stampAgentFields and PinAgentState       *)
(* (internal/state/state.go), and the removals, which take no lock.        *)
(*                                                                         *)
(* The lock is the one SidecarLock models, here one variable: while no     *)
(* lock file outlives lockStaleAfter it has a single holder, and the lock  *)
(* of a dead holder is given up after that time.                           *)
(***************************************************************************)
EXTENDS AgentRecord

CONSTANTS
    Hooks,      \* hook processes
    Dashboard,  \* goroutines of the dashboard
    NoOne,      \* the holder of a free lock
    Requests,   \* what hooks ask of writeState: [update, guard, preserve, stamped]
    Stamps,     \* what the dashboard stamps: updates
    MaxClock    \* bound on the clock

Writers == Hooks \cup Dashboard

ASSUME WriterAssumption ==
    /\ NoOne \notin Writers
    /\ Hooks \cap Dashboard = {}
ASSUME ClockAssumption == MaxClock \in Nat \ {0}
ASSUME RequestAssumption ==
    /\ \A r \in Requests : IsUpdate(r.update) /\ r.guard \subseteq States
                           /\ r.preserve \in BOOLEAN /\ r.stamped \in BOOLEAN
    /\ \A u \in Stamps : IsUpdate(u) /\ "report_seq" \notin DOMAIN u

VARIABLES
    file,     \* the record on disk, or NoRecord
    removed,  \* history: the record removed since the last write, or NoRecord
    lock,     \* the holder of the sidecar lock, or NoOne
    pc,       \* where each writer is
    write,    \* the request each writer carries
    snap,     \* the record each writer has read under the lock
    clock     \* the wall clock, which the processes share

vars == <<file, removed, lock, pc, write, snap, clock>>

Times == 1..MaxClock

(* A request with the stamp it gets at a given time.  Requests that carry  *)
(* no report_seq (warn-destructive, an explicit worktree claim) stay so.   *)
AsWrite(r, now) ==
    [update   |-> IF r.stamped THEN Stamp(r.update, now) ELSE r.update,
     guard    |-> r.guard,
     preserve |-> r.preserve]

DashboardWrite(update) == [update |-> update, guard |-> {}, preserve |-> FALSE]

Writes == {AsWrite(r, now) : r \in Requests, now \in Times}

AllWrites == Writes \cup {DashboardWrite(u) : u \in Stamps}

NoWrite == DashboardWrite(NoRecord)

(* The file may be missing, or be left over from an earlier session, in    *)
(* which case its stamp may lie in the future (a restored file, a clock    *)
(* that has been set back).                                                *)
FutureSeq == MaxClock + Slack + 1

LeftOver(seq) == [Empty EXCEPT !["state"] = "idle_prompt", !["report_seq"] = seq]

Init ==
    /\ file \in {NoRecord, LeftOver(FutureSeq)}
    /\ removed = NoRecord
    /\ lock = NoOne
    /\ pc = [w \in Writers |-> "idle"]
    /\ write = [w \in Writers |-> NoWrite]
    /\ snap = [w \in Writers |-> NoRecord]
    /\ clock = 1

Goto(w, location) == pc' = [pc EXCEPT ![w] = location]

(* The call is over, or the process is, and its locals are gone. *)
Leave(w, location) ==
    /\ Goto(w, location)
    /\ write' = [write EXCEPT ![w] = NoWrite]
    /\ snap' = [snap EXCEPT ![w] = NoRecord]

(* A hook stamps its report at its entry, before any I/O. *)
HookEntry(w) ==
    /\ w \in Hooks
    /\ pc[w] = "idle"
    /\ \E r \in Requests : write' = [write EXCEPT ![w] = AsWrite(r, clock)]
    /\ Goto(w, "wait")
    /\ UNCHANGED <<file, removed, lock, snap, clock>>

DashboardEntry(w) ==
    /\ w \in Dashboard
    /\ pc[w] = "idle"
    /\ \E u \in Stamps : write' = [write EXCEPT ![w] = DashboardWrite(u)]
    /\ Goto(w, "wait")
    /\ UNCHANGED <<file, removed, lock, snap, clock>>

(* Mistake: the writer does not take the lock. *)
AcquireNothing(w) ==
    /\ pc[w] = "wait"
    /\ Goto(w, "locked")
    /\ UNCHANGED <<file, removed, lock, write, snap, clock>>

(* withFileLock gets the lock. *)
Acquire(w) ==
    /\ pc[w] = "wait"
    /\ lock = NoOne
    /\ lock' = w
    /\ Goto(w, "locked")
    /\ UNCHANGED <<file, removed, write, snap, clock>>

(* Mistake: after the time-out the write goes ahead without the lock. *)
GiveUpAndWrite(w) ==
    /\ pc[w] = "wait"
    /\ lock # NoOne
    /\ Goto(w, "locked")
    /\ UNCHANGED <<file, removed, lock, write, snap, clock>>

(* withFileLock times out: the write is dropped. *)
GiveUp(w) ==
    /\ pc[w] = "wait"
    /\ lock # NoOne
    /\ Leave(w, "idle")
    /\ UNCHANGED <<file, removed, lock, clock>>

(* The dashboard fails on a missing file; a hook goes on with {}. *)
Read(w) ==
    /\ pc[w] = "locked"
    /\ snap' = [snap EXCEPT ![w] = file]
    /\ Goto(w, IF w \in Dashboard /\ file = NoRecord THEN "unlock" ELSE "read")
    /\ UNCHANGED <<file, removed, lock, write, clock>>

(* The early returns of writeState. *)
Reject(w) ==
    /\ w \in Hooks
    /\ pc[w] = "read"
    /\ Rejected(Existing(snap[w]), write[w], clock)
    /\ Goto(w, "unlock")
    /\ UNCHANGED <<file, removed, lock, write, snap, clock>>

(* Mistake: the update is written without the fields it does not name. *)
HookRenameUpdateOnly(w) ==
    /\ w \in Hooks
    /\ pc[w] = "read"
    /\ ~Rejected(Existing(snap[w]), write[w], clock)
    /\ file' = write[w].update
    /\ removed' = NoRecord
    /\ Goto(w, "unlock")
    /\ UNCHANGED <<lock, write, snap, clock>>

(* The temporary file is written and renamed over the agent file. *)
HookRename(w) ==
    /\ w \in Hooks
    /\ pc[w] = "read"
    /\ ~Rejected(Existing(snap[w]), write[w], clock)
    /\ file' = Merged(Existing(snap[w]), write[w], clock)
    /\ removed' = NoRecord
    /\ Goto(w, "unlock")
    /\ UNCHANGED <<lock, write, snap, clock>>

DashboardRename(w) ==
    /\ w \in Dashboard
    /\ pc[w] = "read"
    /\ file' = Merge(snap[w], write[w].update)
    /\ removed' = NoRecord
    /\ Goto(w, "unlock")
    /\ UNCHANGED <<lock, write, snap, clock>>

Unlock(w) ==
    /\ pc[w] = "unlock"
    /\ lock' = NoOne
    /\ Leave(w, "idle")
    /\ UNCHANGED <<file, removed, clock>>

(* A hook is killed at its timeout, between any two of its steps. *)
Kill(w) ==
    /\ w \in Hooks
    /\ pc[w] \notin {"idle", "killed"}
    /\ Leave(w, "killed")
    /\ UNCHANGED <<file, removed, lock, clock>>

(* A killed holder's lock file expires and the next caller unlinks it. *)
LockExpires ==
    /\ lock # NoOne
    /\ pc[lock] = "killed"
    /\ lock' = NoOne
    /\ UNCHANGED <<file, removed, pc, write, snap, clock>>

(* RemoveAgent, PruneDead, removeAgent and cleanStale unlink the file      *)
(* whoever holds the lock.                                                 *)
Remove ==
    /\ file # NoRecord
    /\ file' = NoRecord
    /\ removed' = file
    /\ UNCHANGED <<lock, pc, write, snap, clock>>

Tick ==
    /\ clock < MaxClock
    /\ clock' = clock + 1
    /\ UNCHANGED <<file, removed, lock, pc, write, snap>>

WriterStep(w) ==
    \/ HookEntry(w) \/ DashboardEntry(w) \/ Acquire(w) \/ GiveUp(w) \/ Read(w)
    \/ Reject(w) \/ HookRename(w) \/ DashboardRename(w) \/ Unlock(w) \/ Kill(w)

Next == LockExpires \/ Remove \/ Tick \/ \E w \in Writers : WriterStep(w)

Spec == Init /\ [][Next]_vars

-----------------------------------------------------------------------------
TypeOK ==
    /\ file = NoRecord \/ IsRecord(file)
    /\ removed = NoRecord \/ IsRecord(removed)
    /\ lock \in Writers \cup {NoOne}
    /\ pc \in [Writers -> {"idle", "wait", "locked", "read", "unlock", "killed"}]
    /\ write \in [Writers -> AllWrites \cup {NoWrite}]
    /\ DOMAIN snap = Writers
    /\ \A w \in Writers : snap[w] = NoRecord \/ IsRecord(snap[w])
    /\ clock \in Times

(* Every write is an atomic merge into the record on disk, the promise of  *)
(* index.js:83-87 ("so concurrent hook subprocesses and the dashboard      *)
(* pin/stamp paths don't overwrite each other's fields").                  *)
Atomic == INSTANCE AtomicStore WITH file <- file, removed <- removed
WritesAreAtomic == Atomic!Spec

(* The writer that takes a step. *)
Acts(w) == pc'[w] # pc[w]

(* The stamp on disk never goes back, except from an implausible one: an   *)
(* event that was stamped earlier never lands over a later one.            *)
SeqNeverGoesBack ==
    [][(/\ file # NoRecord
        /\ file' # NoRecord
        /\ Plausible(file.report_seq, clock))
            => file'.report_seq >= file.report_seq]_vars

(* A guarded write (a late PostToolUse, a SubagentStop, a Stop with a tool *)
(* in flight) never takes the agent out of a stop state, whenever that     *)
(* state was written (agent-state-fast.js:335-337).                        *)
GuardedWriteSparesStopState ==
    [][\A w \in Hooks :
          (/\ Acts(w)
           /\ file # NoRecord
           /\ file' # NoRecord
           /\ file.state \in write[w].guard)
              => file'.state = file.state]_vars

(* A pin survives every write that does not itself set pinned_state        *)
(* (state.go:562-564: "concurrent writers cannot wipe pinned_state").      *)
PinsSurviveOtherWrites ==
    [][(file # NoRecord /\ file' # NoRecord /\ file'.pinned_state # file.pinned_state)
            => \E w \in Writers : Acts(w) /\ "pinned_state" \in DOMAIN write[w].update]_vars
=============================================================================
