---------------------------- MODULE SidecarLock ----------------------------
(***************************************************************************)
(* The sidecar file lock that serialises the read-merge-write of one agent *)
(* file.  Two implementations of one protocol meet on the same lock file:  *)
(* withFileLock in Go (internal/state/filelock.go) and withFileLock in     *)
(* JavaScript (packages/agent-state/filelock.js).                          *)
(*                                                                         *)
(* Each system call is one action: open(O_CREAT|O_EXCL), stat, unlink.     *)
(* What happens between stat and unlink is not protected by anything, and  *)
(* unlink acts on whatever file then has the name.                         *)
(***************************************************************************)
EXTENDS Integers, FiniteSets

CONSTANTS
    Procs,        \* the processes and goroutines that write this agent file
    MaxRetries,   \* lockMaxRetries / LOCK_MAX_RETRIES (400 in the code)
    NoFile        \* what a path with no file behind it holds

ASSUME RetriesAssumption == MaxRetries \in Nat \ {0}
ASSUME NoFileAssumption == NoFile \notin Procs

VARIABLES
    lockFile,  \* owner of the file <agent>.json.lock, or NoFile
    expired,   \* its mtime is more than lockStaleAfter (5 s) in the past
    pc,        \* where each process is in withFileLock
    attempt,   \* its loop counter
    history    \* the worst that Expire has met so far: no expired lock,
               \* only abandoned ones, or the lock of a live holder

vars == <<lockFile, expired, pc, attempt, history>>

Locations == {"try", "stat", "unlink", "sleep", "critical",
              "returned", "error", "killed"}

(* A process that withFileLock has returned from, or that is gone. *)
Finished(p) == pc[p] \in {"returned", "error", "killed"}

Holders == {p \in Procs : pc[p] = "critical"}

Init ==
    /\ lockFile = NoFile
    /\ expired = FALSE
    /\ pc = [p \in Procs |-> "try"]
    /\ attempt = [p \in Procs |-> 0]
    /\ history = "fresh"

Goto(p, location) == pc' = [pc EXCEPT ![p] = location]

(* Mistake: the loop runs while attempt <= lockMaxRetries. *)
NextAttemptInclusive(p) ==
    /\ attempt' = [attempt EXCEPT ![p] = @ + 1]
    /\ Goto(p, IF attempt[p] < MaxRetries THEN "try" ELSE "error")

(* The end of a loop iteration: the next one opens the file again, unless  *)
(* the budget is spent and the caller gets the "timed out" error.          *)
NextAttempt(p) ==
    /\ attempt' = [attempt EXCEPT ![p] = @ + 1]
    /\ Goto(p, IF attempt[p] + 1 < MaxRetries THEN "try" ELSE "error")

(* Mistake: open without O_EXCL. *)
CreateShared(p) ==
    /\ pc[p] = "try"
    /\ lockFile' = p
    /\ expired' = FALSE
    /\ Goto(p, "critical")
    /\ UNCHANGED <<attempt, history>>

(* open succeeded: the caller created the file and runs fn. *)
Create(p) ==
    /\ pc[p] = "try"
    /\ lockFile = NoFile
    /\ lockFile' = p
    /\ expired' = FALSE
    /\ Goto(p, "critical")
    /\ UNCHANGED <<attempt, history>>

(* open failed with EEXIST. *)
Exists(p) ==
    /\ pc[p] = "try"
    /\ lockFile # NoFile
    /\ Goto(p, "stat")
    /\ UNCHANGED <<lockFile, expired, attempt, history>>

(* open failed for another reason (the directory is gone, say). *)
OpenFails(p) ==
    /\ pc[p] = "try"
    /\ Goto(p, "error")
    /\ UNCHANGED <<lockFile, expired, attempt, history>>

(* Mistake: the age is compared the wrong way round. *)
StatReversed(p) ==
    /\ pc[p] = "stat"
    /\ Goto(p, IF lockFile # NoFile /\ ~expired THEN "unlink" ELSE "sleep")
    /\ UNCHANGED <<lockFile, expired, attempt, history>>

(* stat: an expired file is to be unlinked; a fresh one, or one that has   *)
(* vanished since, is waited for.                                          *)
Stat(p) ==
    /\ pc[p] = "stat"
    /\ Goto(p, IF lockFile # NoFile /\ expired THEN "unlink" ELSE "sleep")
    /\ UNCHANGED <<lockFile, expired, attempt, history>>

(* unlink by path, its error ignored, then `continue` without sleeping. *)
Unlink(p) ==
    /\ pc[p] = "unlink"
    /\ lockFile' = NoFile
    /\ expired' = FALSE
    /\ NextAttempt(p)
    /\ UNCHANGED history

(* Mistake: the caller waits to see the lock file go instead of polling. *)
SleepUntilGone(p) ==
    /\ pc[p] = "sleep"
    /\ lockFile = NoFile
    /\ NextAttempt(p)
    /\ UNCHANGED <<lockFile, expired, history>>

(* Wait lockRetryDelay and try again. *)
Sleep(p) ==
    /\ pc[p] = "sleep"
    /\ NextAttempt(p)
    /\ UNCHANGED <<lockFile, expired, history>>

(* fn has returned or thrown; the deferred unlink is by path too. *)
Release(p) ==
    /\ pc[p] = "critical"
    /\ lockFile' = NoFile
    /\ expired' = FALSE
    /\ Goto(p, "returned")
    /\ UNCHANGED <<attempt, history>>

Step(p) == \/ Create(p) \/ Exists(p) \/ OpenFails(p) \/ Stat(p)
           \/ Unlink(p) \/ Sleep(p) \/ Release(p)

(* A hook is killed at its timeout, or the dashboard exits: no deferred    *)
(* call runs, and a lock it held stays on disk.                            *)
Kill(p) ==
    /\ ~Finished(p)
    /\ Goto(p, "killed")
    /\ UNCHANGED <<lockFile, expired, attempt, history>>

(* Five seconds pass for the lock file.  Its owner may be dead, or merely  *)
(* stalled: a suspended machine, a blocked file system.                    *)
Expire ==
    /\ lockFile # NoFile
    /\ ~expired
    /\ expired' = TRUE
    /\ history' = IF pc[lockFile] # "killed" \/ history = "stalled"
                    THEN "stalled" ELSE "abandoned"
    /\ UNCHANGED <<lockFile, pc, attempt>>

Next == Expire \/ \E p \in Procs : Step(p) \/ Kill(p)

(* The operating system schedules every live process, and time passes; no  *)
(* process has to be killed.                                               *)
Fairness == WF_vars(Expire) /\ \A p \in Procs : WF_vars(Step(p))

Spec == Init /\ [][Next]_vars /\ Fairness

-----------------------------------------------------------------------------
TypeOK ==
    /\ lockFile \in Procs \cup {NoFile}
    /\ expired \in BOOLEAN
    /\ pc \in [Procs -> Locations]
    /\ attempt \in [Procs -> 0..MaxRetries]
    /\ history \in {"fresh", "abandoned", "stalled"}

(* "Run fn while holding an exclusive sidecar lock on filePath"            *)
(* (filelock.js:21): two callers are never inside fn together.             *)
Exclusive == \A p, q \in Holders : p = q

(* The lock is exclusive for as long as no lock file outlives              *)
(* lockStaleAfter, whoever is killed and wherever.                         *)
ExclusiveWhileFresh == history = "fresh" => Exclusive

(* A lock older than lockStaleAfter is that of a writer that crashed, and  *)
(* is unlinked (filelock.go:25-26): the lock should then stay exclusive in *)
(* every run in which no live holder is stalled for so long, crashes or    *)
(* not.  The code does not keep this: the unlink may hit a newer file.     *)
ExclusiveUnlessStalled == history # "stalled" => Exclusive

(* A caller that meets an abandoned lock that has expired gets rid of it:  *)
(* it never spends its whole budget waiting for a dead process.            *)
AbandonedLockCleared ==
    \A p, q \in Procs :
        (lockFile = q /\ expired /\ pc[q] = "killed" /\ pc[p] = "try")
            ~> \/ lockFile # q
               \/ pc[p] = "killed"
               \/ pc[p] = "error" /\ attempt[p] < MaxRetries

(* withFileLock never blocks its caller indefinitely (filelock.go:25-28):  *)
(* every call returns, fails or is killed.                                 *)
EveryCallReturns == \A p \in Procs : <>Finished(p)
=============================================================================
