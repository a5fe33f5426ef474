---------------------------- MODULE AtomicStore ----------------------------
(***************************************************************************)
(* What the agent store promises its writers, one step per operation.      *)
(* A write merges into the record on disk as one atomic step, so no field  *)
(* another writer has set is lost.  Removal takes no lock, which costs one *)
(* exception: a write that a removal overtakes may bring the removed       *)
(* record back.                                                            *)
(***************************************************************************)
EXTENDS AgentRecord

CONSTANTS
    Writes,   \* the requests hooks make of writeState, stamped or not
    Stamps,   \* the updates the dashboard makes
    Times     \* the readings of the clock

VARIABLES
    file,     \* the record on disk, or NoRecord
    removed   \* the record removed since the last write, or NoRecord

vars == <<file, removed>>

Init == (file = NoRecord \/ IsRecord(file)) /\ removed = NoRecord

(* The records a write may take as the existing one. *)
Bases == IF file = NoRecord THEN {NoRecord, removed} ELSE {file}

WriteState(write, now) ==
    \E base \in Bases :
        /\ ~Rejected(Existing(base), write, now)
        /\ file' = Merged(Existing(base), write, now)
        /\ removed' = NoRecord

(* stampAgentFields and PinAgentState, which need the file to be there. *)
StampFields(update) ==
    \E base \in Bases \ {NoRecord} :
        /\ file' = Merge(base, update)
        /\ removed' = NoRecord

Remove ==
    /\ file # NoRecord
    /\ file' = NoRecord
    /\ removed' = file

Next ==
    \/ \E write \in Writes, now \in Times : WriteState(write, now)
    \/ \E update \in Stamps : StampFields(update)
    \/ Remove

Spec == Init /\ [][Next]_vars
=============================================================================
