-------------------------- MODULE AgentStoreProofs --------------------------
(***************************************************************************)
(* Proofs about AgentStore, for any set of hook processes and dashboard    *)
(* goroutines and any requests they may make; and that a worktree has one  *)
(* owner (WorktreeClaim, the instance Claim), for any sessions, dashboards *)
(* and worktrees, whose names differ.                                      *)
(***************************************************************************)
EXTENDS MCAgentStore, AgentRecordProofs

(* Every request a hook or the dashboard carries is well-formed. *)
LEMMA WritesTyped ==
    \A v \in AllWrites \cup {NoWrite} : IsUpdate(v.update)
<1>1. ASSUME NEW v \in Writes PROVE IsUpdate(v.update)
  <2>1. PICK r \in Requests, now \in Times : v = AsWrite(r, now)
    BY DEF Writes
  <2>2. IsUpdate(r.update) /\ now \in Nat
    BY RequestAssumption, ClockAssumption DEF Times
  <2>3. IsUpdate(Stamp(r.update, now))
    BY <2>2, StampTyped
  <2> QED
    BY <2>1, <2>2, <2>3 DEF AsWrite
<1>2. ASSUME NEW u \in Stamps PROVE IsUpdate(DashboardWrite(u).update)
  BY RequestAssumption DEF DashboardWrite
<1>3. IsUpdate(NoWrite.update)
  BY DEF NoWrite, DashboardWrite, NoRecord, IsUpdate
<1> QED
  BY <1>1, <1>2, <1>3 DEF AllWrites

LEMMA LeftOverTyped ==
    ASSUME NEW seq \in Nat
    PROVE  IsRecord(LeftOver(seq))
<1>1. /\ {"state", "report_seq"} \subseteq Fields
      /\ "idle_prompt" \in Values["state"]
      /\ seq \in Values["report_seq"]
  BY FieldNames DEF Values, States
<1>2. IsRecord([Empty EXCEPT !["state"] = "idle_prompt"])
  BY <1>1, EmptyTyped DEF IsRecord
<1>3. IsRecord([[Empty EXCEPT !["state"] = "idle_prompt"] EXCEPT !["report_seq"] = seq])
  BY <1>1, <1>2 DEF IsRecord
<1> QED
  BY <1>3 DEF LeftOver

LEMMA InitTyped == Init => TypeOK
<1>1. FutureSeq \in Nat
  BY SlackAssumption, ClockAssumption DEF FutureSeq
<1>2. IsRecord(LeftOver(FutureSeq))
  BY <1>1, LeftOverTyped
<1>3. 1 \in Times
  BY ClockAssumption DEF Times
<1> QED
  BY <1>2, <1>3 DEF Init, TypeOK

-----------------------------------------------------------------------------
(* The inductive invariant.  Whoever is between acquiring the lock and     *)
(* giving it back holds it (LockHeld).  So what a writer has read is still *)
(* what is on disk, unless a removal, which takes no lock, has come in     *)
(* between (SnapCurrent); and each writer carries a request of its kind    *)
(* (Carries).                                                              *)
LockHeld ==
    \A w \in Writers : pc[w] \in {"locked", "read", "unlock"} => lock = w

SnapCurrent ==
    \A w \in Writers : pc[w] = "read" =>
        /\ snap[w] \in IF file = NoRecord THEN {NoRecord, removed} ELSE {file}
        /\ w \in Dashboard => snap[w] # NoRecord

Carries ==
    \A w \in Writers : pc[w] \in {"wait", "locked", "read"} =>
        /\ w \in Hooks => write[w] \in Writes
        /\ w \in Dashboard => \E u \in Stamps : write[w] = DashboardWrite(u)

StoreInv == TypeOK /\ LockHeld /\ SnapCurrent /\ Carries

LEMMA NextTyped == TypeOK /\ SnapCurrent /\ [Next]_vars => TypeOK'
<1> SUFFICES ASSUME TypeOK, SnapCurrent, [Next]_vars PROVE TypeOK'
  OBVIOUS
<1> USE DEF TypeOK
<1>1. CASE UNCHANGED vars
  BY <1>1 DEF vars
<1>2. CASE LockExpires
  BY <1>2 DEF LockExpires
<1>3. CASE Remove
  BY <1>3 DEF Remove
<1>4. CASE Tick
  BY <1>4, ClockAssumption DEF Tick, Times
<1>5. ASSUME NEW w \in Writers, WriterStep(w) PROVE TypeOK'
  <2>1. CASE HookEntry(w)
    <3>1. ASSUME NEW r \in Requests PROVE AsWrite(r, clock) \in AllWrites
      BY DEF AllWrites, Writes
    <3> QED
      BY <2>1, <3>1 DEF HookEntry, Goto
  <2>2. CASE DashboardEntry(w)
    <3>1. ASSUME NEW u \in Stamps PROVE DashboardWrite(u) \in AllWrites
      BY DEF AllWrites
    <3> QED
      BY <2>2, <3>1 DEF DashboardEntry, Goto
  <2>3. CASE Acquire(w)
    BY <2>3 DEF Acquire, Goto
  <2>4. CASE GiveUp(w)
    BY <2>4 DEF GiveUp, Leave, Goto
  <2>5. CASE Read(w)
    BY <2>5 DEF Read, Goto
  <2>6. CASE Reject(w)
    BY <2>6 DEF Reject, Goto
  <2>7. CASE HookRename(w)
    <3>1. IsRecord(Existing(snap[w]))
      BY ExistingTyped
    <3>2. IsUpdate(write[w].update)
      BY WritesTyped
    <3>3. IsRecord(file')
      BY <2>7, <3>1, <3>2, MergedTyped DEF HookRename
    <3> QED
      BY <2>7, <3>3 DEF HookRename, Goto
  <2>8. CASE DashboardRename(w)
    <3>1. IsRecord(snap[w])
      BY <2>8 DEF DashboardRename, SnapCurrent
    <3>2. IsUpdate(write[w].update)
      BY WritesTyped
    <3>3. IsRecord(file')
      BY <2>8, <3>1, <3>2, MergeTyped DEF DashboardRename
    <3> QED
      BY <2>8, <3>3 DEF DashboardRename, Goto
  <2>9. CASE Unlock(w)
    BY <2>9 DEF Unlock, Leave, Goto
  <2>10. CASE Kill(w)
    BY <2>10 DEF Kill, Leave, Goto
  <2> QED
    BY <1>5, <2>1, <2>2, <2>3, <2>4, <2>5, <2>6, <2>7, <2>8, <2>9, <2>10 DEF WriterStep
<1> QED
  BY <1>1, <1>2, <1>3, <1>4, <1>5 DEF Next

LEMMA NextLockHeld == TypeOK /\ LockHeld /\ [Next]_vars => LockHeld'
<1> SUFFICES ASSUME TypeOK, LockHeld, [Next]_vars,
                    NEW v \in Writers, pc'[v] \in {"locked", "read", "unlock"}
             PROVE  lock' = v
  BY DEF LockHeld
<1> USE DEF TypeOK
<1>1. CASE UNCHANGED vars
  BY <1>1 DEF vars, LockHeld
<1>2. CASE LockExpires
  BY <1>2 DEF LockExpires, LockHeld
<1>3. CASE Remove
  BY <1>3 DEF Remove, LockHeld
<1>4. CASE Tick
  BY <1>4 DEF Tick, LockHeld
<1>5. ASSUME NEW w \in Writers, WriterStep(w) PROVE lock' = v
  <2>0. pc[v] \in {"locked", "read", "unlock"} => lock = v
    BY DEF LockHeld
  <2>1. CASE HookEntry(w)
    BY <2>0, <2>1 DEF HookEntry, Goto
  <2>2. CASE DashboardEntry(w)
    BY <2>0, <2>2 DEF DashboardEntry, Goto
  <2>3. CASE Acquire(w)
    BY <2>0, <2>3, WriterAssumption DEF Acquire, Goto
  <2>4. CASE GiveUp(w)
    BY <2>0, <2>4 DEF GiveUp, Leave, Goto
  <2>5. CASE Read(w)
    BY <2>0, <2>5 DEF Read, Goto
  <2>6. CASE Reject(w)
    BY <2>0, <2>6 DEF Reject, Goto
  <2>7. CASE HookRename(w)
    BY <2>0, <2>7 DEF HookRename, Goto
  <2>8. CASE DashboardRename(w)
    BY <2>0, <2>8 DEF DashboardRename, Goto
  <2>9. CASE Unlock(w)
    <3>1. lock = w
      BY <2>9 DEF Unlock, LockHeld
    <3> QED
      BY <2>0, <2>9, <3>1 DEF Unlock, Leave, Goto
  <2>10. CASE Kill(w)
    BY <2>0, <2>10 DEF Kill, Leave, Goto
  <2> QED
    BY <1>5, <2>1, <2>2, <2>3, <2>4, <2>5, <2>6, <2>7, <2>8, <2>9, <2>10 DEF WriterStep
<1> QED
  BY <1>1, <1>2, <1>3, <1>4, <1>5 DEF Next

LEMMA NextCarries == TypeOK /\ Carries /\ [Next]_vars => Carries'
<1> SUFFICES ASSUME TypeOK, Carries, [Next]_vars,
                    NEW v \in Writers, pc'[v] \in {"wait", "locked", "read"}
             PROVE  /\ v \in Hooks => write'[v] \in Writes
                    /\ v \in Dashboard => \E u \in Stamps : write'[v] = DashboardWrite(u)
  BY DEF Carries
<1> USE DEF TypeOK
<1>1. CASE UNCHANGED <<pc, write>>
  BY <1>1 DEF Carries
<1>2. ASSUME NEW w \in Writers, HookEntry(w) \/ DashboardEntry(w)
      PROVE  /\ v \in Hooks => write'[v] \in Writes
             /\ v \in Dashboard => \E u \in Stamps : write'[v] = DashboardWrite(u)
  <2>1. CASE v = w
    <3>1. \A r \in Requests : AsWrite(r, clock) \in Writes
      BY DEF Writes
    <3> QED
      BY <1>2, <2>1, <3>1, WriterAssumption DEF HookEntry, DashboardEntry
  <2>2. CASE v # w
    <3>1. pc'[v] = pc[v] /\ write'[v] = write[v]
      BY <1>2, <2>2 DEF HookEntry, DashboardEntry, Goto
    <3> QED
      BY <3>1 DEF Carries
  <2> QED
    BY <2>1, <2>2
<1>3. ASSUME NEW w \in Writers,
             Acquire(w) \/ Read(w) \/ Reject(w) \/ HookRename(w) \/ DashboardRename(w)
      PROVE  /\ v \in Hooks => write'[v] \in Writes
             /\ v \in Dashboard => \E u \in Stamps : write'[v] = DashboardWrite(u)
  <2>1. pc[v] \in {"wait", "locked", "read"} /\ write'[v] = write[v]
    BY <1>3 DEF Acquire, Read, Reject, HookRename, DashboardRename, Goto
  <2> QED
    BY <2>1 DEF Carries
<1>4. ASSUME NEW w \in Writers, GiveUp(w) \/ Unlock(w) \/ Kill(w)
      PROVE  /\ v \in Hooks => write'[v] \in Writes
             /\ v \in Dashboard => \E u \in Stamps : write'[v] = DashboardWrite(u)
  <2>1. pc[v] \in {"wait", "locked", "read"} /\ write'[v] = write[v]
    BY <1>4 DEF GiveUp, Unlock, Kill, Leave, Goto
  <2> QED
    BY <2>1 DEF Carries
<1> QED
  BY <1>1, <1>2, <1>3, <1>4 DEF Next, WriterStep, LockExpires, Remove, Tick, vars

LEMMA NextSnapCurrent == StoreInv /\ [Next]_vars => SnapCurrent'
<1> SUFFICES ASSUME StoreInv, [Next]_vars,
                    NEW v \in Writers, pc'[v] = "read"
             PROVE  /\ snap'[v] \in IF file' = NoRecord THEN {NoRecord, removed'} ELSE {file'}
                    /\ v \in Dashboard => snap'[v] # NoRecord
  BY DEF SnapCurrent
<1> USE DEF StoreInv, TypeOK
<1>1. CASE UNCHANGED <<file, removed, pc, snap>>
  BY <1>1 DEF SnapCurrent
<1>2. CASE Remove
  BY <1>2 DEF Remove, SnapCurrent
<1>3. ASSUME NEW w \in Writers, Read(w)
      PROVE  /\ snap'[v] \in IF file' = NoRecord THEN {NoRecord, removed'} ELSE {file'}
             /\ v \in Dashboard => snap'[v] # NoRecord
  <2>1. CASE v = w
    BY <1>3, <2>1 DEF Read, Goto
  <2>2. CASE v # w
    BY <1>3, <2>2 DEF Read, Goto, SnapCurrent
  <2> QED
    BY <2>1, <2>2
<1>4. ASSUME NEW w \in Writers, HookRename(w) \/ DashboardRename(w)
      PROVE  FALSE
  <2>1. pc[v] = "read" /\ v # w /\ pc[w] = "read"
    BY <1>4 DEF HookRename, DashboardRename, Goto
  <2> QED
    BY <2>1 DEF LockHeld
<1>5. ASSUME NEW w \in Writers,
             \/ HookEntry(w) \/ DashboardEntry(w) \/ Acquire(w)
             \/ GiveUp(w) \/ Reject(w) \/ Unlock(w) \/ Kill(w)
      PROVE  /\ snap'[v] \in IF file' = NoRecord THEN {NoRecord, removed'} ELSE {file'}
             /\ v \in Dashboard => snap'[v] # NoRecord
  <2>1. /\ pc[v] = "read"
        /\ snap'[v] = snap[v]
        /\ UNCHANGED <<file, removed>>
    BY <1>5 DEF HookEntry, DashboardEntry, Acquire, GiveUp, Reject, Unlock, Kill, Leave, Goto
  <2> QED
    BY <2>1 DEF SnapCurrent
<1> QED
  BY <1>1, <1>2, <1>3, <1>4, <1>5 DEF Next, WriterStep, LockExpires, Tick, vars

LEMMA StoreInvInductive == StoreInv /\ [Next]_vars => StoreInv'
BY NextTyped, NextLockHeld, NextCarries, NextSnapCurrent DEF StoreInv

LEMMA StoreInvHolds == Spec => []StoreInv
<1>1. Init => StoreInv
  BY InitTyped DEF Init, StoreInv, LockHeld, SnapCurrent, Carries
<1> QED
  BY <1>1, StoreInvInductive, PTL DEF Spec

(* Whatever the writers do, the agent file holds a well-formed record or   *)
(* is missing, and so is every record a writer has read.                   *)
THEOREM StoreTypeCorrect == Spec => []TypeOK
BY StoreInvHolds, PTL DEF StoreInv

-----------------------------------------------------------------------------
(* The rules of AtomicStore are those of AgentRecord, instantiated. *)
LEMMA SameRules ==
    ASSUME NEW e, NEW w, NEW now
    PROVE  /\ Atomic!NoRecord = NoRecord
           /\ Atomic!Existing(e) = Existing(e)
           /\ Atomic!Merge(e, w) = Merge(e, w)
           /\ Atomic!Rejected(e, w, now) = Rejected(e, w, now)
           /\ Atomic!Merged(e, w, now) = Merged(e, w, now)
           /\ Atomic!IsRecord(e) = IsRecord(e)
BY DEF Atomic!NoRecord, NoRecord, Atomic!NoSeq, NoSeq, Atomic!Existing, Existing,
       Atomic!Empty, Empty, Atomic!Merge, Merge, Atomic!Fields, Fields,
       Atomic!Values, Values, Atomic!States, States, Atomic!IsRecord, IsRecord,
       Atomic!Rejected, Rejected, Atomic!Merged, Merged,
       Atomic!StaleReportSeq, StaleReportSeq, Atomic!Plausible, Plausible,
       Atomic!GuardHit, GuardHit, Atomic!Preserved, Preserved

(* The rename of a hook is one atomic write into the record on disk, or    *)
(* into the one a removal has just taken away.                             *)
LEMMA HookRenameIsWrite ==
    ASSUME StoreInv, NEW w \in Writers, HookRename(w)
    PROVE  Atomic!Next
<1>1. /\ snap[w] \in Atomic!Bases
      /\ write[w] \in Writes
      /\ clock \in Times
  BY SameRules DEF HookRename, StoreInv, TypeOK, SnapCurrent, Carries, Atomic!Bases
<1>2. Atomic!WriteState(write[w], clock)
  BY <1>1, SameRules DEF HookRename, Atomic!WriteState
<1> QED
  BY <1>1, <1>2 DEF Atomic!Next

LEMMA DashboardRenameIsStamp ==
    ASSUME StoreInv, NEW w \in Writers, DashboardRename(w)
    PROVE  Atomic!Next
<1>1. snap[w] \in Atomic!Bases \ {Atomic!NoRecord}
  BY SameRules DEF DashboardRename, StoreInv, SnapCurrent, Atomic!Bases
<1>2. PICK u \in Stamps : write[w] = DashboardWrite(u)
  BY DEF DashboardRename, StoreInv, Carries
<1>3. write[w].update = u
  BY <1>2 DEF DashboardWrite
<1>4. Atomic!StampFields(u)
  BY <1>1, <1>3, SameRules DEF DashboardRename, Atomic!StampFields
<1> QED
  BY <1>4 DEF Atomic!Next

LEMMA StepSimulated ==
    ASSUME StoreInv, [Next]_vars
    PROVE  [Atomic!Next]_(Atomic!vars)
<1>1. CASE Remove
  BY <1>1, SameRules DEF Remove, Atomic!Next, Atomic!Remove
<1>2. ASSUME NEW w \in Writers, HookRename(w) PROVE Atomic!Next
  BY <1>2, HookRenameIsWrite
<1>3. ASSUME NEW w \in Writers, DashboardRename(w) PROVE Atomic!Next
  BY <1>3, DashboardRenameIsStamp
<1>4. CASE UNCHANGED <<file, removed>>
  BY <1>4 DEF Atomic!vars
<1> QED
  BY <1>1, <1>2, <1>3, <1>4
  DEF Next, WriterStep, vars, LockExpires, Tick, HookEntry, DashboardEntry, Acquire,
      GiveUp, Read, Reject, Unlock, Kill

(* The store keeps its promise to every writer: with any number of hooks   *)
(* and goroutines, killed anywhere, every write is an atomic merge into    *)
(* the record on disk, and no field another writer has set is lost.        *)
THEOREM StoreIsAtomic == Spec => WritesAreAtomic
<1>1. Init => Atomic!Init
  <2>1. Init => TypeOK
    BY InitTyped
  <2> QED
    BY <2>1, SameRules DEF Init, Atomic!Init, TypeOK
<1> QED
  BY <1>1, StepSimulated, StoreInvHolds, PTL DEF Spec, Atomic!Spec, WritesAreAtomic

-----------------------------------------------------------------------------
(* Only two steps replace the record on disk by another one, and each      *)
(* starts from that very record; a removal in between would show as a      *)
(* missing file.                                                           *)
LEMMA ChangeIsRename ==
    ASSUME StoreInv, [Next]_vars, file # NoRecord, file' # NoRecord, file' # file
    PROVE  \E w \in Writers :
              /\ pc'[w] = "unlock" /\ Acts(w)
              /\ \A v \in Writers : Acts(v) => v = w
              /\ IsUpdate(write[w].update)
              /\ \/ /\ w \in Hooks
                    /\ ~Rejected(file, write[w], clock)
                    /\ file' = Merged(file, write[w], clock)
                 \/ /\ w \in Dashboard
                    /\ "report_seq" \notin DOMAIN write[w].update
                    /\ file' = Merge(file, write[w].update)
<1> USE DEF StoreInv, TypeOK
<1>1. PICK w \in Writers : HookRename(w) \/ DashboardRename(w)
  BY DEF Next, WriterStep, vars, LockExpires, Remove, Tick, HookEntry, DashboardEntry,
         Acquire, GiveUp, Read, Reject, Unlock, Kill
<1>2. pc[w] = "read" /\ pc' = [pc EXCEPT ![w] = "unlock"]
  BY <1>1 DEF HookRename, DashboardRename, Goto
<1>3. /\ pc'[w] = "unlock" /\ Acts(w)
      /\ \A v \in Writers : Acts(v) => v = w
  BY <1>2 DEF Acts
<1>4. snap[w] = file /\ Existing(snap[w]) = file
  BY <1>2 DEF SnapCurrent, Existing
<1>5. IsUpdate(write[w].update)
  BY WritesTyped
<1>6. CASE HookRename(w)
  BY <1>3, <1>4, <1>5, <1>6 DEF HookRename
<1>7. CASE DashboardRename(w)
  <2>1. PICK u \in Stamps : write[w] = DashboardWrite(u)
    BY <1>7 DEF DashboardRename, Carries
  <2>2. "report_seq" \notin DOMAIN write[w].update
    BY <2>1, RequestAssumption DEF DashboardWrite
  <2> QED
    BY <1>3, <1>4, <1>5, <1>7, <2>2 DEF DashboardRename
<1> QED
  BY <1>1, <1>6, <1>7

(* However the hooks interleave, an event stamped earlier never takes the  *)
(* place of one stamped later (index.js:112-120).                          *)
THEOREM SeqMonotone == Spec => SeqNeverGoesBack
<1>1. ASSUME StoreInv, [Next]_vars, file # NoRecord, file' # NoRecord,
             Plausible(file.report_seq, clock)
      PROVE  file'.report_seq >= file.report_seq
  <2>1. IsRecord(file) /\ "report_seq" \in Fields /\ file.report_seq \in Nat
    BY <1>1, FieldNames DEF StoreInv, TypeOK, IsRecord, Values
  <2>2. CASE file' = file
    BY <2>1, <2>2
  <2>3. CASE file' # file
    BY <1>1, <2>1, <2>3, ChangeIsRename, MergedFields, MergeFields
  <2> QED
    BY <2>2, <2>3
<1>2. StoreInv /\ [Next]_vars =>
         [(/\ file # NoRecord
           /\ file' # NoRecord
           /\ Plausible(file.report_seq, clock))
               => file'.report_seq >= file.report_seq]_vars
  BY <1>1
<1> QED
  BY <1>2, StoreInvHolds, PTL DEF Spec, SeqNeverGoesBack

(* However many hooks and goroutines write, a pin is lost only to a write  *)
(* that sets pinned_state itself (state.go:562-564).                       *)
THEOREM PinsAreKept == Spec => PinsSurviveOtherWrites
<1>1. ASSUME StoreInv, [Next]_vars, file # NoRecord, file' # NoRecord,
             file'.pinned_state # file.pinned_state
      PROVE  \E w \in Writers : Acts(w) /\ "pinned_state" \in DOMAIN write[w].update
  <2>1. IsRecord(file) /\ "pinned_state" \in Fields
    BY <1>1, FieldNames DEF StoreInv, TypeOK
  <2> QED
    BY <1>1, <2>1, ChangeIsRename, MergedFields, MergeFields
<1>2. StoreInv /\ [Next]_vars =>
         [(file # NoRecord /\ file' # NoRecord /\ file'.pinned_state # file.pinned_state)
             => \E w \in Writers : Acts(w) /\ "pinned_state" \in DOMAIN write[w].update]_vars
  BY <1>1
<1> QED
  BY <1>2, StoreInvHolds, PTL DEF Spec, PinsSurviveOtherWrites

(* A guarded write never takes the agent out of a stop state, even one     *)
(* that was written after the hook had decided on its update               *)
(* (agent-state-fast.js:335-337).                                          *)
THEOREM GuardHolds == Spec => GuardedWriteSparesStopState
<1>1. ASSUME StoreInv, [Next]_vars, NEW w \in Hooks, Acts(w), file # NoRecord, file' # NoRecord,
             file.state \in write[w].guard
      PROVE  file'.state = file.state
  <2>1. IsRecord(file)
    BY <1>1 DEF StoreInv, TypeOK
  <2>2. CASE file' = file
    BY <2>2
  <2>3. CASE file' # file
    <3>1. /\ IsUpdate(write[w].update)
          /\ ~Rejected(file, write[w], clock)
          /\ file' = Merged(file, write[w], clock)
      BY <1>1, <2>3, ChangeIsRename, WriterAssumption DEF Writers
    <3> QED
      BY <1>1, <2>1, <3>1, MergedFields DEF GuardHit
  <2> QED
    BY <2>2, <2>3
<1>2. StoreInv /\ [Next]_vars =>
         [\A w \in Hooks :
            (/\ Acts(w)
             /\ file # NoRecord
             /\ file' # NoRecord
             /\ file.state \in write[w].guard)
                => file'.state = file.state]_vars
  BY <1>1
<1> QED
  BY <1>2, StoreInvHolds, PTL DEF Spec, GuardedWriteSparesStopState

-----------------------------------------------------------------------------
(* Worktree claims.                                                        *)

Processes == Sessions \cup Dashboards

Ops == {"idle", "create", "claim", "write", "reap", "save", "look", "stage", "pin"}

Doings == [op : Ops, s : Sessions \cup {None}, w : Claim!Places \cup {None}]

(* A process that claims, writes or reaps is about a session and a linked  *)
(* worktree; the hooks of a session are about that session.                *)
Fits(p, d) ==
    /\ d.op # "idle" => d.s \in Sessions
    /\ d.op \in {"create", "claim", "write", "reap"} => d.w \in Linked
    /\ p \in Sessions => d.s \in {p, None}

ProcTyped ==
    /\ proc \in [Processes -> Doings]
    /\ \A p \in Processes : Fits(p, proc[p])

Typed ==
    /\ cwd \in [Sessions -> Claim!Places \cup {None}]
    /\ exists \subseteq Linked
    /\ marker \in [Linked -> Sessions \cup {None, Ghost} \cup {Claim!Blank(s) : s \in Sessions}]
    /\ staged \in [Sessions -> Claim!Places \cup {None}]
    /\ claims \subseteq Sessions \X Linked
    /\ reaped \subseteq Linked
    /\ ProcTyped

(* Whoever has claimed a worktree is in its marker as long as the session  *)
(* lives and nobody has reaped it ...                                      *)
MarkerNamesOwner ==
    \A s \in Sessions, w \in Linked :
        w \notin reaped /\ Claim!Alive(s) /\ <<s, w>> \in claims => marker[w] = s

(* ... and whoever has created a marker finds it unchanged, or written by  *)
(* another process of the same session.                                    *)
CreatedStays ==
    \A p \in Processes :
        /\ proc[p].op = "write" /\ Claim!Alive(proc[p].s) /\ proc[p].w \notin reaped
        => marker[proc[p].w] \in {proc[p].s, Claim!Blank(proc[p].s)}

ClaimInv == Typed /\ MarkerNamesOwner /\ CreatedStays

LEMMA IdleFits == Claim!Idle \in Doings /\ \A p : Fits(p, Claim!Idle)
<1>1. /\ Claim!Idle.op = "idle" /\ Claim!Idle.s = None /\ Claim!Idle.w = None
      /\ Claim!Idle \in Doings
  BY DEF Claim!Idle, Doings, Ops
<1> QED
  BY <1>1 DEF Fits

LEMMA InitClaimInv == ASSUME Claim!NamesDiffer PROVE Claim!Init => ClaimInv
<1> SUFFICES ASSUME Claim!Init PROVE ClaimInv
  OBVIOUS
<1>1. ProcTyped
  BY IdleFits DEF Claim!Init, ProcTyped, Processes
<1>2. /\ cwd \in [Sessions -> Claim!Places \cup {None}]
      /\ staged \in [Sessions -> Claim!Places \cup {None}]
      /\ exists \subseteq Linked /\ claims \subseteq Sessions \X Linked
      /\ reaped \subseteq Linked
  BY DEF Claim!Init
<1>3. marker \in [Linked -> Sessions \cup {None, Ghost} \cup {Claim!Blank(s) : s \in Sessions}]
  BY DEF Claim!Init
<1>4. Typed
  BY <1>1, <1>2, <1>3 DEF Typed
<1>5. MarkerNamesOwner
  BY DEF Claim!Init, MarkerNamesOwner
<1>6. CreatedStays
  BY DEF Claim!Init, CreatedStays, Claim!Idle, Processes
<1> QED
  BY <1>4, <1>5, <1>6 DEF ClaimInv

-----------------------------------------------------------------------------
(* What a process turns to next.                                           *)

LEMMA ProcStep ==
    ASSUME ProcTyped, NEW p \in Processes, NEW d \in Doings, Fits(p, d),
           proc' = [proc EXCEPT ![p] = d]
    PROVE  ProcTyped' /\ proc'[p] = d /\ \A q \in Processes \ {p} : proc'[q] = proc[q]
BY DEF ProcTyped

LEMMA GoStep ==
    ASSUME ProcTyped, NEW p \in Processes, NEW op \in Ops, NEW s \in Sessions,
           NEW w \in Claim!Places \cup {None},
           p \in Sessions => s = p,
           op \in {"create", "claim", "write", "reap"} => w \in Linked,
           Claim!Go(p, op, s, w)
    PROVE  /\ ProcTyped' /\ proc'[p].op = op /\ proc'[p].s = s /\ proc'[p].w = w
           /\ \A q \in Processes \ {p} : proc'[q] = proc[q]
<1> DEFINE d == [op |-> op, s |-> s, w |-> w]
<1>1. d \in Doings /\ d.op = op /\ d.s = s /\ d.w = w
  BY DEF Doings
<1>2. Fits(p, d)
  BY <1>1 DEF Fits
<1> QED
  BY <1>1, <1>2, ProcStep DEF Claim!Go

LEMMA DoneStep ==
    ASSUME ProcTyped, NEW p \in Processes, Claim!Done(p)
    PROVE  /\ ProcTyped' /\ proc'[p].op = "idle"
           /\ \A q \in Processes \ {p} : proc'[q] = proc[q]
<1>1. Claim!Idle.op = "idle"
  BY DEF Claim!Idle
<1> QED
  BY <1>1, IdleFits, ProcStep DEF Claim!Done

LEMMA Busy ==
    ASSUME Claim!NamesDiffer, ProcTyped, NEW p \in Processes, proc[p].op # "idle"
    PROVE  /\ proc[p].s \in Sessions /\ (p \in Sessions => proc[p].s = p)
           /\ proc[p].op \in {"create", "claim", "write", "reap"} => proc[p].w \in Linked
BY DEF ProcTyped, Fits, Claim!NamesDiffer

-----------------------------------------------------------------------------
(* A step that leaves markers and claims alone, turns no process to writing *)
(* and starts a session only where nothing is left of it.                   *)
LEMMA QuietStep ==
    ASSUME ClaimInv, UNCHANGED <<marker, claims, reaped>>,
           cwd' \in [Sessions -> Claim!Places \cup {None}], exists' \subseteq Linked,
           staged' \in [Sessions -> Claim!Places \cup {None}], ProcTyped',
           \A q \in Processes : proc'[q] = proc[q] \/ proc'[q].op # "write",
           \A s \in Sessions :
               Claim!Alive(s)' => \/ Claim!Alive(s)
                            \/ /\ \A w \in Linked : <<s, w>> \notin claims
                               /\ \A q \in Processes : proc[q].op = "write" => proc[q].s # s
    PROVE  ClaimInv'
<1>1. Typed'
  BY DEF ClaimInv, Typed
<1>2. MarkerNamesOwner'
  BY DEF ClaimInv, MarkerNamesOwner, Claim!Alive
<1>3. CreatedStays'
  <2> SUFFICES ASSUME NEW q \in Processes, (proc[q].op)' = "write", Claim!Alive(proc[q].s)',
                      (proc[q].w \notin reaped)'
               PROVE  (marker[proc[q].w] \in {proc[q].s, Claim!Blank(proc[q].s)})'
    BY DEF CreatedStays
  <2>1. proc'[q] = proc[q]
    OBVIOUS
  <2>2. Claim!Alive(proc[q].s)
    BY <2>1 DEF Claim!Alive
  <2> QED
    BY <2>1, <2>2 DEF ClaimInv, CreatedStays, Claim!Blank
<1> QED
  BY <1>1, <1>2, <1>3 DEF ClaimInv

-----------------------------------------------------------------------------
(* The steps that change markers or claims.                                *)

LEMMA CreateKeeps ==
    ASSUME Claim!NamesDiffer, ClaimInv, NEW p \in Processes, Claim!Create(p)
    PROVE  ClaimInv'
<1> PICK s, w : s = proc[p].s /\ w = proc[p].w
  OBVIOUS
<1>1. s \in Sessions /\ w \in Linked /\ (p \in Sessions => s = p)
  BY Busy DEF ClaimInv, Typed, Claim!Create, Claim!At
<1>2. UNCHANGED <<cwd, exists, staged, record, reaped, resolves>>
  BY DEF Claim!Create
<1>a. marker[w] \in {None, s} \/ marker[w] \notin {None, s}
  OBVIOUS
<1>b. s # None
  BY <1>1 DEF Claim!NamesDiffer
<1>3. CASE marker[w] = None
  <2>1. /\ marker' = [marker EXCEPT ![w] = Claim!Blank(s)]
        /\ Claim!Go(p, "write", s, w) /\ UNCHANGED claims
    BY <1>3, <1>b DEF Claim!Create
  <2>2. ProcTyped'
    BY <2>1, <1>1, GoStep DEF Ops, ClaimInv, Typed, Claim!Places
  <2>3. Typed'
    BY <2>1, <2>2, <1>1, <1>2 DEF ClaimInv, Typed
  <2>4. MarkerNamesOwner'
    BY <2>1, <1>1, <1>2, <1>3 DEF ClaimInv, Typed, MarkerNamesOwner, Claim!NamesDiffer, Claim!Alive
  <2>5. CreatedStays'
    <3> SUFFICES ASSUME NEW q \in Processes, (proc[q].op)' = "write", Claim!Alive(proc[q].s)',
                        (proc[q].w \notin reaped)'
                 PROVE  (marker[proc[q].w] \in {proc[q].s, Claim!Blank(proc[q].s)})'
      BY DEF CreatedStays
    <3>1. CASE q = p
      BY <3>1, <2>1, <1>1 DEF Claim!Go, ClaimInv, Typed, ProcTyped, Claim!Blank
    <3>2. CASE q # p
      <4>1. proc'[q] = proc[q]
        BY <3>2, <2>1 DEF Claim!Go, ClaimInv, Typed, ProcTyped
      <4>2. marker[proc[q].w] \in {proc[q].s, Claim!Blank(proc[q].s)} /\ proc[q].s \in Sessions
        BY <4>1, <1>2 DEF ClaimInv, CreatedStays, Claim!Alive
      <4>3. proc[q].w # w
        BY <4>2, <1>3 DEF Claim!NamesDiffer
      <4> QED
        BY <4>1, <4>2, <4>3, <2>1 DEF ClaimInv, Typed, Claim!Blank
    <3> QED
      BY <3>1, <3>2
  <2> QED
    BY <2>3, <2>4, <2>5 DEF ClaimInv
<1>4. CASE marker[w] = s
  <2>1. claims' = claims \cup {<<s, w>>} /\ Claim!Go(p, "save", s, w) /\ UNCHANGED marker
    BY <1>4, <1>b DEF Claim!Create
  <2>2. ProcTyped'
    BY <2>1, <1>1, GoStep DEF Ops, ClaimInv, Typed, Claim!Places
  <2>3. Typed'
    BY <2>1, <2>2, <1>1, <1>2 DEF ClaimInv, Typed
  <2>4. MarkerNamesOwner'
    BY <2>1, <1>1, <1>2, <1>4 DEF ClaimInv, MarkerNamesOwner, Claim!Alive
  <2>5. CreatedStays'
    BY <2>1, <1>2 DEF Claim!Go, ClaimInv, Typed, ProcTyped, CreatedStays, Claim!Alive, Claim!Blank
  <2> QED
    BY <2>3, <2>4, <2>5 DEF ClaimInv
<1>5. CASE marker[w] \notin {None, s}
  <2>1. Claim!Refused(p, s, w) /\ UNCHANGED <<marker, claims>>
    BY <1>5 DEF Claim!Create
  <2>2. /\ ProcTyped'
        /\ \A q \in Processes : proc'[q] # proc[q] => proc'[q].op # "write"
    <3>1. CASE Claim!Done(p)
      BY <3>1, DoneStep DEF ClaimInv, Typed
    <3>2. ASSUME NEW x \in Claim!Unclaimed(s, w), Claim!Go(p, "create", s, x) PROVE <2>2!:
      BY <3>2, <1>1, GoStep DEF ClaimInv, Typed, Ops, Claim!Unclaimed, Claim!Places
    <3>3. CASE Claim!Go(p, "save", s, None)
      BY <3>3, <1>1, GoStep DEF ClaimInv, Typed, Ops
    <3> QED
      BY <2>1, <3>1, <3>2, <3>3 DEF Claim!Refused
  <2>3. Typed' /\ MarkerNamesOwner'
    BY <2>1, <2>2, <1>2 DEF ClaimInv, Typed, MarkerNamesOwner, Claim!Alive
  <2>4. CreatedStays'
    BY <2>1, <2>2, <1>2 DEF ClaimInv, CreatedStays, Claim!Alive, Claim!Blank
  <2> QED
    BY <2>3, <2>4 DEF ClaimInv
<1> QED
  BY <1>3, <1>4, <1>5, <1>a

LEMMA WriteMarkerKeeps ==
    ASSUME Claim!NamesDiffer, ClaimInv, NEW p \in Processes, Claim!WriteMarker(p)
    PROVE  ClaimInv'
<1> PICK s, w : s = proc[p].s /\ w = proc[p].w
  OBVIOUS
<1>1. s \in Sessions /\ w \in Linked /\ (p \in Sessions => s = p)
  BY Busy DEF ClaimInv, Typed, Claim!WriteMarker, Claim!At
<1>2. /\ marker' = IF marker[w] = Claim!Blank(s) THEN [marker EXCEPT ![w] = s] ELSE marker
      /\ claims' = claims \cup {<<s, w>>} /\ Claim!Go(p, "save", s, w)
      /\ UNCHANGED <<cwd, exists, staged, reaped>> /\ proc[p].op = "write"
  BY DEF Claim!WriteMarker, Claim!At
<1>3. /\ ProcTyped' /\ proc'[p].op = "save"
      /\ \A q \in Processes \ {p} : proc'[q] = proc[q]
  BY <1>2, <1>1, GoStep DEF Ops, ClaimInv, Typed, Claim!Places
<1>4. Typed'
  BY <1>1, <1>2, <1>3 DEF ClaimInv, Typed
<1>5. MarkerNamesOwner'
  <2> SUFFICES ASSUME NEW t \in Sessions, NEW x \in Linked, x \notin reaped, Claim!Alive(t),
                      <<t, x>> \in claims'
               PROVE  marker'[x] = t
    BY <1>2 DEF MarkerNamesOwner, Claim!Alive
  <2>1. CASE <<t, x>> \in claims
    <3>1. marker[x] = t
      BY <2>1 DEF ClaimInv, MarkerNamesOwner
    <3>2. t # Claim!Blank(s)
      BY <1>1 DEF Claim!NamesDiffer
    <3> QED
      BY <3>1, <3>2, <1>2 DEF ClaimInv, Typed
  <2>2. CASE t = s /\ x = w
    <3>1. marker[w] \in {s, Claim!Blank(s)}
      BY <2>2, <1>2 DEF ClaimInv, CreatedStays, Claim!Blank
    <3> QED
      BY <3>1, <2>2, <1>1, <1>2 DEF ClaimInv, Typed
  <2> QED
    BY <2>1, <2>2, <1>2
<1>6. CreatedStays'
  <2> SUFFICES ASSUME NEW q \in Processes, proc'[q].op = "write", Claim!Alive(proc'[q].s),
                      proc'[q].w \notin reaped
               PROVE  marker'[proc'[q].w] \in {proc'[q].s, Claim!Blank(proc'[q].s)}
    BY <1>2 DEF CreatedStays, Claim!Alive, Claim!Blank
  <2>1. proc'[q] = proc[q]
    BY <1>3
  <2> PICK t, x : t = proc[q].s /\ x = proc[q].w
    OBVIOUS
  <2>2. marker[x] \in {t, Claim!Blank(t)} /\ t \in Sessions
    BY <2>1 DEF ClaimInv, CreatedStays, Claim!Alive
  <2>3. t # Claim!Blank(s) /\ (Claim!Blank(t) = Claim!Blank(s) => t = s)
    BY <2>2, <1>1 DEF Claim!NamesDiffer, Claim!Blank
  <2>4. marker'[x] \in {t, Claim!Blank(t)}
    BY <2>2, <2>3, <1>1, <1>2 DEF ClaimInv, Typed
  <2> QED
    BY <2>1, <2>4
<1> QED
  BY <1>4, <1>5, <1>6 DEF ClaimInv

LEMMA ReapKeeps ==
    ASSUME Claim!NamesDiffer, ClaimInv, NEW p \in Processes, Claim!Reap(p)
    PROVE  ClaimInv'
<1> PICK s, w : s = proc[p].s /\ w = proc[p].w
  OBVIOUS
<1>1. s \in Sessions /\ w \in Linked /\ (p \in Sessions => s = p)
  BY Busy DEF ClaimInv, Typed, Claim!Reap, Claim!At
<1>2. /\ marker' = [marker EXCEPT ![w] = None]
      /\ reaped' = IF \E t \in Sessions : Claim!Alive(t) /\ marker[w] \in {t, Claim!Blank(t)}
                   THEN reaped \cup {w} ELSE reaped
      /\ UNCHANGED <<cwd, exists, staged, claims>>
  BY DEF Claim!Reap
<1>3. \E op \in {"claim", "stage"} : Claim!Go(p, op, s, w)
  BY DEF Claim!Reap
<1>4. /\ ProcTyped' /\ proc'[p].op # "write"
      /\ \A q \in Processes \ {p} : proc'[q] = proc[q]
  BY <1>3, <1>1, GoStep DEF Ops, ClaimInv, Typed, Claim!Places
<1>5. Typed'
  BY <1>1, <1>2, <1>4 DEF ClaimInv, Typed
<1>6. MarkerNamesOwner'
  BY <1>1, <1>2 DEF ClaimInv, Typed, MarkerNamesOwner, Claim!Alive
<1>7. CreatedStays'
  <2> SUFFICES ASSUME NEW q \in Processes, proc'[q].op = "write", Claim!Alive(proc'[q].s),
                      proc'[q].w \notin reaped'
               PROVE  marker'[proc'[q].w] \in {proc'[q].s, Claim!Blank(proc'[q].s)}
    BY <1>2 DEF CreatedStays, Claim!Alive, Claim!Blank
  <2>1. proc'[q] = proc[q]
    BY <1>4
  <2> PICK t, x : t = proc[q].s /\ x = proc[q].w
    OBVIOUS
  <2>2. marker[x] \in {t, Claim!Blank(t)} /\ t \in Sessions /\ Claim!Alive(t)
    BY <2>1, <1>2 DEF ClaimInv, CreatedStays, Claim!Alive
  <2>3. x # w
    BY <2>1, <2>2, <1>2
  <2> QED
    BY <2>1, <2>2, <2>3, <1>2 DEF ClaimInv, Typed
<1> QED
  BY <1>5, <1>6, <1>7 DEF ClaimInv

-----------------------------------------------------------------------------
(* The others, which go about it or follow from it.                        *)

LEMMA HookKeeps ==
    ASSUME Claim!NamesDiffer, ClaimInv, NEW s \in Sessions,
           \/ Claim!reconcileWorktree(s) \/ Claim!SaveHook(s)
           \/ \E w \in Linked : Claim!claimWorktreeForPane(s, w)
    PROVE  ClaimInv'
<1>1. s \in Processes /\ UNCHANGED <<cwd, exists, marker, claims, reaped>>
  BY DEF Processes, Claim!reconcileWorktree, Claim!SaveHook, Claim!claimWorktreeForPane
<1>2. staged' \in [Sessions -> Claim!Places \cup {None}]
  BY DEF ClaimInv, Typed, Claim!reconcileWorktree, Claim!SaveHook, Claim!claimWorktreeForPane
<1>3. \/ Claim!Done(s)
      \/ \E op \in {"save", "create", "reap", "claim"}, w \in Claim!Places \cup {None} :
            Claim!Go(s, op, s, w) /\ (op # "save" => w \in Linked)
  <2>1. CASE Claim!reconcileWorktree(s)
    <3>1. CASE staged[s] # None /\ Claim!Go(s, "save", s, staged[s])
      BY <3>1 DEF ClaimInv, Typed
    <3>2. CASE staged[s] = None /\ cwd[s] \in Linked /\ Claim!Go(s, "create", s, cwd[s])
      BY <3>2 DEF ClaimInv, Typed, Claim!Places
    <3>3. CASE \E w \in exists : Claim!Go(s, "create", s, w)
      BY <3>3 DEF ClaimInv, Typed, Claim!Places
    <3>4. CASE Claim!Go(s, "save", s, None)
      BY <3>4
    <3> QED
      BY <2>1, <3>1, <3>2, <3>3, <3>4 DEF Claim!reconcileWorktree
  <2>2. CASE Claim!SaveHook(s)
    BY <2>2 DEF Claim!SaveHook
  <2>3. CASE \E w \in Linked : Claim!claimWorktreeForPane(s, w)
    BY <2>3 DEF Claim!claimWorktreeForPane, Claim!Places
  <2> QED
    BY <2>1, <2>2, <2>3
<1>4. /\ ProcTyped' /\ proc'[s].op # "write"
      /\ \A q \in Processes \ {s} : proc'[q] = proc[q]
  <2>1. CASE Claim!Done(s)
    BY <2>1, <1>1, DoneStep DEF ClaimInv, Typed
  <2>2. ASSUME NEW op \in {"save", "create", "reap", "claim"}, NEW w \in Claim!Places \cup {None},
               Claim!Go(s, op, s, w), op # "save" => w \in Linked
        PROVE  <1>4!:
    BY <2>2, <1>1, GoStep DEF ClaimInv, Typed, Ops
  <2> QED
    BY <1>3, <2>1, <2>2
<1> QED
  BY <1>1, <1>2, <1>4, QuietStep DEF ClaimInv, Typed, Claim!Alive

LEMMA DashboardKeeps ==
    ASSUME Claim!NamesDiffer, ClaimInv, NEW d \in Dashboards,
           \/ Claim!Look(d) \/ Claim!StageSpawnPin(d) \/ Claim!Pin(d)
           \/ \E s \in Sessions : Claim!Resolve(d, s)
    PROVE  ClaimInv'
<1>1. d \in Processes /\ d \notin Sessions
  BY DEF Processes, Claim!NamesDiffer
<1>2. UNCHANGED <<cwd, exists, marker, claims, reaped>>
  BY DEF Claim!Look, Claim!StageSpawnPin, Claim!Pin, Claim!Resolve
<1>3. staged' \in [Sessions -> Claim!Places \cup {None}]
  BY <1>1, Busy
  DEF ClaimInv, Typed, ProcTyped, Doings, Claim!Look, Claim!StageSpawnPin, Claim!Pin, Claim!Resolve, Claim!At
<1>4. \/ Claim!Done(d)
      \/ \E op \in {"reap", "stage", "pin", "save", "create"}, s \in Sessions,
            w \in Claim!Places \cup {None} :
            Claim!Go(d, op, s, w) /\ (op \in {"reap", "create"} => w \in Linked)
  <2>1. CASE Claim!Look(d)
    <3>1. proc[d].s \in Sessions /\ proc[d].w \in Claim!Places \cup {None}
      BY <2>1, <1>1, Busy DEF Claim!Look, Claim!At, ClaimInv, Typed, ProcTyped, Doings
    <3>2. \/ Claim!Go(d, "reap", proc[d].s, proc[d].w) /\ proc[d].w \in Linked
          \/ Claim!Go(d, "stage", proc[d].s, proc[d].w)
      BY <2>1 DEF Claim!Look
    <3> QED
      BY <3>1, <3>2
  <2>2. CASE Claim!StageSpawnPin(d) \/ Claim!Pin(d)
    BY <2>2 DEF Claim!StageSpawnPin, Claim!Pin
  <2>3. ASSUME NEW s \in Sessions, Claim!Resolve(d, s) PROVE <1>4!:
    <3>1. CASE staged[s] # None /\ Claim!Go(d, "pin", s, staged[s])
      BY <3>1 DEF ClaimInv, Typed
    <3>2. CASE \E w \in exists : Claim!Go(d, "save", s, w)
      BY <3>2 DEF ClaimInv, Typed, Claim!Places
    <3>3. CASE cwd[s] \in Linked /\ Claim!Go(d, "create", s, cwd[s])
      BY <3>3 DEF Claim!Places
    <3> QED
      BY <2>3, <3>1, <3>2, <3>3 DEF Claim!Resolve
  <2> QED
    BY <2>1, <2>2, <2>3
<1>5. /\ ProcTyped' /\ proc'[d].op # "write"
      /\ \A q \in Processes \ {d} : proc'[q] = proc[q]
  <2>1. CASE Claim!Done(d)
    BY <2>1, <1>1, DoneStep DEF ClaimInv, Typed
  <2>2. ASSUME NEW op \in {"reap", "stage", "pin", "save", "create"}, NEW s \in Sessions,
               NEW w \in Claim!Places \cup {None}, Claim!Go(d, op, s, w),
               op \in {"reap", "create"} => w \in Linked
        PROVE  <1>5!:
    BY <2>2, <1>1, GoStep DEF ClaimInv, Typed, Ops
  <2> QED
    BY <1>4, <2>1, <2>2
<1> QED
  BY <1>2, <1>3, <1>5, QuietStep DEF ClaimInv, Typed, Claim!Alive

LEMMA SpawnKeeps ==
    ASSUME Claim!NamesDiffer, ClaimInv, NEW d \in Dashboards, NEW s \in Sessions,
           NEW w \in Claim!Places, Claim!Spawn(d, s, w)
    PROVE  ClaimInv'
<1>1. d \in Processes /\ d \notin Sessions
  BY DEF Processes, Claim!NamesDiffer
<1>2. /\ UNCHANGED <<exists, marker, staged, claims, reaped>>
      /\ cwd' = [cwd EXCEPT ![s] = w] /\ Claim!Go(d, "look", s, w) /\ Claim!Unused(s)
  BY DEF Claim!Spawn
<1>3. /\ ProcTyped' /\ proc'[d].op = "look"
      /\ \A q \in Processes \ {d} : proc'[q] = proc[q]
  BY <1>1, <1>2, GoStep DEF ClaimInv, Typed, Ops
<1>4. \A q \in Processes : proc[q].op = "write" => proc[q].s # s
  <2> SUFFICES ASSUME NEW q \in Processes, proc[q].op = "write" PROVE proc[q].s # s
    OBVIOUS
  <2>1. CASE q \in Dashboards
    BY <2>1, <1>2 DEF Claim!Unused
  <2>2. CASE q \in Sessions
    BY <2>2, <1>2, Busy DEF Claim!Unused, Claim!Idle, ClaimInv, Typed
  <2> QED
    BY <2>1, <2>2 DEF Processes
<1>5. \A t \in Sessions : Claim!Alive(t)' => Claim!Alive(t) \/ t = s
  BY <1>2 DEF Claim!Alive, ClaimInv, Typed
<1>6. \A x \in Linked : <<s, x>> \notin claims
  BY <1>2 DEF Claim!Unused
<1>7. cwd' \in [Sessions -> Claim!Places \cup {None}]
  BY <1>2 DEF ClaimInv, Typed
<1> QED
  BY <1>2, <1>3, <1>4, <1>5, <1>6, <1>7, QuietStep DEF ClaimInv, Typed

LEMMA ClaimStep ==
    ASSUME Claim!NamesDiffer, ClaimInv, [Claim!Next]_(Claim!vars) PROVE ClaimInv'
<1>1. ASSUME NEW p \in Processes, Claim!Step(p) PROVE ClaimInv'
  BY <1>1, CreateKeeps, WriteMarkerKeeps, ReapKeeps DEF Claim!Step
<1>2. ASSUME NEW s \in Sessions, Claim!HookStep(s) PROVE ClaimInv'
  BY <1>1, <1>2, HookKeeps DEF Claim!HookStep, Processes
<1>3. ASSUME NEW d \in Dashboards, Claim!DashboardStep(d) PROVE ClaimInv'
  BY <1>1, <1>3, DashboardKeeps DEF Claim!DashboardStep, Processes
<1>4. ASSUME NEW s \in Sessions, Claim!DropSpawnPin(s) PROVE ClaimInv'
  <2>1. /\ UNCHANGED <<cwd, exists, marker, proc, claims, reaped>>
        /\ staged' = [staged EXCEPT ![s] = None]
    BY <1>4 DEF Claim!DropSpawnPin
  <2> QED
    BY <2>1, QuietStep DEF ClaimInv, Typed, ProcTyped, Claim!Alive
<1>5. ASSUME NEW s \in Sessions, Claim!Close(s) PROVE ClaimInv'
  <2>1. /\ UNCHANGED <<exists, marker, staged, proc, claims, reaped>>
        /\ cwd' = [cwd EXCEPT ![s] = None]
    BY <1>5 DEF Claim!Close
  <2> QED
    BY <2>1, QuietStep DEF ClaimInv, Typed, ProcTyped, Claim!Alive
<1>6. ASSUME NEW w \in Linked, Claim!AddWorktree(w) PROVE ClaimInv'
  <2>1. /\ UNCHANGED <<cwd, marker, staged, proc, claims, reaped>>
        /\ exists' = exists \cup {w}
    BY <1>6 DEF Claim!AddWorktree
  <2> QED
    BY <2>1, QuietStep DEF ClaimInv, Typed, ProcTyped, Claim!Alive
<1>7. CASE UNCHANGED Claim!vars
  BY <1>7, QuietStep DEF Claim!vars, ClaimInv, Typed, ProcTyped, Claim!Alive
<1> QED
  BY <1>2, <1>3, <1>4, <1>5, <1>6, <1>7, HookKeeps, DashboardKeeps, SpawnKeeps DEF Claim!Next

-----------------------------------------------------------------------------
(* Two sessions that have claimed a worktree are both the one its marker   *)
(* names.                                                                  *)
LEMMA ClaimInvExcludes == ASSUME ClaimInv PROVE ClaimIsExclusive
BY DEF ClaimInv, MarkerNamesOwner, ClaimIsExclusive, Claim!ClaimIsExclusive

(* However the hooks of the agents, the skill and the dashboards interleave *)
(* their looks at a marker, the creation of it, what is written into it and *)
(* its removal, no two living agents have claimed a worktree unless the     *)
(* marker of one of them was reaped while it lived (claimMarker,            *)
(* ReapStaleMarker, reapMisalignedMarker), for any agents, dashboards and   *)
(* worktrees whose names differ.                                            *)
THEOREM ClaimsExclude == MCSpec => []ClaimIsExclusive
<1>1. MCInit => ClaimInv
  BY ClaimAssumption, InitClaimInv DEF MCInit
<1>2. ClaimInv /\ [MCNext]_<<part, vars, claimVars>> => ClaimInv'
  <2> SUFFICES ASSUME ClaimInv, [MCNext]_<<part, vars, claimVars>> PROVE ClaimInv'
    OBVIOUS
  <2>1. [Claim!Next]_(Claim!vars)
    BY DEF MCNext, claimVars, Claim!vars
  <2> QED
    BY <2>1, ClaimAssumption, ClaimStep
<1>3. ClaimInv => ClaimIsExclusive
  BY ClaimInvExcludes
<1> QED
  BY <1>1, <1>2, <1>3, PTL DEF MCSpec
=============================================================================
