------------------------- MODULE SidecarLockProofs -------------------------
(***************************************************************************)
(* Proofs about SidecarLock, for any number of callers and any budget.     *)
(***************************************************************************)
EXTENDS SidecarLock, TLAPS

(* The loop counter stays within the budget because a caller that is still *)
(* in the loop has an attempt left; TypeOK alone is not inductive.         *)
InLoop == {"try", "stat", "unlink", "sleep"}

BudgetLeft == \A p \in Procs : pc[p] \in InLoop => attempt[p] < MaxRetries

TypeInv == TypeOK /\ BudgetLeft

(* The end of an iteration keeps the counter typed and within the budget. *)
LEMMA NextAttemptTyped ==
    ASSUME TypeInv, NEW p \in Procs, pc[p] \in InLoop, NextAttempt(p)
    PROVE  /\ pc' \in [Procs -> Locations]
           /\ attempt' \in [Procs -> 0..MaxRetries]
           /\ BudgetLeft'
<1> USE RetriesAssumption DEF TypeInv, TypeOK, Locations, InLoop
<1>1. attempt[p] \in 0..MaxRetries /\ attempt[p] < MaxRetries
  BY DEF BudgetLeft
<1>2. attempt[p] + 1 \in 0..MaxRetries
  BY <1>1
<1>3. attempt' \in [Procs -> 0..MaxRetries]
  BY <1>2 DEF NextAttempt
<1>4. pc' \in [Procs -> Locations]
  BY DEF NextAttempt, Goto
<1>5. ASSUME NEW q \in Procs, pc'[q] \in InLoop PROVE attempt'[q] < MaxRetries
  <2>1. CASE q = p
    BY <1>1, <1>5, <2>1 DEF NextAttempt, Goto
  <2>2. CASE q # p
    BY <1>5, <2>2 DEF NextAttempt, Goto, BudgetLeft
  <2> QED
    BY <2>1, <2>2
<1> QED
  BY <1>3, <1>4, <1>5 DEF BudgetLeft

LEMMA TypeInvInductive == TypeInv /\ [Next]_vars => TypeInv'
<1> SUFFICES ASSUME TypeInv, [Next]_vars PROVE TypeInv'
  OBVIOUS
<1> USE DEF TypeInv, TypeOK, BudgetLeft
<1>1. CASE UNCHANGED vars
  BY <1>1 DEF vars
<1>2. CASE Expire
  BY <1>2 DEF Expire
<1>3. ASSUME NEW p \in Procs, Step(p) PROVE TypeInv'
  <2>1. CASE Create(p)
    BY <2>1 DEF Create, Goto, Locations, InLoop
  <2>2. CASE Exists(p)
    BY <2>2 DEF Exists, Goto, Locations, InLoop
  <2>3. CASE OpenFails(p)
    BY <2>3 DEF OpenFails, Goto, Locations, InLoop
  <2>4. CASE Stat(p)
    BY <2>4 DEF Stat, Goto, Locations, InLoop
  <2>5. CASE Unlink(p)
    <3>1. pc[p] \in InLoop
      BY <2>5 DEF Unlink, InLoop
    <3> QED
      BY <2>5, <3>1, NextAttemptTyped DEF Unlink
  <2>6. CASE Sleep(p)
    <3>1. pc[p] \in InLoop
      BY <2>6 DEF Sleep, InLoop
    <3> QED
      BY <2>6, <3>1, NextAttemptTyped DEF Sleep
  <2>7. CASE Release(p)
    BY <2>7 DEF Release, Goto, Locations, InLoop
  <2> QED
    BY <1>3, <2>1, <2>2, <2>3, <2>4, <2>5, <2>6, <2>7 DEF Step
<1>4. ASSUME NEW p \in Procs, Kill(p) PROVE TypeInv'
  BY <1>4 DEF Kill, Goto, Locations, InLoop
<1> QED
  BY <1>1, <1>2, <1>3, <1>4 DEF Next

(* Every run of the lock protocol stays within its types; in particular no *)
(* caller of withFileLock makes more than MaxRetries attempts.             *)
THEOREM TypeCorrect == Spec => []TypeOK
<1>1. Init => TypeInv
  <2>1. 0 \in 0..MaxRetries /\ 0 < MaxRetries
    BY RetriesAssumption
  <2>2. Init => TypeOK
    BY <2>1 DEF Init, TypeOK, Locations
  <2>3. Init => BudgetLeft
    BY <2>1 DEF Init, BudgetLeft
  <2> QED
    BY <2>2, <2>3 DEF TypeInv
<1>2. TypeInv => TypeOK
  BY DEF TypeInv
<1> QED
  BY <1>1, <1>2, TypeInvInductive, PTL DEF Spec

-----------------------------------------------------------------------------
(* While no lock file has expired, none looks expired, no caller is about  *)
(* to unlink one, and whoever runs fn owns the file that is there.  Then   *)
(* two callers inside fn would own the same file.                          *)
OwnsFile ==
    history = "fresh" =>
        /\ ~expired
        /\ \A p \in Procs : pc[p] # "unlink"
        /\ \A p \in Holders : lockFile = p

LEMMA OwnsFileInductive == TypeOK /\ OwnsFile /\ [Next]_vars => OwnsFile'
<1> SUFFICES ASSUME TypeOK, OwnsFile, [Next]_vars, history' = "fresh"
             PROVE  /\ ~expired'
                    /\ \A p \in Procs : pc'[p] # "unlink"
                    /\ \A p \in Procs : pc'[p] = "critical" => lockFile' = p
  BY DEF OwnsFile, Holders
<1> USE DEF TypeOK
<1>1. CASE UNCHANGED vars
  BY <1>1 DEF vars, OwnsFile, Holders
<1>2. CASE Expire
  BY <1>2 DEF Expire
<1>3. CASE \E p \in Procs : Step(p) \/ Kill(p)
  <2>1. PICK p \in Procs : Step(p) \/ Kill(p)
    BY <1>3
  <2>2. history = "fresh"
    BY <2>1 DEF Step, Create, Exists, OpenFails, Stat, Unlink, Sleep, Release, Kill
  <2>3. /\ ~expired
        /\ \A q \in Procs : pc[q] # "unlink"
        /\ \A q \in Procs : pc[q] = "critical" => lockFile = q
    BY <2>2 DEF OwnsFile, Holders
  <2>4. CASE Create(p)
    BY <2>3, <2>4, NoFileAssumption DEF Create, Goto
  <2>5. CASE Exists(p)
    BY <2>3, <2>5 DEF Exists, Goto
  <2>6. CASE OpenFails(p)
    BY <2>3, <2>6 DEF OpenFails, Goto
  <2>7. CASE Stat(p)
    BY <2>3, <2>7 DEF Stat, Goto
  <2>8. CASE Unlink(p)
    BY <2>3, <2>8 DEF Unlink
  <2>9. CASE Sleep(p)
    BY <2>3, <2>9 DEF Sleep, NextAttempt, Goto
  <2>10. CASE Release(p)
    BY <2>3, <2>10 DEF Release, Goto
  <2>11. CASE Kill(p)
    BY <2>3, <2>11 DEF Kill, Goto
  <2> QED
    BY <2>1, <2>4, <2>5, <2>6, <2>7, <2>8, <2>9, <2>10, <2>11 DEF Step
<1> QED
  BY <1>1, <1>2, <1>3 DEF Next

(* The lock excludes: while no lock file outlives lockStaleAfter, at most  *)
(* one caller of withFileLock, Go or JavaScript, runs its critical         *)
(* section, whoever is killed and wherever.                                *)
THEOREM LockExcludes == Spec => []ExclusiveWhileFresh
<1>1. Init => OwnsFile
  BY DEF Init, OwnsFile, Holders
<1>2. OwnsFile => ExclusiveWhileFresh
  BY DEF OwnsFile, ExclusiveWhileFresh, Exclusive
<1> QED
  BY <1>1, <1>2, TypeCorrect, OwnsFileInductive, PTL DEF Spec
=============================================================================
