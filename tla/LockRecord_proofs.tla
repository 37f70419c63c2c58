-------------------------- MODULE LockRecord_proofs --------------------------
(***************************************************************************)
(* Proofs about LockRecord, for every number of processes, threads and     *)
(* retries: the variables keep their types, and, as long as no reply of    *)
(* unlock() is lost, threads exclude each other and the lock implements    *)
(* Mutex.                                                                  *)
(***************************************************************************)
EXTENDS LockRecord, TLAPS

USE ThreadAssumption, BoundAssumption

\* The invariant that the steps preserve: a thread inside is named by the
\* row, a commit that can succeed has read a free row, and Main.owner names
\* the thread that validates it.
IInv ==
  /\ TypeOK
  /\ HolderRecorded
  /\ FreshReadIsFree
  /\ ValidateSilent

\* A row names at most one taker.
LEMMA TakenByInjective ==
  ASSUME NEW t, NEW u, TakenBy(t) = TakenBy(u)
  PROVE  t = u
BY DEF TakenBy

LEMMA RowTypes ==
  /\ NoRow \in Row
  /\ FreeRow \in Row
  /\ \A t \in Thread : TakenBy(t) \in Row
BY DEF NoRow, FreeRow, TakenBy, Row

LEMMA InitTyped == Init => TypeOK
BY RowTypes DEF Init, TypeOK, PC

\* A retry moves one thread and keeps its count within the limit.
LEMMA RetryTyped ==
  ASSUME TypeOK, NEW t \in Thread, NEW a \in PC, NEW b \in PC, Retry(t, a, b)
  PROVE  pc' \in [Thread -> PC] /\ attempt' \in [Thread -> 0..MaxRetries]
BY DEF TypeOK, Retry, Goto

LEMMA CallTyped ==
  ASSUME TypeOK, NEW t \in Thread, NEW a \in PC, Call(t, a)
  PROVE  pc' \in [Thread -> PC] /\ attempt' \in [Thread -> 0..MaxRetries]
BY DEF TypeOK, Call, Goto

LEMMA WriteTyped ==
  ASSUME TypeOK, NEW t \in Thread, UpsertLocked(t) \/ UpdateUnlocked(t)
  PROVE  row' \in Row /\ stale' \subseteq Thread
BY RowTypes DEF TypeOK, UpsertLocked, UpdateUnlocked, Write, Readers

\* A step of one thread keeps the types.
LEMMA ThreadStepTyped ==
  ASSUME TypeOK, NEW t \in Thread,
         RunStep(t) \/ LockStep(t) \/ WorkStep(t) \/ Fault(t)
  PROVE  TypeOK'
<1> USE DEF dbVars, mainVars, Goto
<1>0. PC = {"init", "loop", "done", "dead", "select", "upsert", "sleep",
            "enter", "check1", "check2", "check3", "leave", "unlock"}
  BY DEF PC, Waiting, Inside, Working
<1>1. CASE CreateTable(t) BY <1>0, <1>1 DEF CreateTable, TypeOK
<1>2. CASE CreateTableFails(t) BY <1>0, <1>2 DEF CreateTableFails, TypeOK
<1>3. CASE BeginWork(t) BY <1>0, <1>3, CallTyped DEF BeginWork, TypeOK
<1>4. CASE EndRun(t) BY <1>0, <1>4 DEF EndRun, TypeOK
<1>5. CASE Select(t) BY <1>0, <1>5 DEF Select, TypeOK
<1>6. CASE SelectFails(t) BY <1>0, <1>6, RetryTyped DEF SelectFails, TypeOK
<1>7. CASE Commit(t) BY <1>0, <1>7, WriteTyped DEF Commit, TypeOK
<1>8. CASE CommitReplyLost(t)
  BY <1>0, <1>8, WriteTyped, RetryTyped DEF CommitReplyLost, TypeOK
<1>9. CASE CommitRefused(t) BY <1>0, <1>9, RetryTyped DEF CommitRefused, TypeOK
<1>10. CASE Sleep(t) BY <1>0, <1>10, CallTyped DEF Sleep, TypeOK
<1>11. CASE Enter(t) BY <1>0, <1>11 DEF Enter, SetOwner, TypeOK
<1>12. CASE Validate(t) BY <1>0, <1>12 DEF Validate, TypeOK
<1>13. CASE CountWork(t) BY <1>0, <1>13 DEF CountWork, TypeOK
<1>14. CASE Leave(t) BY <1>0, <1>14, CallTyped DEF Leave, SetOwner, TypeOK
<1>15. CASE Unlock(t) BY <1>0, <1>15, WriteTyped DEF Unlock, TypeOK
<1>16. CASE UnlockReplyLost(t)
  BY <1>0, <1>16, WriteTyped, RetryTyped DEF UnlockReplyLost, TypeOK
<1>17. CASE UnlockFails(t) BY <1>0, <1>17, RetryTyped DEF UnlockFails, TypeOK
<1>18. QED
  BY <1>1, <1>2, <1>3, <1>4, <1>5, <1>6, <1>7, <1>8, <1>9, <1>10, <1>11,
     <1>12, <1>13, <1>14, <1>15, <1>16, <1>17
  DEF RunStep, LockStep, WorkStep, Fault

LEMMA NextTyped == TypeOK /\ [Next]_vars => TypeOK'
<1> SUFFICES ASSUME TypeOK, [Next]_vars PROVE TypeOK'
  OBVIOUS
<1>1. ASSUME NEW t \in Thread, RunStep(t) \/ LockStep(t) \/ WorkStep(t) \/ Fault(t)
      PROVE  TypeOK'
  BY <1>1, ThreadStepTyped
<1>2. ASSUME NEW p \in Process, StopRunning(p) PROVE TypeOK'
  BY <1>2 DEF StopRunning, TypeOK, dbVars
<1>3. ASSUME NEW p \in Process, Crash(p) PROVE TypeOK'
  BY <1>3 DEF Crash, TypeOK, PC
<1>4. CASE UNCHANGED vars \/ Terminated
  BY <1>4 DEF vars, Terminated, TypeOK
<1>5. QED
  BY <1>1, <1>2, <1>3, <1>4 DEF Next

\* The variables keep their types, whatever is lost, fails or crashes.
THEOREM TypeCorrect == Spec => []TypeOK
BY InitTyped, NextTyped, PTL DEF Spec

-----------------------------------------------------------------------------
(* Mutual exclusion.                                                       *)

\* A thread step that writes neither the row nor the stale set, and takes its
\* thread to a place where nothing is claimed of it, keeps the claims made of
\* the row.
LEMMA Uneventful ==
  ASSUME IInv, TypeOK', NEW t \in Thread, NEW where \in PC, Goto(t, where),
         UNCHANGED <<row, stale>>,
         where \in Inside => pc[t] \in Inside,
         where = "upsert" => ~ row.locked
  PROVE  HolderRecorded' /\ FreshReadIsFree'
BY DEF IInv, TypeOK, HolderRecorded, FreshReadIsFree, Goto, TakenBy

\* The UPSERT names its thread and breaks every other open transaction; it is
\* only made when no thread is inside.
LEMMA Upserted ==
  ASSUME IInv, TypeOK', NEW t \in Thread, pc[t] = "upsert", t \notin stale,
         UpsertLocked(t), NEW where \in PC \ {"upsert"}, Goto(t, where)
  PROVE  HolderRecorded' /\ FreshReadIsFree'
<1>1. \A u \in Thread : pc[u] \notin Inside
  BY DEF IInv, HolderRecorded, FreshReadIsFree, TakenBy
<1>2. HolderRecorded'
  BY <1>1 DEF HolderRecorded, UpsertLocked, Write, Goto, IInv, TypeOK
<1>3. FreshReadIsFree'
  BY DEF FreshReadIsFree, UpsertLocked, Write, Readers, Goto, IInv, TypeOK
<1>4. QED BY <1>2, <1>3

\* The UPDATE of the only thread inside frees the row as the thread goes out.
LEMMA Released ==
  ASSUME IInv, TypeOK', NEW t \in Thread, Unlock(t)
  PROVE  HolderRecorded' /\ FreshReadIsFree'
<1>1. row = TakenBy(t)
  BY DEF IInv, HolderRecorded, Unlock, Inside
<1>2. \A u \in Thread : pc[u] \in Inside => u = t
  BY <1>1, TakenByInjective DEF IInv, HolderRecorded
<1>3. \A u \in Thread : pc'[u] \notin Inside
  BY <1>2 DEF Unlock, Goto, IInv, TypeOK, Inside, Working
<1>4. row' = FreeRow
  BY <1>1 DEF Unlock, UpdateUnlocked, Write, TakenBy
<1>5. QED
  BY <1>3, <1>4 DEF HolderRecorded, FreshReadIsFree, FreeRow

\* The validate() calls: Enter names its thread, and only the thread inside
\* changes Main.owner.
LEMMA OwnerKept ==
  ASSUME IInv, TypeOK', NEW t \in Thread,
         RunStep(t) \/ LockStep(t) \/ WorkStep(t) \/ Fault(t)
  PROVE  ValidateSilent'
<1> USE DEF IInv, TypeOK, ValidateSilent, Goto, mainVars
<1>1. CASE Enter(t) \/ Leave(t)
  <2>1. \A u \in Thread : pc[u] \in Inside => u = t
    BY <1>1, TakenByInjective DEF HolderRecorded, Enter, Leave, Inside, Working
  <2>2. \A u \in Thread : pc[u] \in {"check1", "check2", "check3"} => u = t
    BY <2>1 DEF Inside, Working
  <2>3. QED BY <1>1, <2>2 DEF Enter, Leave, SetOwner, Call
<1>2. CASE RunStep(t) \/ LockStep(t)
  BY <1>2 DEF RunStep, LockStep, CreateTable, BeginWork, EndRun, Select, Commit,
     CommitRefused, Sleep, Call, Retry
<1>3. CASE Validate(t) \/ CountWork(t) \/ Unlock(t)
  BY <1>3 DEF Validate, CountWork, Unlock
<1>4. CASE Fault(t)
  BY <1>4 DEF Fault, CreateTableFails, SelectFails, UnlockFails, CommitReplyLost,
     UnlockReplyLost, Retry
<1>5. QED BY <1>1, <1>2, <1>3, <1>4 DEF WorkStep

LEMMA ThreadStepInv ==
  ASSUME "unlock" \notin Lossy, IInv, TypeOK', NEW t \in Thread,
         RunStep(t) \/ LockStep(t) \/ WorkStep(t) \/ Fault(t)
  PROVE  HolderRecorded' /\ FreshReadIsFree'
<1> USE DEF dbVars
<1>0. PC = {"init", "loop", "done", "dead", "select", "upsert", "sleep",
            "enter", "check1", "check2", "check3", "leave", "unlock"}
      /\ Inside = {"enter", "check1", "check2", "check3", "leave", "unlock"}
  BY DEF PC, Waiting, Inside, Working
<1>1. CASE CreateTable(t) BY <1>0, <1>1, Uneventful DEF CreateTable
<1>2. CASE CreateTableFails(t) BY <1>0, <1>2, Uneventful DEF CreateTableFails
<1>3. CASE BeginWork(t) BY <1>0, <1>3, Uneventful DEF BeginWork, Call
<1>4. CASE EndRun(t) BY <1>0, <1>4, Uneventful DEF EndRun
<1>5. CASE Select(t)
  <2>1. CASE row.locked BY <1>0, <1>5, <2>1, Uneventful DEF Select
  <2>2. CASE ~ row.locked
    BY <1>0, <1>5, <2>2 DEF Select, Goto, HolderRecorded, FreshReadIsFree, IInv, TypeOK
  <2>3. QED BY <2>1, <2>2
<1>6. CASE SelectFails(t) BY <1>0, <1>6, Uneventful DEF SelectFails, Retry
<1>7. CASE Commit(t) BY <1>0, <1>7, Upserted DEF Commit
<1>8. CASE CommitReplyLost(t)
  BY <1>0, <1>8, Upserted DEF CommitReplyLost, Retry
<1>9. CASE CommitRefused(t)
  BY <1>0, <1>9 DEF CommitRefused, Retry, Goto, HolderRecorded, FreshReadIsFree,
     IInv, TypeOK
<1>10. CASE Sleep(t) BY <1>0, <1>10, Uneventful DEF Sleep, Call
<1>11. CASE Enter(t) BY <1>0, <1>11, Uneventful DEF Enter
<1>12. CASE Validate(t) BY <1>0, <1>12, Uneventful DEF Validate
<1>13. CASE CountWork(t) BY <1>0, <1>13, Uneventful DEF CountWork
<1>14. CASE Leave(t) BY <1>0, <1>14, Uneventful DEF Leave, Call
<1>15. CASE Unlock(t) BY <1>15, Released
<1>16. CASE UnlockReplyLost(t) BY <1>16 DEF UnlockReplyLost
<1>17. CASE UnlockFails(t) BY <1>0, <1>17, Uneventful DEF UnlockFails, Retry
<1>18. QED
  BY <1>1, <1>2, <1>3, <1>4, <1>5, <1>6, <1>7, <1>8, <1>9, <1>10, <1>11,
     <1>12, <1>13, <1>14, <1>15, <1>16, <1>17
  DEF RunStep, LockStep, WorkStep, Fault

LEMMA NextInv == "unlock" \notin Lossy /\ IInv /\ [Next]_vars => IInv'
<1> SUFFICES ASSUME "unlock" \notin Lossy, IInv, [Next]_vars PROVE IInv'
  OBVIOUS
<1>0. TypeOK'
  BY NextTyped DEF IInv
<1>1. ASSUME NEW t \in Thread, RunStep(t) \/ LockStep(t) \/ WorkStep(t) \/ Fault(t)
      PROVE  IInv'
  BY <1>0, <1>1, ThreadStepInv, OwnerKept DEF IInv
<1>2. ASSUME NEW p \in Process, StopRunning(p) PROVE IInv'
  BY <1>0, <1>2 DEF StopRunning, IInv, HolderRecorded, FreshReadIsFree,
     ValidateSilent, dbVars
<1>3. ASSUME NEW p \in Process, Crash(p) PROVE IInv'
  BY <1>0, <1>3 DEF Crash, IInv, TypeOK, HolderRecorded, FreshReadIsFree,
     ValidateSilent, Inside, Working
<1>4. CASE UNCHANGED vars \/ Terminated
  BY <1>0, <1>4 DEF vars, Terminated, IInv, HolderRecorded, FreshReadIsFree,
     ValidateSilent
<1>5. QED
  BY <1>1, <1>2, <1>3, <1>4 DEF Next

LEMMA InitInv == Init => IInv
BY InitTyped DEF Init, IInv, HolderRecorded, FreshReadIsFree, ValidateSilent,
   Inside, Working

\* The inductive invariant holds in every behaviour in which a lost reply is
\* never that of unlock().
THEOREM Invariance == "unlock" \notin Lossy => (Spec => []IInv)
<1> SUFFICES ASSUME "unlock" \notin Lossy PROVE Spec => []IInv
  OBVIOUS
<1>1. IInv /\ [Next]_vars => IInv'
  BY NextInv
<1>2. QED BY InitInv, <1>1, PTL DEF Spec

LEMMA IInvExcludes == IInv => MutualExclusion
BY TakenByInjective DEF IInv, HolderRecorded, MutualExclusion

\* Threads exclude each other: what lock() and unlock() are for.  The retry of
\* an unlock() whose reply was lost is what the assumption rules out.
THEOREM Exclusion == "unlock" \notin Lossy => (Spec => []MutualExclusion)
<1> SUFFICES ASSUME "unlock" \notin Lossy PROVE Spec => []MutualExclusion
  OBVIOUS
<1>1. Spec => []IInv
  BY Invariance
<1>2. QED BY <1>1, IInvExcludes, PTL

\* validate() never finds another owner, under the same assumption.
THEOREM NeverMismatched == "unlock" \notin Lossy => (Spec => []ValidateSilent)
<1> SUFFICES ASSUME "unlock" \notin Lossy PROVE Spec => []ValidateSilent
  OBVIOUS
<1>1. Spec => []IInv
  BY Invariance
<1>2. IInv => ValidateSilent
  BY DEF IInv
<1>3. QED BY <1>1, <1>2, PTL

-----------------------------------------------------------------------------
(* Action properties and refinement.                                       *)

\* Work is counted only under the lock.
THEOREM CountedOnlyUnderLock == "unlock" \notin Lossy => (Spec => CountedUnderLock)
<1> SUFFICES ASSUME "unlock" \notin Lossy PROVE Spec => CountedUnderLock
  OBVIOUS
<1>1. Spec => []IInv
  BY Invariance
<1>2. ASSUME IInv, [Next]_vars, execCount' # execCount
      PROVE  \E t \in Thread : row = TakenBy(t) /\ pc[t] = "check3" /\ UNCHANGED row
  <2>1. PICK t \in Thread : CountWork(t)
    <3>1. ASSUME NEW t \in Thread, RunStep(t) \/ LockStep(t) \/ Fault(t)
          PROVE  UNCHANGED execCount
      BY <3>1 DEF RunStep, LockStep, Fault, CreateTable, BeginWork, EndRun, Select,
         Commit, CommitRefused, Sleep, CreateTableFails, SelectFails, UnlockFails,
         CommitReplyLost, UnlockReplyLost, mainVars
    <3>2. ASSUME NEW t \in Thread, Enter(t) \/ Validate(t) \/ Leave(t) \/ Unlock(t)
          PROVE  UNCHANGED execCount
      BY <3>2 DEF Enter, Validate, Leave, Unlock, mainVars
    <3>3. ASSUME NEW p \in Process, StopRunning(p) \/ Crash(p)
          PROVE  UNCHANGED execCount
      BY <3>3 DEF StopRunning, Crash
    <3>4. UNCHANGED vars \/ Terminated => UNCHANGED execCount
      BY DEF vars, Terminated
    <3>5. QED BY <1>2, <3>1, <3>2, <3>3, <3>4 DEF Next, WorkStep
  <2>2. pc[t] = "check3" /\ row = TakenBy(t) /\ UNCHANGED row
    BY <1>2, <2>1 DEF CountWork, dbVars, IInv, HolderRecorded, Inside, Working
  <2>3. QED BY <2>2
<1>3. IInv /\ [Next]_vars => [CountedStep]_vars
  BY <1>2 DEF vars, CountedStep
<1>4. QED BY <1>1, <1>3, PTL DEF Spec, CountedUnderLock

\* The users' view of the lock in the state and in the next one.
holder == IF row.locked THEN row.owner ELSE NoOne
inside == {t \in Thread : pc[t] \in Inside}

\* A step that changes neither the row nor who is inside is invisible.
LEMMA Invisible ==
  ASSUME NEW t \in Thread, pc \in [Thread -> PC], NEW where, Goto(t, where),
         UNCHANGED row, where \in Inside <=> pc[t] \in Inside
  PROVE  UNCHANGED <<holder, inside>>
BY DEF holder, inside, Goto

\* A step that only takes its thread out leaves the lock with the thread.
LEMMA Abandons ==
  ASSUME NEW t \in Thread, pc \in [Thread -> PC], pc[t] \in Inside,
         NEW where, where \notin Inside, Goto(t, where), UNCHANGED row
  PROVE  Abstract!Abandon(t)
BY DEF Abstract!Abandon, Goto

LEMMA ThreadStepRefines ==
  ASSUME "unlock" \notin Lossy, IInv, NEW t \in Thread,
         RunStep(t) \/ LockStep(t) \/ WorkStep(t) \/ Fault(t)
  PROVE  Abstract!Next \/ UNCHANGED <<holder, inside>>
<1> USE DEF dbVars
<1>0. pc \in [Thread -> PC] /\ stale \subseteq Thread /\ row \in Row
  BY DEF IInv, TypeOK
<1>i. Inside = {"enter", "check1", "check2", "check3", "leave", "unlock"}
  BY DEF Inside, Working
<1>1. CASE CreateTable(t) \/ CreateTableFails(t)
  BY <1>0, <1>i, <1>1, Invisible DEF CreateTable, CreateTableFails
<1>2. CASE BeginWork(t) \/ EndRun(t)
  BY <1>0, <1>i, <1>2, Invisible DEF BeginWork, Call, EndRun
<1>3. CASE Select(t)
  BY <1>0, <1>i, <1>3, Invisible DEF Select
<1>4. CASE SelectFails(t) \/ CommitRefused(t)
  BY <1>0, <1>i, <1>4, Invisible DEF SelectFails, CommitRefused, Retry
<1>5. CASE Commit(t)
  <2>1. ~ row.locked /\ row' = TakenBy(t)
    BY <1>5 DEF Commit, UpsertLocked, Write, IInv, FreshReadIsFree
  <2>2. inside' = inside \cup {t}
    BY <1>0, <1>i, <1>5 DEF Commit, Goto, inside
  <2>3. Abstract!Acquire(t)
    BY <2>1, <2>2 DEF Abstract!Acquire, inside, TakenBy
  <2>4. QED BY <2>3 DEF Abstract!Next
<1>6. CASE CommitReplyLost(t)
  <2>1. ~ row.locked /\ row' = TakenBy(t)
    BY <1>6 DEF CommitReplyLost, UpsertLocked, Write, IInv, FreshReadIsFree
  <2>2. inside' = inside
    BY <1>0, <1>i, <1>6 DEF CommitReplyLost, Retry, Goto, inside
  <2>3. Abstract!Orphan(t)
    BY <2>1, <2>2 DEF Abstract!Orphan, inside, TakenBy
  <2>4. QED BY <2>3 DEF Abstract!Next
<1>7. CASE Sleep(t)
  BY <1>0, <1>i, <1>7, Invisible DEF Sleep, Call
<1>8. CASE Enter(t) \/ Validate(t) \/ CountWork(t) \/ Leave(t)
  BY <1>0, <1>i, <1>8, Invisible DEF Enter, Validate, CountWork, Leave, Call
<1>9. CASE Unlock(t)
  <2>1. row = TakenBy(t) /\ t \in inside
    BY <1>i, <1>9 DEF IInv, HolderRecorded, Unlock, inside
  <2>2. row' = FreeRow
    BY <1>9, <2>1 DEF Unlock, UpdateUnlocked, Write, TakenBy
  <2>3. inside' = inside \ {t}
    BY <1>0, <1>i, <1>9 DEF Unlock, Goto, inside
  <2>4. Abstract!Release(t)
    BY <2>1, <2>2, <2>3 DEF Abstract!Release, inside, TakenBy, FreeRow
  <2>5. QED BY <2>4 DEF Abstract!Next
<1>10. CASE UnlockReplyLost(t) BY <1>10 DEF UnlockReplyLost
<1>11. CASE UnlockFails(t)
  <2>1. CASE Goto(t, "unlock")
    BY <1>0, <1>i, <1>11, <2>1, Invisible DEF UnlockFails
  <2>2. CASE Goto(t, "dead")
    BY <1>0, <1>i, <1>11, <2>2, Abandons DEF UnlockFails, Abstract!Next
  <2>3. QED BY <1>11, <2>1, <2>2 DEF UnlockFails, Retry
<1>12. QED
  BY <1>1, <1>2, <1>3, <1>4, <1>5, <1>6, <1>7, <1>8, <1>9, <1>10, <1>11
  DEF RunStep, LockStep, WorkStep, Fault

\* A killed process takes at most one thread out: the lock stays with it.
LEMMA CrashRefines ==
  ASSUME IInv, NEW p \in Process, Crash(p)
  PROVE  Abstract!Next \/ UNCHANGED <<holder, inside>>
<1>1. inside' = {t \in inside : ProcessOf[t] # p} /\ UNCHANGED row
  BY DEF Crash, inside, Inside, Working
<1>2. CASE \E t \in inside : ProcessOf[t] = p
  <2>1. PICK t \in inside : ProcessOf[t] = p
    BY <1>2
  <2>2. inside = {t}
    BY TakenByInjective DEF IInv, HolderRecorded, inside
  <2>3. Abstract!Abandon(t)
    BY <1>1, <2>1, <2>2 DEF Abstract!Abandon, inside
  <2>4. QED BY <2>1, <2>3 DEF Abstract!Next, inside
<1>3. CASE ~ \E t \in inside : ProcessOf[t] = p
  BY <1>1, <1>3 DEF holder
<1>4. QED BY <1>2, <1>3

\* The table lock implements the abstract lock: every step is a step of Mutex
\* or changes nothing its users see.
THEOREM Refinement == "unlock" \notin Lossy => (Spec => ImplementsMutex)
<1> SUFFICES ASSUME "unlock" \notin Lossy PROVE Spec => ImplementsMutex
  OBVIOUS
<1>1. Spec => []IInv
  BY Invariance
<1>2. Init => Abstract!Init
  BY DEF Init, Abstract!Init, NoRow, FreeRow, Inside, Working
<1>3. IInv /\ [Next]_vars => [Abstract!Next]_Abstract!vars
  <2> SUFFICES ASSUME IInv, [Next]_vars
               PROVE  Abstract!Next \/ UNCHANGED <<holder, inside>>
    BY DEF Abstract!vars, holder, inside
  <2>1. ASSUME NEW p \in Process, StopRunning(p) PROVE UNCHANGED <<holder, inside>>
    BY <2>1 DEF StopRunning, dbVars, holder, inside
  <2>2. UNCHANGED vars \/ Terminated => UNCHANGED <<holder, inside>>
    BY DEF vars, Terminated, holder, inside
  <2>3. QED BY <2>1, <2>2, ThreadStepRefines, CrashRefines DEF Next
<1>4. QED BY <1>1, <1>2, <1>3, PTL DEF Spec, ImplementsMutex, Abstract!Spec
=============================================================================
