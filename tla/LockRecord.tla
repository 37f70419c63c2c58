----------------------------- MODULE LockRecord -----------------------------
(***************************************************************************)
(* The distributed lock of apps/lockrecord-java: YdbLockRecord keeps a     *)
(* lock in one row of the table `sys$lock1`, Main runs threads that take   *)
(* it, validate that they are alone, and give it back.  Several processes  *)
(* may have drawn the same lock id; each has its own `owner` variable.     *)
(*                                                                         *)
(* The table is external.  A transaction in serializableRw mode reads      *)
(* optimistically: a commit is refused (ABORTED) when the row it read has  *)
(* been written since.  The reply of a commit may be lost: the SDK sees an *)
(* undetermined status and, the retry context being idempotent(true), runs *)
(* the whole callback again.                                               *)
(***************************************************************************)
EXTENDS Naturals, FiniteSets

CONSTANTS
  Process,      \* the JVMs
  Thread,       \* the executors of all JVMs
  ProcessOf,    \* ProcessOf[t]: the JVM of thread t
  NoOne,        \* no owner (NULL in the table, -1 in Main.owner)
  Lossy,        \* the calls ("lock", "unlock") whose commit reply may be lost
  Flaky,        \* TRUE: a request may fail with a retryable status
  Crashes,      \* TRUE: a process may be killed
  MaxRetries,   \* retries of one supplyStatus() call
  MaxWork       \* bound: executions of the workload that are explored

ASSUME ThreadAssumption ==
  /\ ProcessOf \in [Thread -> Process]
  /\ NoOne \notin Thread

ASSUME BoundAssumption ==
  /\ Lossy \subseteq {"lock", "unlock"}
  /\ Flaky \in BOOLEAN
  /\ Crashes \in BOOLEAN
  /\ MaxRetries \in Nat
  /\ MaxWork \in Nat

VARIABLES
  table,      \* TRUE once `sys$lock1` exists
  row,        \* the row of the lock id
  stale,      \* threads whose open transaction read a row written since
  pc,         \* where each thread is
  attempt,    \* retries made in the current supplyStatus() call
  owner,      \* Main.owner of each process
  running,    \* Main.running of each process
  execCount   \* Main.execCount of each process

dbVars   == <<table, row, stale>>
mainVars == <<owner, running, execCount>>
vars     == <<table, row, stale, pc, attempt, owner, running, execCount>>

\* init    locker.init()                     loop    the test of running
\* select  lock(session): the SELECT         upsert  lock(session): the UPSERT
\* sleep   lock(): the pause before a retry  enter   lock() returned
\* check1..check3  the validate() calls      leave   the finally block
\* unlock  unlock(session)                   done    run() returned
\* dead    an exception left run(), or the process was killed
Waiting == {"select", "upsert", "sleep"}
Working == {"enter", "check1", "check2", "check3"}
Inside  == Working \cup {"leave", "unlock"}
PC      == {"init", "loop", "done", "dead"} \cup Waiting \cup Inside

Row      == [present : BOOLEAN, locked : BOOLEAN, owner : Thread \cup {NoOne}]
NoRow    == [present |-> FALSE, locked |-> FALSE, owner |-> NoOne]
FreeRow  == [present |-> TRUE,  locked |-> FALSE, owner |-> NoOne]
TakenBy(t) == [present |-> TRUE, locked |-> TRUE, owner |-> t]

TypeOK ==
  /\ table \in BOOLEAN
  /\ row \in Row
  /\ stale \subseteq Thread
  /\ pc \in [Thread -> PC]
  /\ attempt \in [Thread -> 0..MaxRetries]
  /\ owner \in [Process -> Thread \cup {NoOne}]
  /\ running \in [Process -> BOOLEAN]
  /\ execCount \in [Process -> Nat]

\* The row of a lock id nobody used before, or one an earlier run gave back.
Init ==
  /\ table \in BOOLEAN
  /\ row \in IF table THEN {NoRow, FreeRow} ELSE {NoRow}
  /\ stale = {}
  /\ pc = [t \in Thread |-> "init"]
  /\ attempt = [t \in Thread |-> 0]
  /\ owner = [p \in Process |-> NoOne]
  /\ running = [p \in Process |-> TRUE]
  /\ execCount = [p \in Process |-> 0]

Goto(t, where) == pc' = [pc EXCEPT ![t] = where]

\* owner.set(o)
SetOwner(t, o) == owner' = [owner EXCEPT ![ProcessOf[t]] = o]

-----------------------------------------------------------------------------
(* The table.                                                              *)

\* Threads with a transaction that has read the row and is not committed.
Readers == {t \in Thread : pc[t] = "upsert"}

\* A committed write breaks the transactions that have read the row.
Write(t, r) ==
  /\ row' = r
  /\ stale' = (stale \cup Readers) \ {t}

\* UPSERT ... VALUES($id, true, $owner)
UpsertLocked(t) == Write(t, TakenBy(t))

\* UPDATE ... SET locked=false, owner=NULL WHERE id=$id, whoever the owner is
UpdateUnlocked(t) ==
  IF row.present THEN Write(t, FreeRow) ELSE UNCHANGED <<row, stale>>

-----------------------------------------------------------------------------
(* SessionRetryContext: the callback is run again from its start, at most  *)
(* MaxRetries times; after that the failure is the answer of the call.     *)

Retry(t, start, giveUp) ==
  \/ /\ attempt[t] < MaxRetries
     /\ attempt' = [attempt EXCEPT ![t] = @ + 1]
     /\ Goto(t, start)
  \/ /\ attempt[t] = MaxRetries
     /\ UNCHANGED attempt
     /\ Goto(t, giveUp)

\* A new supplyStatus() call.
Call(t, start) ==
  /\ attempt' = [attempt EXCEPT ![t] = 0]
  /\ Goto(t, start)

-----------------------------------------------------------------------------
(* Executor.run and YdbLockRecord.init                                     *)

CreateTable(t) ==
  /\ pc[t] = "init"
  /\ table' = TRUE
  /\ Goto(t, "loop")
  /\ UNCHANGED <<row, stale, attempt, mainVars>>

\* init() throws: the thread ends before its first round.
CreateTableFails(t) ==
  /\ Flaky
  /\ pc[t] = "init"
  /\ Goto(t, "dead")
  /\ UNCHANGED <<dbVars, attempt, mainVars>>

\* MaxWork bounds the rounds that are started.
Begun(p) ==
  execCount[p]
    + Cardinality({t \in Thread : ProcessOf[t] = p
                                  /\ pc[t] \in Waiting \cup Working})

\* Mutant of BeginWork: owner.set(i) is called before lock().
BeginWorkAsOwner(t) ==
  /\ pc[t] = "loop"
  /\ running[ProcessOf[t]]
  /\ Begun(ProcessOf[t]) < MaxWork
  /\ Call(t, "select")
  /\ SetOwner(t, t)
  /\ UNCHANGED <<dbVars, running, execCount>>

BeginWork(t) ==
  /\ pc[t] = "loop"
  /\ running[ProcessOf[t]]
  /\ Begun(ProcessOf[t]) < MaxWork
  /\ Call(t, "select")
  /\ UNCHANGED <<dbVars, mainVars>>

EndRun(t) ==
  /\ pc[t] = "loop"
  /\ ~ running[ProcessOf[t]]
  /\ Goto(t, "done")
  /\ UNCHANGED <<dbVars, attempt, mainVars>>

\* Main.run after waitTime()
StopRunning(p) ==
  /\ running[p]
  /\ running' = [running EXCEPT ![p] = FALSE]
  /\ UNCHANGED <<dbVars, pc, attempt, owner, execCount>>

-----------------------------------------------------------------------------
(* YdbLockRecord.lock                                                      *)

\* The SELECT: a locked row is answered ALREADY_EXISTS, which is not retried
\* by the context but by the loop of lock(), after a pause.
Select(t) ==
  /\ pc[t] = "select"
  /\ IF row.locked THEN Goto(t, "sleep") /\ UNCHANGED stale
                   ELSE Goto(t, "upsert") /\ stale' = stale \ {t}
  /\ UNCHANGED <<table, row, attempt, mainVars>>

\* expectSuccess() throws inside the callback; when the retries are used up
\* the exception leaves lock() and ends the thread.
SelectFails(t) ==
  /\ Flaky
  /\ pc[t] = "select"
  /\ Retry(t, "select", "dead")
  /\ UNCHANGED <<dbVars, mainVars>>

\* Mutant of Commit: the SELECT commits its own transaction, so the UPSERT
\* is blind.
CommitBlind(t) ==
  /\ pc[t] = "upsert"
  /\ UpsertLocked(t)
  /\ Goto(t, "enter")
  /\ UNCHANGED <<table, attempt, mainVars>>

\* The UPSERT that commits: lock() returns.
Commit(t) ==
  /\ pc[t] = "upsert"
  /\ t \notin stale
  /\ UpsertLocked(t)
  /\ Goto(t, "enter")
  /\ UNCHANGED <<table, attempt, mainVars>>

\* The commit is made and its reply is lost: the callback runs again.
CommitReplyLost(t) ==
  /\ "lock" \in Lossy
  /\ pc[t] = "upsert"
  /\ t \notin stale
  /\ UpsertLocked(t)
  /\ Retry(t, "select", "sleep")
  /\ UNCHANGED <<table, mainVars>>

\* The commit is refused: the row was written since the SELECT, or the
\* request failed.
CommitRefused(t) ==
  /\ pc[t] = "upsert"
  /\ t \in stale \/ Flaky
  /\ stale' = stale \ {t}
  /\ Retry(t, "select", "sleep")
  /\ UNCHANGED <<table, row, mainVars>>

\* Mutant of Sleep: lock() returns whatever the status is.
SleepAndReturn(t) ==
  /\ pc[t] = "sleep"
  /\ Goto(t, "enter")
  /\ UNCHANGED <<dbVars, attempt, mainVars>>

\* The pause of lock() after any status but success, and a new call.
Sleep(t) ==
  /\ pc[t] = "sleep"
  /\ Call(t, "select")
  /\ UNCHANGED <<dbVars, mainVars>>

-----------------------------------------------------------------------------
(* Main.work and Main.realWork                                             *)

Enter(t) ==
  /\ pc[t] = "enter"
  /\ SetOwner(t, t)
  /\ Goto(t, "check1")
  /\ UNCHANGED <<dbVars, attempt, running, execCount>>

\* validate() only reads owner; each pair is separated by a pause.
Validate(t) ==
  /\ pc[t] \in {"check1", "check2"}
  /\ Goto(t, IF pc[t] = "check1" THEN "check2" ELSE "check3")
  /\ UNCHANGED <<dbVars, attempt, mainVars>>

CountWork(t) ==
  /\ pc[t] = "check3"
  /\ execCount' = [execCount EXCEPT ![ProcessOf[t]] = @ + 1]
  /\ Goto(t, "leave")
  /\ UNCHANGED <<dbVars, attempt, owner, running>>

\* Mutant of Leave: the lock is not given back.
LeaveLocked(t) ==
  /\ pc[t] = "leave"
  /\ SetOwner(t, NoOne)
  /\ Goto(t, "loop")
  /\ UNCHANGED <<dbVars, attempt, running, execCount>>

\* The finally block.
Leave(t) ==
  /\ pc[t] = "leave"
  /\ SetOwner(t, NoOne)
  /\ Call(t, "unlock")
  /\ UNCHANGED <<dbVars, running, execCount>>

-----------------------------------------------------------------------------
(* YdbLockRecord.unlock                                                    *)

\* Mutant of Unlock: the work is counted once the lock is given back.
UnlockThenCount(t) ==
  /\ pc[t] = "unlock"
  /\ UpdateUnlocked(t)
  /\ execCount' = [execCount EXCEPT ![ProcessOf[t]] = @ + 1]
  /\ Goto(t, "loop")
  /\ UNCHANGED <<table, attempt, owner, running>>

Unlock(t) ==
  /\ pc[t] = "unlock"
  /\ UpdateUnlocked(t)
  /\ Goto(t, "loop")
  /\ UNCHANGED <<table, attempt, mainVars>>

\* The update is made and its reply is lost: it is made again.
UnlockReplyLost(t) ==
  /\ "unlock" \in Lossy
  /\ pc[t] = "unlock"
  /\ UpdateUnlocked(t)
  /\ Retry(t, "unlock", "dead")
  /\ UNCHANGED <<table, mainVars>>

\* expectSuccess() throws when the retries are used up: the thread ends and
\* the row stays locked.
UnlockFails(t) ==
  /\ Flaky
  /\ pc[t] = "unlock"
  /\ Retry(t, "unlock", "dead")
  /\ UNCHANGED <<dbVars, mainVars>>

-----------------------------------------------------------------------------
\* The process is killed: its threads are gone, the table keeps what it has.
Crash(p) ==
  /\ Crashes
  /\ pc' = [t \in Thread |-> IF ProcessOf[t] = p THEN "dead" ELSE pc[t]]
  /\ running' = [running EXCEPT ![p] = FALSE]
  /\ owner' = [owner EXCEPT ![p] = NoOne]
  /\ stale' = {t \in stale : ProcessOf[t] # p}
  /\ UNCHANGED <<table, row, attempt, execCount>>

LockStep(t) == Select(t) \/ Commit(t) \/ CommitRefused(t) \/ Sleep(t)

WorkStep(t) == Enter(t) \/ Validate(t) \/ CountWork(t) \/ Leave(t) \/ Unlock(t)

RunStep(t) == CreateTable(t) \/ BeginWork(t) \/ EndRun(t)

Fault(t) ==
  \/ CreateTableFails(t) \/ SelectFails(t) \/ UnlockFails(t)
  \/ CommitReplyLost(t) \/ UnlockReplyLost(t)

\* Every thread has ended.
Terminated ==
  /\ \A t \in Thread : pc[t] \in {"done", "dead"}
  /\ \A p \in Process : ~ running[p]
  /\ UNCHANGED vars

Next ==
  \/ \E t \in Thread : RunStep(t) \/ LockStep(t) \/ WorkStep(t) \/ Fault(t)
  \/ \E p \in Process : StopRunning(p) \/ Crash(p)
  \/ Terminated

Spec == Init /\ [][Next]_vars

\* The JVM schedules every thread, a commit that is tried over and over is not
\* refused every time, and Main.run ends its five minutes.  Faults need not happen.
Fairness ==
  /\ \A t \in Thread : WF_vars(RunStep(t) \/ LockStep(t) \/ WorkStep(t))
                       /\ SF_vars(Commit(t))
  /\ \A p \in Process : WF_vars(StopRunning(p))

FairSpec == Spec /\ Fairness

-----------------------------------------------------------------------------
(* Properties                                                              *)

\* Lock and unlock exclude: of all threads of all processes at most one is
\* between the return of lock() and the effect of its unlock().
MutualExclusion ==
  \A t, u \in Thread : pc[t] \in Inside /\ pc[u] \in Inside => t = u

\* A thread inside is the one the row names, until its own unlock(): nobody
\* else's unlock() frees a lock that is held (the UPDATE tests no owner).
HolderRecorded ==
  \A t \in Thread : pc[t] \in Inside => row = TakenBy(t)

\* validate() never logs "Expected owner": Main.owner names the thread whose
\* work is running.
ValidateSilent ==
  \A t \in Thread :
    pc[t] \in {"check1", "check2", "check3"} => owner[ProcessOf[t]] = t

\* A commit that can still succeed has read a free row: what the SELECT saw
\* is what the UPSERT overwrites.
FreshReadIsFree ==
  \A t \in Thread : pc[t] = "upsert" /\ t \notin stale => ~ row.locked

\* Work is counted only by the thread the row names at that moment: a round
\* logged by Main.run was a round under the lock.
CountedStep ==
  execCount' # execCount =>
    \E t \in Thread : row = TakenBy(t) /\ pc[t] = "check3" /\ UNCHANGED row

CountedUnderLock == [][CountedStep]_vars

\* The lock seen by its users: the abstract holder is the owner of a locked row.
Abstract == INSTANCE Mutex WITH
  holder <- IF row.locked THEN row.owner ELSE NoOne,
  inside <- {t \in Thread : pc[t] \in Inside}

\* The table lock implements Mutex.
ImplementsMutex == Abstract!Spec

\* The lock is nobody's to give back: the thread the row names has ended, its
\* process killed or its unlock() failed, or it waits for the lock it has taken
\* itself, the reply of its commit being lost.  A row has no expiry.
Orphaned == \E t \in Thread : row = TakenBy(t) /\ pc[t] \in Waiting \cup {"dead"}

\* A lock that is taken is given back, unless a fault of its owner orphans it.
LockReleased == row.locked ~> ~ row.locked \/ Orphaned

\* After the five minutes every executor leaves its loop and ends, whatever
\* requests fail and replies are lost: the JVM, whose threads are not daemons, can
\* exit (Main.startExecutors).  Only a lock that stays orphaned keeps it.
ExecutorsEnd ==
  \A t \in Thread : <>(pc[t] \in {"done", "dead"}) \/ <>[]Orphaned
=============================================================================
