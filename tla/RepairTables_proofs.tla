------------------------- MODULE RepairTables_proofs -------------------------
(***************************************************************************)
(* Proofs about RepairTables, for any number of runs that overlap, are     *)
(* killed and are started again, and any list of tables.                   *)
(*                                                                         *)
(* What a run may still do to the paths of its table, itself or through an *)
(* operation it has sent and given up waiting for, depends on how far it   *)
(* has come.  The helper paths are what keeps runs apart: as long as the   *)
(* copy is there no other copy can be made, and as long as the backup is   *)
(* there no other run can rename the original.                             *)
(***************************************************************************)
EXTENDS RepairTables, TLAPS

Typed ==
  /\ tree \in [Path -> [Slot -> Table \cup {NoTable}]]
  /\ written \in [Path -> 0..MaxWrites]
  /\ late \in [Path -> SUBSET (1..MaxWrites)]
  /\ pc \in [Operator -> PC]
  /\ pos \in [Operator -> Nat \ {0}]
  /\ call \in [Operator -> Call]

-----------------------------------------------------------------------------
(* How far a run has come.                                                 *)

\* The copy is made and not yet verified.
Copied(o) ==
  \/ pc[o] = "copy" /\ call[o].status = "ok"
  \/ pc[o] = "verifyTemp"

\* The copy is verified, the original is to be renamed.
Verified(o) == pc[o] = "rename" /\ call[o].status \in {"none", "sent"}

\* The run has ended, and the rename it has sent may still be executed.
Orphan(o) == pc[o] = "stopped" /\ call[o] = [kind |-> "rename", status |-> "sent"]

\* The original is renamed, the copy is to take its place.
Moved(o) ==
  \/ pc[o] = "rename" /\ call[o].status = "ok"
  \/ pc[o] = "swap" /\ call[o].status \in {"none", "sent"}
  \/ pc[o] = "stopped" /\ call[o] = [kind |-> "swap", status |-> "sent"]

\* The copy is in place, the backup may be dropped.
Placed(o) ==
  \/ pc[o] = "swap" /\ call[o].status = "ok"
  \/ pc[o] = "verifyOrig"
  \/ pc[o] = "drop" /\ call[o].status \in {"none", "sent"}
  \/ pc[o] = "stopped" /\ call[o] = [kind |-> "drop", status |-> "sent"]

HasTemp(o) == Copied(o) \/ Verified(o) \/ Orphan(o) \/ Moved(o)
HasBak(o)  == Moved(o) \/ Placed(o)

\* The rows of p that may not be lost.
Kept(p) == (1..written[p]) \ late[p]

-----------------------------------------------------------------------------
(* The inductive invariant.                                                *)

\* An operation that is sent is the one of the step the run is at, or was at
\* when it ended.
InStep(o) ==
  /\ pc[o] # "done" => pos[o] <= Len(Tables)
  /\ pc[o] = "done" => pos[o] = Len(Tables) + 1
  /\ pc[o] \in Calling => call[o] = NoCall \/ call[o].kind = pc[o]
  /\ pc[o] \notin Calling \cup {"stopped"} => call[o] = NoCall

\* The copy of a table has one owner, and so has its backup while it may be
\* dropped.
OneOwner ==
  \A o1, o2 \in Operator :
    /\ HasTemp(o1) /\ HasTemp(o2) /\ Current(o1) = Current(o2) => o1 = o2
    /\ HasBak(o1) /\ HasBak(o2) /\ Current(o1) = Current(o2) => o1 = o2

\* What a run that owns the copy or the backup relies on.
Owns(o) ==
  LET p == Current(o)
      t == tree[p]
  IN /\ HasTemp(o) => t["temp"] # NoTable
     /\ Verified(o) \/ Orphan(o) \/ Moved(o) => Repaired(t["temp"])
     /\ Copied(o) \/ Verified(o) \/ Moved(o) => Kept(p) \subseteq t["temp"].rows
     /\ Moved(o) => t["orig"] = NoTable
     /\ Placed(o) => t["orig"] # NoTable
     /\ HasBak(o) => t["bak"] # NoTable

\* Where the rows of a table are.
RowsKept(p) ==
  LET t == tree[p] IN
  /\ t["orig"] # NoTable => Kept(p) \subseteq t["orig"].rows
  /\ t["orig"] = NoTable =>
       /\ t["bak"] # NoTable
       /\ Kept(p) \subseteq t["bak"].rows
       /\ Repaired(t["temp"])

Applicable(table) == table = NoTable \/ ~ table.config.channelProfile

\* The procedure is applicable to whatever is at the paths of a table, or the
\* table has never been touched.
Safe(p) == \A s \in Slot : Applicable(tree[p][s])

Classified(p) == Safe(p) \/ ~ Applicable(tree[p]["orig"])

\* A run that may touch a table has classified it.
Busy(o) == pc[o] \notin {"describe"} \cup Ended \/ call[o] # NoCall

Cleared(o) == Busy(o) => Safe(Current(o))

\* A table that is repaired stays so.
Good(p) ==
  /\ tree[p]["orig"] = NoTable \/ Repaired(tree[p]["orig"])
  /\ \E s \in Slot : Repaired(tree[p][s])

Finished(o) ==
  ~ opt[o].dryRun =>
    /\ \A i \in 1..Len(Tables) : i < pos[o] => Good(Tables[i])
    /\ pc[o] = "drop" => Good(Current(o))

Inv ==
  /\ Typed
  /\ OneOwner
  /\ \A o \in Operator : InStep(o) /\ Owns(o) /\ Cleared(o) /\ Finished(o)
  /\ \A p \in Path : RowsKept(p) /\ Classified(p)

-----------------------------------------------------------------------------
(* Lemmas                                                                  *)

\* The step of one run changes nothing of another.
Still(q) == pc'[q] = pc[q] /\ call'[q] = call[q] /\ pos'[q] = pos[q]

\* A run that takes no step is as far as it was.
LEMMA StillPhase ==
  ASSUME NEW q, Still(q)
  PROVE  /\ Copied(q)' <=> Copied(q)
         /\ Verified(q)' <=> Verified(q)
         /\ Orphan(q)' <=> Orphan(q)
         /\ Moved(q)' <=> Moved(q)
         /\ Placed(q)' <=> Placed(q)
         /\ Busy(q)' <=> Busy(q)
         /\ InStep(q)' <=> InStep(q)
         /\ Current(q)' = Current(q)
  BY DEF Still, Copied, Verified, Orphan, Moved, Placed, Busy, InStep, Current

\* A run at a table stays within the list.
LEMMA CurrentIsPath ==
  ASSUME Typed, NEW o \in Operator, InStep(o), pc[o] # "done"
  PROVE  pos[o] \in 1..Len(Tables) /\ Current(o) \in Path
  <1>1. pos[o] \in Nat \ {0} /\ pos[o] <= Len(Tables)
    BY DEF Typed, InStep
  <1>2. Tables \in Seq(Path)  BY TablesAssumption
  <1>3. Len(Tables) \in Nat  BY <1>2
  <1>4. pos[o] \in 1..Len(Tables)  BY <1>1, <1>3
  <1>5. Tables[pos[o]] \in Path  BY <1>2, <1>4
  <1> QED  BY <1>4, <1>5 DEF Current

\* A run that owns something, or has sent something, has not come to the end of
\* its list.
LEMMA OwnerIsAtATable ==
  ASSUME Typed, NEW o \in Operator, InStep(o), HasTemp(o) \/ HasBak(o) \/ Busy(o)
  PROVE  pc[o] # "done"
  BY DEF HasTemp, HasBak, Busy, Copied, Verified, Orphan, Moved, Placed, InStep,
         Calling, Ended

\* A step of run o that only moves the run on, or ends it, and leaves the tree
\* alone.
LEMMA Settle ==
  ASSUME Inv, Typed', NEW o \in Operator,
         UNCHANGED <<tree, written, late, opt>>,
         \A q \in Operator \ {o} : Still(q),
         Copied(o)' => Copied(o),
         Verified(o)' => Verified(o) \/ (Copied(o) /\ Repaired(tree[Current(o)]["temp"])),
         Orphan(o)' => Orphan(o) \/ Verified(o),
         Moved(o)' => Moved(o),
         Placed(o)' => Placed(o),
         HasTemp(o)' \/ HasBak(o)' => pos'[o] = pos[o],
         InStep(o)', Cleared(o)', Finished(o)'
  PROVE  Inv'
  <1>1. \A q \in Operator : HasTemp(q)' => HasTemp(q) /\ Current(q)' = Current(q)
    <2>1. HasTemp(o)' => HasTemp(o) /\ Current(o)' = Current(o)
      BY DEF HasTemp, Current
    <2>2. ASSUME NEW q \in Operator \ {o}
          PROVE  HasTemp(q)' => HasTemp(q) /\ Current(q)' = Current(q)
      BY <2>2, StillPhase DEF HasTemp
    <2> QED  BY <2>1, <2>2
  <1>2. \A q \in Operator : HasBak(q)' => HasBak(q) /\ Current(q)' = Current(q)
    <2>1. HasBak(o)' => HasBak(o) /\ Current(o)' = Current(o)
      BY DEF HasBak, Current
    <2>2. ASSUME NEW q \in Operator \ {o}
          PROVE  HasBak(q)' => HasBak(q) /\ Current(q)' = Current(q)
      BY <2>2, StillPhase DEF HasBak
    <2> QED  BY <2>1, <2>2
  <1>3. OneOwner'  BY <1>1, <1>2 DEF Inv, OneOwner
  <1>4. Owns(o)'
    <2>1. Owns(o)  BY DEF Inv
    <2>2. (HasTemp(o) \/ HasBak(o))' => Current(o)' = Current(o)  BY <1>1, <1>2
    <2>3. \A p : Kept(p)' = Kept(p)  BY DEF Kept
    <2>4. CASE Current(o)' = Current(o)
      BY <2>1, <2>3, <2>4 DEF Owns, HasTemp, HasBak
    <2>5. CASE ~ (HasTemp(o) \/ HasBak(o))'
      BY <2>5 DEF Owns, HasTemp, HasBak
    <2> QED  BY <2>2, <2>4, <2>5
  <1>5. ASSUME NEW q \in Operator \ {o}
        PROVE  (InStep(q) /\ Owns(q) /\ Cleared(q) /\ Finished(q))'
    <2>1. InStep(q) /\ Owns(q) /\ Cleared(q) /\ Finished(q)  BY DEF Inv
    <2>2. Still(q)  BY <1>5
    <2>3. \A p : Kept(p)' = Kept(p)  BY DEF Kept
    <2>4. InStep(q)'  BY <2>1, <2>2, StillPhase
    <2>5. Owns(q)'  BY <2>1, <2>2, <2>3, StillPhase DEF Owns, HasTemp, HasBak
    <2>6. Cleared(q)'  BY <2>1, <2>2, StillPhase DEF Cleared, Safe
    <2>7. Finished(q)'  BY <2>1, <2>2 DEF Finished, Still, Good, Current
    <2> QED  BY <2>4, <2>5, <2>6, <2>7
  <1>6. \A q \in Operator : (InStep(q) /\ Owns(q) /\ Cleared(q) /\ Finished(q))'
    BY <1>4, <1>5
  <1>7. \A p \in Path : (RowsKept(p) /\ Classified(p))'
    BY DEF Inv, RowsKept, Kept, Classified, Safe
  <1> QED  BY <1>3, <1>6, <1>7 DEF Inv

\* What a run has finished with stays so when it stays at its table.
LEMMA FinishedStays ==
  ASSUME NEW o, Finished(o), tree' = tree, opt' = opt, pos'[o] = pos[o],
         pc'[o] = "drop" => pc[o] = "drop" \/ Good(Current(o))
  PROVE  Finished(o)'
  BY DEF Finished, Good, Current

-----------------------------------------------------------------------------
(* The steps of a run                                                      *)

\* A run that ends early leaves at most an operation that may be executed.
LEMMA StopKeeps ==
  ASSUME Inv, NEW o \in Operator, pc[o] \notin Ended, Stop(o)
  PROVE  Inv'
  <1>1. Typed /\ InStep(o) /\ Cleared(o) /\ Finished(o)  BY DEF Inv
  <1>2. /\ UNCHANGED <<tree, written, late, opt, pos, call>>
        /\ pc' = [pc EXCEPT ![o] = "stopped"]
    BY DEF Stop, Goto, serverVars, runVars
  <1>3. Typed'  BY <1>1, <1>2 DEF Typed, PC, Ended
  <1>4. pc'[o] = "stopped"  BY <1>1, <1>2 DEF Typed
  <1>5. \A q \in Operator \ {o} : Still(q)  BY <1>1, <1>2 DEF Typed, Still
  <1>6. ~ Copied(o)' /\ ~ Verified(o)'  BY <1>4 DEF Copied, Verified
  <1>7. pc[o] \in Calling \/ call[o] = NoCall
    BY <1>1 DEF InStep, Ended
  <1>8. Orphan(o)' => Verified(o)
    BY <1>1, <1>2, <1>4, <1>7 DEF Orphan, Verified, InStep, NoCall
  <1>9. Moved(o)' => Moved(o)
    BY <1>1, <1>2, <1>4, <1>7 DEF Moved, InStep, NoCall
  <1>10. Placed(o)' => Placed(o)
    BY <1>1, <1>2, <1>4, <1>7 DEF Placed, InStep, NoCall
  <1>11. InStep(o)'
    BY <1>1, <1>2, <1>4 DEF InStep, Calling, Ended
  <1>12. Cleared(o)'
    BY <1>1, <1>2, <1>4 DEF Cleared, Busy, Ended, Safe, Applicable, Current
  <1>13. Finished(o)'  BY <1>1, <1>2, <1>4, FinishedStays
  <1> QED
    BY <1>2, <1>3, <1>5, <1>6, <1>8, <1>9, <1>10, <1>11, <1>12, <1>13, Settle

\* A run that goes to the next table owns nothing, and has finished with this one.
LEMMA NextTableKeeps ==
  ASSUME Inv, NEW o \in Operator, NextTable(o), pc[o] # "done",
         UNCHANGED <<tree, written, late, opt>>,
         call' \in [Operator -> Call], call'[o] = NoCall,
         \A q \in Operator \ {o} : call'[q] = call[q],
         ~ opt[o].dryRun => Good(Current(o))
  PROVE  Inv'
  <1>1. Typed /\ InStep(o) /\ Finished(o)  BY DEF Inv
  <1>2. pos[o] \in 1..Len(Tables)  BY <1>1, CurrentIsPath
  <1>3. /\ pos' = [pos EXCEPT ![o] = @ + 1]
        /\ pc' = [pc EXCEPT ![o] = IF pos[o] = Len(Tables) THEN "done" ELSE "describe"]
    BY DEF NextTable, Goto
  <1>4. /\ pos'[o] = pos[o] + 1
        /\ pc'[o] = IF pos[o] = Len(Tables) THEN "done" ELSE "describe"
    BY <1>1, <1>3 DEF Typed
  <1>5. Typed'
    <2>1. pos' \in [Operator -> Nat \ {0}]  BY <1>1, <1>3 DEF Typed
    <2>2. pc' \in [Operator -> PC]  BY <1>1, <1>3 DEF Typed, PC, Ended
    <2> QED  BY <1>1, <2>1, <2>2 DEF Typed
  <1>6. \A q \in Operator \ {o} : Still(q)  BY <1>1, <1>3 DEF Typed, Still
  <1>7. /\ ~ Copied(o)' /\ ~ Verified(o)' /\ ~ Orphan(o)'
        /\ ~ Moved(o)' /\ ~ Placed(o)'
    BY <1>4 DEF Copied, Verified, Orphan, Moved, Placed
  <1>8. ~ HasTemp(o)' /\ ~ HasBak(o)'  BY <1>7 DEF HasTemp, HasBak
  <1>9. InStep(o)'
    <2>1. Len(Tables) \in Nat  BY TablesAssumption
    <2> QED  BY <1>2, <1>4, <2>1 DEF InStep, Calling
  <1>10. Cleared(o)'  BY <1>4 DEF Cleared, Busy, Ended
  <1>11. Finished(o)'
    <2>1. pc'[o] # "drop"  BY <1>4
    <2>2. ASSUME ~ opt[o].dryRun, NEW i \in 1..Len(Tables), i < pos[o] + 1
          PROVE  Good(Tables[i])
      <3>1. Len(Tables) \in Nat  BY TablesAssumption
      <3>2. i < pos[o] \/ i = pos[o]  BY <1>2, <2>2, <3>1
      <3> QED  BY <1>1, <2>2, <3>2 DEF Finished, Current
    <2>3. ASSUME NEW i PROVE Good(Tables[i])' <=> Good(Tables[i])  BY DEF Good
    <2> QED  BY <1>4, <2>1, <2>2, <2>3 DEF Finished
  <1> QED  BY <1>5, <1>6, <1>7, <1>8, <1>9, <1>10, <1>11, Settle

\* The original is described: what is not legacy is left alone.
LEMMA AssertNeedsRepairKeeps ==
  ASSUME Inv, NEW o \in Operator, AssertNeedsRepair(o)
  PROVE  Inv'
  <1>1. Typed /\ InStep(o) /\ Finished(o)  BY DEF Inv
  <1>2. pc[o] = "describe"  BY DEF AssertNeedsRepair
  <1>3. call[o] = NoCall  BY <1>1, <1>2 DEF InStep, Calling
  <1>4. Current(o) \in Path  BY <1>1, <1>2, CurrentIsPath
  <1> DEFINE table == tree[Current(o)]["orig"]
  <1>5. CASE Stop(o)  BY <1>2, <1>5, StopKeeps DEF Ended
  <1>6. CASE /\ table # NoTable
             /\ ClassifyPartitionConfig(table.config) = "already_repaired"
             /\ NextTable(o)
             /\ UNCHANGED <<serverVars, opt, call>>
    <2>1. Repaired(table)  BY <1>6 DEF Repaired
    <2>2. Good(Current(o))  BY <2>1 DEF Good, Slot
    <2>3. call' \in [Operator -> Call]  BY <1>1, <1>6 DEF Typed
    <2>4. NextTable(o) /\ UNCHANGED <<tree, written, late, opt, call>>
      BY <1>6 DEF serverVars
    <2> QED  BY <1>2, <1>3, <2>2, <2>3, <2>4, NextTableKeeps
  <1>7. CASE /\ table # NoTable
             /\ ClassifyPartitionConfig(table.config) = "needs_repair"
             /\ Goto(o, "checkTemp")
             /\ UNCHANGED <<serverVars, opt, call, runVars>>
    <2>1. UNCHANGED <<tree, written, late, opt, pos, call>>
      BY <1>7 DEF serverVars, runVars
    <2>2. pc' = [pc EXCEPT ![o] = "checkTemp"]  BY <1>7 DEF Goto
    <2>3. pc'[o] = "checkTemp"  BY <1>1, <2>2 DEF Typed
    <2>4. Typed'  BY <1>1, <2>1, <2>2 DEF Typed, PC
    <2>5. \A q \in Operator \ {o} : Still(q)  BY <1>1, <2>1, <2>2 DEF Typed, Still
    <2>6. /\ ~ Copied(o)' /\ ~ Verified(o)' /\ ~ Orphan(o)'
          /\ ~ Moved(o)' /\ ~ Placed(o)'
      BY <2>3 DEF Copied, Verified, Orphan, Moved, Placed
    <2>7. ~ HasTemp(o)' /\ ~ HasBak(o)'  BY <2>6 DEF HasTemp, HasBak
    <2>8. InStep(o)'
      BY <1>1, <1>2, <1>3, <2>1, <2>3 DEF InStep, Calling
    <2>9. Safe(Current(o))
      <3>1. Applicable(table)
        BY <1>7 DEF Applicable, ClassifyPartitionConfig
      <3>2. Classified(Current(o))  BY <1>4 DEF Inv
      <3> QED  BY <3>1, <3>2 DEF Classified
    <2>10. Cleared(o)'  BY <2>1, <2>9 DEF Cleared, Safe, Applicable, Current
    <2>11. Finished(o)'  BY <1>1, <2>1, <2>3, FinishedStays
    <2> QED  BY <2>1, <2>4, <2>5, <2>6, <2>7, <2>8, <2>10, <2>11, Settle
  <1> QED  BY <1>5, <1>6, <1>7 DEF AssertNeedsRepair

\* A run that owns nothing goes on to a step that owns nothing.
LEMMA IdleKeeps ==
  ASSUME Inv, NEW o \in Operator, NEW where \in {"checkBak", "copy"},
         pc[o] \in {"checkTemp", "checkBak"}, Goto(o, where),
         UNCHANGED <<serverVars, opt, call, runVars>>
  PROVE  Inv'
  <1>1. Typed /\ InStep(o) /\ Cleared(o) /\ Finished(o)  BY DEF Inv
  <1>2. call[o] = NoCall  BY <1>1 DEF InStep, Calling
  <1>3. UNCHANGED <<tree, written, late, opt, pos, call>>  BY DEF serverVars, runVars
  <1>4. pc' = [pc EXCEPT ![o] = where]  BY DEF Goto
  <1>5. pc'[o] = where  BY <1>1, <1>4 DEF Typed
  <1>6. Typed'  BY <1>1, <1>3, <1>4 DEF Typed, PC, Calling
  <1>7. \A q \in Operator \ {o} : Still(q)  BY <1>1, <1>3, <1>4 DEF Typed, Still
  <1>8. /\ ~ Copied(o)' /\ ~ Verified(o)' /\ ~ Orphan(o)'
        /\ ~ Moved(o)' /\ ~ Placed(o)'
    BY <1>2, <1>3, <1>5 DEF Copied, Verified, Orphan, Moved, Placed, NoCall
  <1>9. ~ HasTemp(o)' /\ ~ HasBak(o)'  BY <1>8 DEF HasTemp, HasBak
  <1>10. InStep(o)'  BY <1>1, <1>2, <1>3, <1>5 DEF InStep, Calling
  <1>11. Busy(o)  BY DEF Busy, Ended
  <1>12. Cleared(o)'  BY <1>1, <1>3, <1>11 DEF Cleared, Safe, Applicable, Current
  <1>13. Finished(o)'  BY <1>1, <1>3, <1>5, FinishedStays
  <1> QED  BY <1>3, <1>6, <1>7, <1>8, <1>9, <1>10, <1>12, <1>13, Settle

\* The helper paths are looked for.
LEMMA CheckTempKeeps ==
  ASSUME Inv, NEW o \in Operator, CheckTemp(o)
  PROVE  Inv'
  <1>1. pc[o] = "checkTemp"  BY DEF CheckTemp
  <1>2. CASE Stop(o)  BY <1>1, <1>2, StopKeeps DEF Ended
  <1>3. CASE Goto(o, "checkBak") /\ UNCHANGED <<serverVars, opt, call, runVars>>
    BY <1>1, <1>3, IdleKeeps
  <1> QED  BY <1>2, <1>3 DEF CheckTemp

LEMMA CheckBakKeeps ==
  ASSUME Inv, NEW o \in Operator, CheckBak(o)
  PROVE  Inv'
  <1>1. pc[o] = "checkBak"  BY DEF CheckBak
  <1>2. CASE Stop(o)  BY <1>1, <1>2, StopKeeps DEF Ended
  <1>3. CASE /\ opt[o].dryRun
             /\ Report(o, opt[o].dropBackup)
             /\ UNCHANGED <<serverVars, opt, call>>
    <2>1. Typed /\ InStep(o)  BY DEF Inv
    <2>2. call[o] = NoCall  BY <1>1, <2>1 DEF InStep, Calling
    <2>3. NextTable(o) /\ UNCHANGED <<tree, written, late, opt, call>>
      BY <1>3 DEF Report, serverVars
    <2>4. call' \in [Operator -> Call]  BY <2>1, <2>3 DEF Typed
    <2> QED  BY <1>1, <1>3, <2>2, <2>3, <2>4, NextTableKeeps
  <1>4. CASE Goto(o, "copy") /\ UNCHANGED <<serverVars, opt, call, runVars>>
    BY <1>1, <1>4, IdleKeeps
  <1> QED  BY <1>2, <1>3, <1>4 DEF CheckBak

\* An operation is sent: the run is as far as it was.
LEMMA SendKeeps ==
  ASSUME Inv, NEW o \in Operator, Send(o)
  PROVE  Inv'
  <1>1. Typed /\ InStep(o) /\ Cleared(o) /\ Finished(o)  BY DEF Inv
  <1>2. pc[o] \in Calling /\ call[o] = NoCall  BY DEF Send
  <1>3. UNCHANGED <<tree, written, late, opt, pos, pc>>  BY DEF Send, serverVars, runVars
  <1>4. call' = [call EXCEPT ![o] = [kind |-> pc[o], status |-> "sent"]]  BY DEF Send
  <1>5. call'[o] = [kind |-> pc[o], status |-> "sent"]  BY <1>1, <1>4 DEF Typed
  <1>6. Typed'
    <2>1. [kind |-> pc[o], status |-> "sent"] \in Call  BY <1>2 DEF Call
    <2> QED  BY <1>1, <1>3, <1>4, <2>1 DEF Typed
  <1>7. \A q \in Operator \ {o} : Still(q)  BY <1>1, <1>3, <1>4 DEF Typed, Still
  <1>8. call'[o].status = "sent" /\ call'[o].kind = pc[o]  BY <1>5
  <1>9. call[o].status = "none"  BY <1>2 DEF NoCall
  <1>10. /\ Copied(o)' => Copied(o)
         /\ Verified(o)' => Verified(o)
         /\ Orphan(o)' => Orphan(o)
         /\ Moved(o)' => Moved(o)
         /\ Placed(o)' => Placed(o)
    BY <1>2, <1>3, <1>8, <1>9 DEF Copied, Verified, Orphan, Moved, Placed, Calling
  <1>11. InStep(o)'  BY <1>1, <1>2, <1>3, <1>8 DEF InStep, Calling
  <1>12. Busy(o)  BY <1>2 DEF Busy, Ended, Calling
  <1>13. Cleared(o)'  BY <1>1, <1>3, <1>12 DEF Cleared, Safe, Applicable, Current
  <1>14. Finished(o)'  BY <1>1, <1>3, FinishedStays
  <1> QED  BY <1>3, <1>6, <1>7, <1>10, <1>11, <1>13, <1>14, Settle

\* A run at a step other than a call goes on to the next step.
LEMMA GoOnKeeps ==
  ASSUME Inv, NEW o \in Operator, NEW where \in PC \ Ended, Goto(o, where),
         where \notin {"describe", "copy"}, Busy(o), pc[o] # "done",
         UNCHANGED <<tree, written, late, opt, pos>>,
         call' \in [Operator -> Call], call'[o] = NoCall,
         \A q \in Operator \ {o} : call'[q] = call[q],
         where = "verifyTemp" => Copied(o),
         where = "rename" => Copied(o) /\ Repaired(tree[Current(o)]["temp"]),
         where = "swap" => Moved(o),
         where \in {"verifyOrig", "drop"} => Placed(o),
         where = "drop" => Good(Current(o))
  PROVE  Inv'
  <1>1. Typed /\ InStep(o) /\ Cleared(o) /\ Finished(o)  BY DEF Inv
  <1>2. pc' = [pc EXCEPT ![o] = where]  BY DEF Goto
  <1>3. pc'[o] = where  BY <1>1, <1>2 DEF Typed
  <1>4. Typed'  BY <1>1, <1>2 DEF Typed
  <1>5. \A q \in Operator \ {o} : Still(q)  BY <1>1, <1>2 DEF Typed, Still
  <1>6. call'[o].status = "none"  BY DEF NoCall
  <1>7. where # "stopped"  BY DEF Ended
  <1>8. /\ Copied(o)' => Copied(o)
        /\ Verified(o)' => Copied(o) /\ Repaired(tree[Current(o)]["temp"])
        /\ ~ Orphan(o)'
    BY <1>3, <1>6, <1>7 DEF Copied, Verified, Orphan
  <1>9. Moved(o)' => Moved(o)
    <2>1. Moved(o)' => where = "swap"  BY <1>3, <1>6, <1>7 DEF Moved
    <2> QED  BY <2>1
  <1>10. Placed(o)' => Placed(o)
    <2>1. Placed(o)' => where \in {"verifyOrig", "drop"}  BY <1>3, <1>6, <1>7 DEF Placed
    <2> QED  BY <2>1
  <1>11. InStep(o)'  BY <1>1, <1>3 DEF InStep, Ended
  <1>12. Cleared(o)'  BY <1>1 DEF Cleared, Safe, Applicable, Current
  <1>13. Finished(o)'  BY <1>1, <1>3, FinishedStays
  <1> QED  BY <1>4, <1>5, <1>8, <1>9, <1>10, <1>11, <1>12, <1>13, Settle

\* The answer: a run goes on only after an operation that was executed.
LEMMA ReceiveKeeps ==
  ASSUME Inv, NEW o \in Operator, Receive(o)
  PROVE  Inv'
  <1>1. Typed /\ InStep(o) /\ Cleared(o) /\ Finished(o)  BY DEF Inv
  <1>2. pc[o] \in Calling /\ call[o].status \in {"ok", "failed"}  BY DEF Receive
  <1>3. UNCHANGED <<tree, written, late, opt>>  BY DEF Receive, serverVars
  <1>4. call' = [call EXCEPT ![o] = NoCall]  BY DEF Receive
  <1>5. /\ call'[o] = NoCall
        /\ call' \in [Operator -> Call]
        /\ \A q \in Operator \ {o} : call'[q] = call[q]
    BY <1>1, <1>4 DEF Typed, Call
  <1>6. Busy(o) /\ pc[o] # "done"  BY <1>2 DEF Busy, Calling, Ended
  <1>7. CASE call[o].status = "ok"
    <2>1. AfterCall(o)  BY <1>7 DEF Receive
    <2>2. CASE pc[o] = "copy"
      <3>1. Goto(o, "verifyTemp") /\ pos' = pos  BY <2>1, <2>2 DEF AfterCall, runVars
      <3>2. Copied(o)  BY <1>7, <2>2 DEF Copied
      <3>3. "verifyTemp" \in PC \ Ended  BY DEF PC, Ended
      <3> QED  BY <1>3, <1>5, <1>6, <3>1, <3>2, <3>3, GoOnKeeps
    <2>3. CASE pc[o] = "rename"
      <3>1. Goto(o, "swap") /\ pos' = pos  BY <2>1, <2>3 DEF AfterCall, runVars
      <3>2. Moved(o)  BY <1>7, <2>3 DEF Moved
      <3>3. "swap" \in PC \ Ended  BY DEF PC, Calling, Ended
      <3> QED  BY <1>3, <1>5, <1>6, <3>1, <3>2, <3>3, GoOnKeeps
    <2>4. CASE pc[o] = "swap"
      <3>1. Goto(o, "verifyOrig") /\ pos' = pos  BY <2>1, <2>4 DEF AfterCall, runVars
      <3>2. Placed(o)  BY <1>7, <2>4 DEF Placed
      <3>3. "verifyOrig" \in PC \ Ended  BY DEF PC, Ended
      <3> QED  BY <1>3, <1>5, <1>6, <3>1, <3>2, <3>3, GoOnKeeps
    <2>5. CASE pc[o] = "drop"
      <3>1. NextTable(o)  BY <2>1, <2>5 DEF AfterCall, Report
      <3>2. ~ opt[o].dryRun => Good(Current(o))  BY <1>1, <2>5 DEF Finished
      <3> QED  BY <1>3, <1>5, <1>6, <3>1, <3>2, NextTableKeeps
    <2> QED  BY <1>2, <2>2, <2>3, <2>4, <2>5 DEF Calling
  <1>8. CASE call[o].status # "ok"
    <2>1. Goto(o, "stopped") /\ pos' = pos  BY <1>8 DEF Receive, runVars
    <2>2. pc' = [pc EXCEPT ![o] = "stopped"]  BY <2>1 DEF Goto
    <2>3. pc'[o] = "stopped"  BY <1>1, <2>2 DEF Typed
    <2>4. Typed'  BY <1>1, <1>3, <1>5, <2>1, <2>2 DEF Typed, PC, Ended
    <2>5. \A q \in Operator \ {o} : Still(q)
      BY <1>1, <1>5, <2>1, <2>2 DEF Typed, Still
    <2>6. /\ ~ Copied(o)' /\ ~ Verified(o)' /\ ~ Orphan(o)'
          /\ ~ Moved(o)' /\ ~ Placed(o)'
      BY <1>5, <2>3 DEF Copied, Verified, Orphan, Moved, Placed, NoCall
    <2>7. ~ HasTemp(o)' /\ ~ HasBak(o)'  BY <2>6 DEF HasTemp, HasBak
    <2>8. InStep(o)'
      BY <1>1, <1>2, <2>1, <2>3 DEF InStep, Calling
    <2>9. Cleared(o)'  BY <1>5, <2>3 DEF Cleared, Busy, Ended
    <2>10. Finished(o)'  BY <1>1, <1>3, <2>1, <2>3, FinishedStays
    <2> QED  BY <1>3, <2>4, <2>5, <2>6, <2>7, <2>8, <2>9, <2>10, Settle
  <1> QED  BY <1>7, <1>8

\* The copy is looked at before the original is renamed.
LEMMA VerifyTempKeeps ==
  ASSUME Inv, NEW o \in Operator, VerifyTemp(o)
  PROVE  Inv'
  <1>1. Typed /\ InStep(o)  BY DEF Inv
  <1>2. pc[o] = "verifyTemp"  BY DEF VerifyTemp
  <1>3. CASE Stop(o)  BY <1>2, <1>3, StopKeeps DEF Ended
  <1>4. CASE /\ Repaired(tree[Current(o)]["temp"])
             /\ Goto(o, "rename")
             /\ UNCHANGED <<serverVars, opt, call, runVars>>
    <2>1. UNCHANGED <<tree, written, late, opt, pos, call>>
      BY <1>4 DEF serverVars, runVars
    <2>2. call[o] = NoCall /\ call' \in [Operator -> Call]
      BY <1>1, <1>2, <2>1 DEF InStep, Calling, Typed
    <2>3. Copied(o) /\ Busy(o) /\ pc[o] # "done"  BY <1>2 DEF Copied, Busy, Ended
    <2>4. "rename" \in PC \ Ended  BY DEF PC, Calling, Ended
    <2> QED  BY <1>4, <2>1, <2>2, <2>3, <2>4, GoOnKeeps
  <1> QED  BY <1>3, <1>4 DEF VerifyTemp

\* The table is looked at again before the backup is dropped.
LEMMA VerifyOrigKeeps ==
  ASSUME Inv, NEW o \in Operator, VerifyOrig(o)
  PROVE  Inv'
  <1>1. Typed /\ InStep(o)  BY DEF Inv
  <1>2. pc[o] = "verifyOrig"  BY DEF VerifyOrig
  <1>3. CASE Stop(o)  BY <1>2, <1>3, StopKeeps DEF Ended
  <1>4. CASE /\ Repaired(tree[Current(o)]["orig"])
             /\ Goto(o, "drop") /\ UNCHANGED <<serverVars, opt, call, runVars>>
    <2>1. UNCHANGED <<tree, written, late, opt, pos, call>>
      BY <1>4 DEF serverVars, runVars
    <2>2. call[o] = NoCall /\ call' \in [Operator -> Call]
      BY <1>1, <1>2, <2>1 DEF InStep, Calling, Typed
    <2>3. Placed(o) /\ Busy(o) /\ pc[o] # "done"  BY <1>2 DEF Placed, Busy, Ended
    <2>4. "drop" \in PC \ Ended  BY DEF PC, Calling, Ended
    <2>5. Good(Current(o))  BY <1>4 DEF Good, Slot
    <2> QED  BY <1>4, <2>1, <2>2, <2>3, <2>4, <2>5, GoOnKeeps
  <1>5. CASE /\ Repaired(tree[Current(o)]["orig"])
             /\ Report(o, FALSE) /\ UNCHANGED <<serverVars, opt, call>>
    <2>1. NextTable(o) /\ UNCHANGED <<tree, written, late, opt, call>>
      BY <1>5 DEF Report, serverVars
    <2>2. call[o] = NoCall /\ call' \in [Operator -> Call]
      BY <1>1, <1>2, <2>1 DEF InStep, Calling, Typed
    <2>3. Good(Current(o))  BY <1>5 DEF Good, Slot
    <2> QED  BY <1>2, <2>1, <2>2, <2>3, NextTableKeeps
  <1> QED  BY <1>3, <1>4, <1>5 DEF VerifyOrig

-----------------------------------------------------------------------------
(* The scheme tree and the applications                                    *)

\* A step that changes the paths of one table only.
LEMMA PathKeeps ==
  ASSUME Inv, Typed', NEW p \in Path, UNCHANGED <<opt, pc, pos>>,
         \A r \in Path \ {p} : tree'[r] = tree[r] /\ Kept(r)' = Kept(r),
         \A q \in Operator : InStep(q)' /\ (Busy(q)' => Busy(q)),
         \A q \in Operator : Current(q) # p => call'[q] = call[q],
         \A q \in Operator : Current(q) = p => Owns(q)',
         Safe(p) => Safe(p)', Classified(p)', Good(p) => Good(p)', RowsKept(p)',
         OneOwner'
  PROVE  Inv'
  <1>1. \A q \in Operator : Current(q)' = Current(q)  BY DEF Current
  <1>2. \A r \in Path : Safe(r) => Safe(r)'
    <2>1. ASSUME NEW r \in Path \ {p}, Safe(r)  PROVE Safe(r)'
      BY <2>1 DEF Safe, Applicable
    <2> QED  BY <2>1
  <1>3. \A r \in Path : Good(r) => Good(r)'
    <2>1. ASSUME NEW r \in Path \ {p}, Good(r)  PROVE Good(r)'
      BY <2>1 DEF Good
    <2> QED  BY <2>1
  <1>4. \A r \in Path : (RowsKept(r) /\ Classified(r))'
    <2>1. ASSUME NEW r \in Path \ {p}  PROVE RowsKept(r)' /\ Classified(r)'
      <3>1. RowsKept(r) /\ Classified(r)  BY DEF Inv
      <3>2. RowsKept(r)'  BY <3>1 DEF RowsKept
      <3>3. Classified(r)'  BY <3>1 DEF Classified, Safe, Applicable
      <3> QED  BY <3>2, <3>3
    <2> QED  BY <2>1
  <1>5. ASSUME NEW q \in Operator
        PROVE  (InStep(q) /\ Owns(q) /\ Cleared(q) /\ Finished(q))'
    <2>1. Typed /\ InStep(q) /\ Owns(q) /\ Cleared(q) /\ Finished(q)  BY DEF Inv
    <2>2. pc[q] # "done" => Current(q) \in Path  BY <2>1, CurrentIsPath
    <2>3. Owns(q)'
      <3>1. CASE Current(q) = p  BY <3>1
      <3>2. CASE Current(q) # p
        <4>1. call'[q] = call[q]  BY <3>2
        <4>2. Still(q)  BY <4>1 DEF Still
        <4>3. /\ HasTemp(q)' <=> HasTemp(q)
              /\ HasBak(q)' <=> HasBak(q)
          BY <4>2, StillPhase DEF HasTemp, HasBak
        <4>4. CASE HasTemp(q) \/ HasBak(q)
          <5>1. Current(q) \in Path \ {p}
            BY <2>1, <2>2, <3>2, <4>4, OwnerIsAtATable
          <5>2. PICK r \in Path \ {p} : r = Current(q)  BY <5>1
          <5>3. tree'[r] = tree[r] /\ Kept(r)' = Kept(r)  BY <5>2
          <5>4. Kept(Current(q))' = Kept(Current(q))  BY <1>1, <5>2, <5>3 DEF Kept
          <5> QED  BY <1>1, <2>1, <4>2, <4>3, <5>2, <5>3, <5>4, StillPhase DEF Owns
        <4>5. CASE ~ (HasTemp(q) \/ HasBak(q))
          BY <4>3, <4>5 DEF Owns, HasTemp, HasBak
        <4> QED  BY <4>4, <4>5
      <3> QED  BY <3>1, <3>2
    <2>4. Cleared(q)'
      <3>1. SUFFICES ASSUME Busy(q)'  PROVE Safe(Current(q))'
        BY DEF Cleared
      <3>2. Busy(q)  BY <3>1
      <3>3. Current(q) \in Path /\ Safe(Current(q))
        BY <2>1, <2>2, <3>2, OwnerIsAtATable DEF Cleared
      <3> QED  BY <1>1, <1>2, <3>3
    <2>5. Finished(q)'
      <3>1. \A i \in 1..Len(Tables) : Tables[i] \in Path  BY TablesAssumption
      <3>2. \A i \in 1..Len(Tables) : Good(Tables[i]) => Good(Tables[i])'
        BY <1>3, <3>1
      <3>3. pc[q] = "drop" /\ Good(Current(q)) => Good(Current(q))'
        BY <1>1, <1>3, <2>2
      <3> QED  BY <2>1, <3>2, <3>3 DEF Finished
    <2> QED  BY <2>3, <2>4, <2>5
  <1> QED  BY <1>4, <1>5 DEF Inv

\* What the kind of an operation that was sent says of the run.
LEMMA SentPhase ==
  ASSUME Typed, NEW o \in Operator, InStep(o), call[o].status = "sent"
  PROVE  /\ call[o].kind \in Calling
         /\ pc[o] \in {call[o].kind, "stopped"}
         /\ Busy(o)
         /\ call[o].kind = "rename" => Verified(o) \/ Orphan(o)
         /\ call[o].kind = "swap" => Moved(o)
         /\ call[o].kind = "drop" => Placed(o)
  <1>1. call[o] \in Call /\ call[o] # NoCall  BY DEF Typed, NoCall
  <1>2. call[o] \in [kind : Calling, status : {"sent", "ok", "failed"}]
    BY <1>1 DEF Call
  <1>3. call[o] = [kind |-> call[o].kind, status |-> "sent"]  BY <1>2
  <1>4. call[o].kind \in Calling  BY <1>2
  <1>5. pc[o] \in {call[o].kind, "stopped"}
    <2>1. CASE pc[o] \in Calling  BY <1>1, <2>1 DEF InStep
    <2>2. CASE pc[o] \notin Calling  BY <1>1, <2>2 DEF InStep
    <2> QED  BY <2>1, <2>2
  <1>6. Busy(o)  BY <1>1 DEF Busy
  <1> QED
    BY <1>3, <1>4, <1>5, <1>6 DEF Verified, Orphan, Moved, Placed

\* How far a run has come once its operation has been executed.
LEMMA ExecutedPhase ==
  ASSUME Typed, NEW o \in Operator, InStep(o), call[o].status = "sent",
         pc' = pc, NEW status \in {"ok", "failed"},
         call'[o] = [kind |-> call[o].kind, status |-> status]
  PROVE  /\ Copied(o)' => call[o].kind = "copy" /\ status = "ok"
         /\ ~ Verified(o)' /\ ~ Orphan(o)'
         /\ Moved(o)' => /\ call[o].kind = "rename" /\ status = "ok"
                         /\ pc[o] = "rename"
         /\ Placed(o)' => call[o].kind = "swap" /\ status = "ok"
  <1>1. call[o].kind \in Calling /\ pc[o] \in {call[o].kind, "stopped"}  BY SentPhase
  <1>2. call'[o].kind = call[o].kind /\ call'[o].status = status  OBVIOUS
  <1>3. status # "sent" /\ status # "none"  OBVIOUS
  <1>4. call'[o] # [kind |-> "rename", status |-> "sent"]
        /\ call'[o] # [kind |-> "swap", status |-> "sent"]
        /\ call'[o] # [kind |-> "drop", status |-> "sent"]
    BY <1>2, <1>3
  <1> QED
    BY <1>1, <1>2, <1>3, <1>4 DEF Copied, Verified, Orphan, Moved, Placed, Calling

\* The server refuses an operation.
LEMMA RefuseKeeps ==
  ASSUME Inv, NEW o \in Operator, call[o].status = "sent",
         call' = [call EXCEPT ![o] = [kind |-> @.kind, status |-> "failed"]],
         UNCHANGED <<tree, written, late, opt, pc, pos>>
  PROVE  Inv'
  <1>1. Typed /\ InStep(o) /\ Cleared(o) /\ Finished(o)  BY DEF Inv
  <1>2. call'[o] = [kind |-> call[o].kind, status |-> "failed"]  BY <1>1 DEF Typed
  <1>3. /\ ~ Copied(o)' /\ ~ Verified(o)' /\ ~ Orphan(o)'
        /\ ~ Moved(o)' /\ ~ Placed(o)'
    BY <1>1, <1>2, ExecutedPhase
  <1>4. ~ HasTemp(o)' /\ ~ HasBak(o)'  BY <1>3 DEF HasTemp, HasBak
  <1>5. call[o].kind \in Calling /\ Busy(o) /\ call[o] # NoCall
        /\ pc[o] \in {call[o].kind, "stopped"}
    BY <1>1, SentPhase DEF NoCall
  <1>6. Typed'
    <2>1. [kind |-> call[o].kind, status |-> "failed"] \in Call  BY <1>5 DEF Call
    <2> QED  BY <1>1, <2>1 DEF Typed
  <1>7. \A q \in Operator \ {o} : Still(q)  BY <1>1 DEF Typed, Still
  <1>8. InStep(o)'  BY <1>1, <1>2, <1>5 DEF InStep
  <1>9. Cleared(o)'  BY <1>1, <1>5 DEF Cleared, Safe, Applicable, Current
  <1>10. Finished(o)'  BY <1>1, FinishedStays
  <1> QED  BY <1>3, <1>4, <1>6, <1>7, <1>8, <1>9, <1>10, Settle

\* What an operation that is executed leaves alone.
Executed(o) ==
  /\ call[o].status = "sent"
  /\ call' = [call EXCEPT ![o] = [kind |-> @.kind, status |-> "ok"]]
  /\ UNCHANGED <<written, late, opt, pc, pos>>

LEMMA ExecutedFrame ==
  ASSUME Inv, NEW o \in Operator, Executed(o)
  PROVE  /\ call' \in [Operator -> Call]
         /\ call'[o] = [kind |-> call[o].kind, status |-> "ok"]
         /\ \A q \in Operator \ {o} : Still(q)
         /\ \A q \in Operator : InStep(q)' /\ (Busy(q)' => Busy(q))
         /\ \A q : Current(q)' = Current(q)
         /\ \A r : Kept(r)' = Kept(r)
         /\ Current(o) \in Path /\ Safe(Current(o))
  <1>1. Typed /\ InStep(o) /\ Cleared(o)  BY DEF Inv
  <1>2. /\ call[o].kind \in Calling /\ Busy(o) /\ call[o] # NoCall
        /\ pc[o] \in {call[o].kind, "stopped"}
    BY <1>1, SentPhase DEF Executed, NoCall
  <1>3. call' \in [Operator -> Call]
    <2>1. [kind |-> call[o].kind, status |-> "ok"] \in Call  BY <1>2 DEF Call
    <2> QED  BY <1>1, <2>1 DEF Typed, Executed
  <1>4. call'[o] = [kind |-> call[o].kind, status |-> "ok"]
    BY <1>1 DEF Typed, Executed
  <1>5. \A q \in Operator \ {o} : Still(q)  BY <1>1 DEF Typed, Still, Executed
  <1>6. InStep(o)'  BY <1>1, <1>2, <1>4 DEF InStep, Executed
  <1>7. ASSUME NEW q \in Operator \ {o}  PROVE InStep(q)' /\ (Busy(q)' => Busy(q))
    <2>1. InStep(q) /\ Still(q)  BY <1>5 DEF Inv
    <2> QED  BY <2>1, StillPhase
  <1>8. Current(o) \in Path /\ Safe(Current(o))
    BY <1>1, <1>2, CurrentIsPath, OwnerIsAtATable DEF Cleared
  <1>9. (\A q : Current(q)' = Current(q)) /\ (\A r : Kept(r)' = Kept(r))
    BY DEF Executed, Current, Kept
  <1> QED  BY <1>2, <1>3, <1>4, <1>5, <1>6, <1>7, <1>8, <1>9

\* How far another run at the same table has come is not changed.
LEMMA OthersPhase ==
  ASSUME NEW q, Still(q)
  PROVE  (HasTemp(q)' <=> HasTemp(q)) /\ (HasBak(q)' <=> HasBak(q))
  BY StillPhase DEF HasTemp, HasBak

\* A copy is made only where there is none.
LEMMA CopyKeeps ==
  ASSUME Inv, NEW o \in Operator, Executed(o), call[o].kind = "copy",
         NEW p, p = Current(o), ExecuteCopy(p)
  PROVE  Inv'
  <1>1. Typed /\ InStep(o) /\ OneOwner  BY DEF Inv
  <1>2. p \in Path /\ Safe(p)  BY ExecutedFrame
  <1>3. PICK c \in {[channelProfile |-> FALSE, family0 |-> "usable"],
                    tree[p]["orig"].config} :
          tree' = [tree EXCEPT ![p]["temp"] =
                    [config |-> c, rows |-> tree[p]["orig"].rows]]
    BY DEF ExecuteCopy
  <1>4. tree[p]["orig"] # NoTable /\ tree[p]["temp"] = NoTable  BY DEF ExecuteCopy
  <1>5. tree[p] \in [Slot -> Table \cup {NoTable}]  BY <1>1, <1>2 DEF Typed
  <1>6. tree[p]["orig"] \in Table  BY <1>4, <1>5 DEF Slot
  <1> DEFINE new == [config |-> c, rows |-> tree[p]["orig"].rows]
  <1>7. /\ new \in Table
        /\ ~ new.config.channelProfile
        /\ new.rows = tree[p]["orig"].rows
    <2>1. tree[p]["orig"].config \in Config /\ tree[p]["orig"].rows \in SUBSET (1..MaxWrites)
      BY <1>6 DEF Table
    <2>2. c \in Config
      <3>1. [channelProfile |-> FALSE, family0 |-> "usable"] \in Config  BY DEF Config
      <3> QED  BY <2>1, <3>1
    <2>3. ~ c.channelProfile  BY <1>2, <1>3, <1>4 DEF Safe, Applicable, Slot
    <2> QED  BY <2>1, <2>2, <2>3 DEF Table
  <1>8. /\ tree' \in [Path -> [Slot -> Table \cup {NoTable}]]
        /\ \A r \in Path \ {p} : tree'[r] = tree[r]
        /\ tree'[p]["temp"] = new
        /\ tree'[p]["orig"] = tree[p]["orig"] /\ tree'[p]["bak"] = tree[p]["bak"]
    <2>1. tree' = [tree EXCEPT ![p] = [tree[p] EXCEPT !["temp"] = new]]  BY <1>3
    <2>2. [tree[p] EXCEPT !["temp"] = new] \in [Slot -> Table \cup {NoTable}]
      BY <1>5, <1>7
    <2> HIDE DEF new
    <2> QED  BY <1>1, <1>2, <1>5, <2>1, <2>2 DEF Typed, Slot
  <1> HIDE DEF new
  <1>9. new # NoTable  BY <1>7, NoTableAssumption
  <1>10. Typed'  BY <1>1, <1>8, ExecutedFrame DEF Typed, Executed
  <1>11. /\ Copied(o)' \/ ~ HasTemp(o)'
         /\ ~ Verified(o)' /\ ~ Orphan(o)' /\ ~ Moved(o)' /\ ~ Placed(o)'
    BY <1>1, ExecutedFrame, ExecutedPhase DEF Executed, HasTemp
  <1>12. ~ HasBak(o)'  BY <1>11 DEF HasBak
  <1>13. \A q \in Operator \ {o} : /\ HasTemp(q)' <=> HasTemp(q)
                                   /\ HasBak(q)' <=> HasBak(q)
    BY ExecutedFrame, OthersPhase
  <1>14. \A q \in Operator : Current(q) = p => ~ HasTemp(q)
    BY <1>4 DEF Inv, Owns
  <1>15. OneOwner'
    BY <1>1, <1>12, <1>13, <1>14, ExecutedFrame DEF OneOwner
  <1>16. ASSUME NEW q \in Operator, Current(q) = p  PROVE Owns(q)'
    <2>1. CASE q = o
      <3>1. Kept(p) \subseteq new.rows
        BY <1>2, <1>4, <1>7 DEF Inv, RowsKept
      <3>2. Current(o)' = p /\ Kept(p)' = Kept(p)  BY ExecutedFrame
      <3>3. Kept(Current(o))' = Kept(p)  BY <3>2 DEF Kept
      <3> QED  BY <1>8, <1>9, <1>11, <1>12, <2>1, <3>1, <3>2, <3>3 DEF Owns, HasTemp
    <2>2. CASE q # o
      <3>1. ~ HasTemp(q)'  BY <1>13, <1>14, <1>16, <2>2
      <3>2. Owns(q)  BY DEF Inv
      <3>3. Placed(q)' <=> Placed(q)  BY <2>2, ExecutedFrame, StillPhase
      <3>4. HasBak(q)' <=> HasBak(q)  BY <1>13, <2>2
      <3>5. Current(q)' = p  BY <1>16, ExecutedFrame
      <3> QED  BY <1>8, <1>16, <3>1, <3>2, <3>3, <3>4, <3>5 DEF Owns, HasTemp
    <2> QED  BY <2>1, <2>2
  <1>17. Safe(p)'  BY <1>2, <1>7, <1>8 DEF Safe, Applicable, Slot
  <1>18. Good(p) => Good(p)'
    <2>1. SUFFICES ASSUME Good(p)  PROVE Good(p)'
      OBVIOUS
    <2>2. Repaired(tree[p]["orig"])  BY <1>4, <2>1 DEF Good
    <2>3. Repaired(tree'[p]["orig"])  BY <1>8, <2>2
    <2>4. \E s \in Slot : Repaired(tree'[p][s])  BY <2>3 DEF Slot
    <2> QED  BY <2>3, <2>4, ExecutedFrame DEF Good
  <1>19. RowsKept(p)'
    BY <1>2, <1>4, <1>8, ExecutedFrame DEF Inv, RowsKept
  <1>20. Classified(p)'  BY <1>17 DEF Classified
  <1> QED
    BY <1>2, <1>8, <1>10, <1>15, <1>16, <1>17, <1>18, <1>19, <1>20, ExecutedFrame,
       PathKeeps DEF Executed, Still

\* A table is moved from one path of p to another.
LEMMA MoveShape ==
  ASSUME Typed, NEW p \in Path, NEW src \in Slot, NEW dst \in Slot, src # dst,
         ExecuteMove(p, src, dst)
  PROVE  /\ tree' \in [Path -> [Slot -> Table \cup {NoTable}]]
         /\ \A r \in Path \ {p} : tree'[r] = tree[r]
         /\ tree'[p][dst] = tree[p][src] /\ tree'[p][src] = NoTable
         /\ \A s \in Slot \ {src, dst} : tree'[p][s] = tree[p][s]
  <1> DEFINE old == tree[p]
             mid == [old EXCEPT ![dst] = tree[p][src]]
             new == [mid EXCEPT ![src] = NoTable]
  <1>1. old \in [Slot -> Table \cup {NoTable}]  BY DEF Typed
  <1>2. mid \in [Slot -> Table \cup {NoTable}]  BY <1>1
  <1>3. /\ mid[dst] = tree[p][src]
        /\ \A s \in Slot \ {dst} : mid[s] = old[s]
    BY <1>1
  <1>4. new \in [Slot -> Table \cup {NoTable}]  BY <1>2
  <1>5. /\ new[src] = NoTable
        /\ \A s \in Slot \ {src} : new[s] = mid[s]
    BY <1>2
  <1>6. tree' = [tree EXCEPT ![p] = new]
    <2>1. tree' = [tree EXCEPT ![p][dst] = tree[p][src], ![p][src] = NoTable]
      BY DEF ExecuteMove
    <2>2. [tree EXCEPT ![p] = mid][p] = mid  BY DEF Typed
    <2>3. tree' = [[tree EXCEPT ![p] = mid] EXCEPT ![p] = new]  BY <2>1, <2>2
    <2> HIDE DEF mid, new
    <2> QED  BY <2>3 DEF Typed
  <1> HIDE DEF mid, new, old
  <1>7. /\ tree' \in [Path -> [Slot -> Table \cup {NoTable}]]
        /\ tree'[p] = new
        /\ \A r \in Path \ {p} : tree'[r] = tree[r]
    BY <1>4, <1>6 DEF Typed
  <1> QED  BY <1>3, <1>5, <1>7 DEF old

\* The original is renamed by the owner of the copy, where there is no backup.
LEMMA RenameKeeps ==
  ASSUME Inv, NEW o \in Operator, Executed(o), call[o].kind = "rename",
         NEW p, p = Current(o), ExecuteMove(p, "orig", "bak")
  PROVE  Inv'
  <1>1. Typed /\ InStep(o) /\ Owns(o) /\ OneOwner  BY DEF Inv
  <1>2. p \in Path /\ Safe(p)  BY ExecutedFrame
  <1>3. tree[p]["orig"] # NoTable /\ tree[p]["bak"] = NoTable  BY DEF ExecuteMove
  <1>4. /\ tree' \in [Path -> [Slot -> Table \cup {NoTable}]]
        /\ \A r \in Path \ {p} : tree'[r] = tree[r]
        /\ tree'[p]["bak"] = tree[p]["orig"]
        /\ tree'[p]["orig"] = NoTable
        /\ tree'[p]["temp"] = tree[p]["temp"]
    BY <1>1, <1>2, MoveShape DEF Slot
  <1>5. Typed'  BY <1>1, <1>4, ExecutedFrame DEF Typed, Executed
  <1>6. Verified(o) \/ Orphan(o)  BY <1>1, SentPhase DEF Executed
  <1>7. Moved(o)' => Verified(o)
    BY <1>1, <1>6, ExecutedFrame, ExecutedPhase DEF Executed, Orphan
  <1>8. ~ Copied(o)' /\ ~ Verified(o)' /\ ~ Orphan(o)' /\ ~ Placed(o)'
    BY <1>1, ExecutedFrame, ExecutedPhase DEF Executed
  <1>9. \A q \in Operator \ {o} : Current(q) = p => ~ HasTemp(q) /\ ~ HasBak(q)
    <2>1. HasTemp(o)  BY <1>6 DEF HasTemp
    <2>2. \A q \in Operator \ {o} : Current(q) = p => ~ HasTemp(q)
      BY <1>1, <2>1 DEF OneOwner
    <2>3. \A q \in Operator : Current(q) = p => ~ HasBak(q)
      BY <1>3 DEF Inv, Owns
    <2> QED  BY <2>2, <2>3
  <1>10. \A q \in Operator \ {o} : /\ HasTemp(q)' <=> HasTemp(q)
                                   /\ HasBak(q)' <=> HasBak(q)
    BY ExecutedFrame, OthersPhase
  <1>11. OneOwner'
    BY <1>1, <1>9, <1>10, ExecutedFrame DEF OneOwner
  <1>12. Repaired(tree[p]["temp"])  BY <1>1, <1>6 DEF Owns
  <1>13. ASSUME NEW q \in Operator, Current(q) = p  PROVE Owns(q)'
    <2>1. CASE q = o
      <3>1. Moved(o)' => Kept(p) \subseteq tree[p]["temp"].rows
        BY <1>1, <1>7 DEF Owns
      <3>2. Current(o)' = p /\ Kept(p)' = Kept(p)  BY ExecutedFrame
      <3>3. Kept(Current(o))' = Kept(p)  BY <3>2 DEF Kept
      <3>4. tree[p]["temp"] # NoTable  BY <1>12 DEF Repaired
      <3> QED  BY <1>3, <1>4, <1>8, <1>12, <2>1, <3>1, <3>2, <3>3, <3>4
               DEF Owns, HasTemp, HasBak
    <2>2. CASE q # o
      BY <1>9, <1>10, <1>13, <2>2 DEF Owns, HasTemp, HasBak
    <2> QED  BY <2>1, <2>2
  <1>14. Safe(p)'
    <2>1. \A s \in Slot : Applicable(tree[p][s])  BY <1>2 DEF Safe
    <2> QED  BY <1>4, <2>1 DEF Safe, Applicable, Slot
  <1>15. Good(p) => Good(p)'
    <2>1. SUFFICES ASSUME Good(p)  PROVE Good(p)'
      OBVIOUS
    <2>2. Repaired(tree[p]["orig"])  BY <1>3, <2>1 DEF Good
    <2>3. Repaired(tree'[p]["bak"])  BY <1>4, <2>2
    <2>4. \E s \in Slot : Repaired(tree'[p][s])  BY <2>3 DEF Slot
    <2> QED  BY <1>4, <2>4 DEF Good
  <1>16. RowsKept(p)'
    <2>1. Kept(p) \subseteq tree[p]["orig"].rows  BY <1>2, <1>3 DEF Inv, RowsKept
    <2>2. Kept(p)' = Kept(p)  BY ExecutedFrame
    <2> QED  BY <1>3, <1>4, <1>12, <2>1, <2>2 DEF RowsKept
  <1>17. Classified(p)'  BY <1>14 DEF Classified
  <1> QED
    BY <1>2, <1>4, <1>5, <1>11, <1>13, <1>14, <1>15, <1>16, <1>17, ExecutedFrame,
       PathKeeps DEF Executed, Still

\* The copy takes the place of the original.
LEMMA SwapKeeps ==
  ASSUME Inv, NEW o \in Operator, Executed(o), call[o].kind = "swap",
         NEW p, p = Current(o), ExecuteMove(p, "temp", "orig")
  PROVE  Inv'
  <1>1. Typed /\ InStep(o) /\ Owns(o) /\ OneOwner  BY DEF Inv
  <1>2. p \in Path /\ Safe(p)  BY ExecutedFrame
  <1>3. tree[p]["temp"] # NoTable  BY DEF ExecuteMove
  <1>4. /\ tree' \in [Path -> [Slot -> Table \cup {NoTable}]]
        /\ \A r \in Path \ {p} : tree'[r] = tree[r]
        /\ tree'[p]["orig"] = tree[p]["temp"]
        /\ tree'[p]["temp"] = NoTable
        /\ tree'[p]["bak"] = tree[p]["bak"]
    BY <1>1, <1>2, MoveShape DEF Slot
  <1>5. Typed'  BY <1>1, <1>4, ExecutedFrame DEF Typed, Executed
  <1>6. Moved(o)  BY <1>1, SentPhase DEF Executed
  <1>7. ~ Copied(o)' /\ ~ Verified(o)' /\ ~ Orphan(o)' /\ ~ Moved(o)'
    BY <1>1, ExecutedFrame, ExecutedPhase DEF Executed
  <1>8. ~ HasTemp(o)'  BY <1>7 DEF HasTemp
  <1>9. \A q \in Operator \ {o} : Current(q) = p => ~ HasTemp(q) /\ ~ HasBak(q)
    <2>1. HasTemp(o) /\ HasBak(o)  BY <1>6 DEF HasTemp, HasBak
    <2> QED  BY <1>1, <2>1 DEF OneOwner
  <1>10. \A q \in Operator \ {o} : /\ HasTemp(q)' <=> HasTemp(q)
                                   /\ HasBak(q)' <=> HasBak(q)
    BY ExecutedFrame, OthersPhase
  <1>11. OneOwner'
    BY <1>1, <1>9, <1>10, ExecutedFrame DEF OneOwner
  <1>12. /\ Repaired(tree[p]["temp"]) /\ tree[p]["bak"] # NoTable
         /\ Kept(p) \subseteq tree[p]["temp"].rows
    BY <1>1, <1>6 DEF Owns, HasBak
  <1>13. ASSUME NEW q \in Operator, Current(q) = p  PROVE Owns(q)'
    <2>1. CASE q = o
      <3>1. Current(o)' = p  BY ExecutedFrame
      <3> QED  BY <1>3, <1>4, <1>7, <1>8, <1>12, <2>1, <3>1 DEF Owns
    <2>2. CASE q # o
      BY <1>9, <1>10, <1>13, <2>2 DEF Owns, HasTemp, HasBak
    <2> QED  BY <2>1, <2>2
  <1>14. Safe(p)'
    <2>1. \A s \in Slot : Applicable(tree[p][s])  BY <1>2 DEF Safe
    <2> QED  BY <1>4, <2>1 DEF Safe, Applicable, Slot
  <1>15. Good(p)'
    <2>1. Repaired(tree'[p]["orig"])  BY <1>4, <1>12
    <2>2. \E s \in Slot : Repaired(tree'[p][s])  BY <2>1 DEF Slot
    <2> QED  BY <2>1, <2>2 DEF Good
  <1>16. RowsKept(p)'
    <2>1. Kept(p)' = Kept(p)  BY ExecutedFrame
    <2> QED  BY <1>3, <1>4, <1>12, <2>1 DEF RowsKept
  <1>17. Classified(p)'  BY <1>14 DEF Classified
  <1> QED
    BY <1>2, <1>4, <1>5, <1>11, <1>13, <1>14, <1>15, <1>16, <1>17, ExecutedFrame,
       PathKeeps DEF Executed, Still

\* The backup is dropped by its owner, with the copy in place.
LEMMA DropKeeps ==
  ASSUME Inv, NEW o \in Operator, Executed(o), call[o].kind = "drop",
         NEW p, p = Current(o), ExecuteDrop(p)
  PROVE  Inv'
  <1>1. Typed /\ InStep(o) /\ Owns(o) /\ OneOwner  BY DEF Inv
  <1>2. p \in Path /\ Safe(p)  BY ExecutedFrame
  <1>3. /\ tree' \in [Path -> [Slot -> Table \cup {NoTable}]]
        /\ \A r \in Path \ {p} : tree'[r] = tree[r]
        /\ tree'[p]["orig"] = tree[p]["orig"]
        /\ tree'[p]["temp"] = tree[p]["temp"]
        /\ tree'[p]["bak"] = NoTable
    BY <1>1, <1>2 DEF ExecuteDrop, Typed, Slot
  <1>4. Typed'  BY <1>1, <1>3, ExecutedFrame DEF Typed, Executed
  <1>5. Placed(o)  BY <1>1, SentPhase DEF Executed
  <1>6. ~ Copied(o)' /\ ~ Verified(o)' /\ ~ Orphan(o)' /\ ~ Moved(o)' /\ ~ Placed(o)'
    BY <1>1, ExecutedFrame, ExecutedPhase DEF Executed
  <1>7. ~ HasTemp(o)' /\ ~ HasBak(o)'  BY <1>6 DEF HasTemp, HasBak
  <1>8. \A q \in Operator \ {o} : Current(q) = p => ~ HasBak(q)
    BY <1>1, <1>5 DEF OneOwner, HasBak
  <1>9. \A q \in Operator \ {o} : /\ HasTemp(q)' <=> HasTemp(q)
                                  /\ HasBak(q)' <=> HasBak(q)
    BY ExecutedFrame, OthersPhase
  <1>10. OneOwner'
    BY <1>1, <1>7, <1>9, ExecutedFrame DEF OneOwner
  <1>11. tree[p]["orig"] # NoTable  BY <1>1, <1>5 DEF Owns
  <1>12. ASSUME NEW q \in Operator, Current(q) = p  PROVE Owns(q)'
    <2>1. CASE q = o
      BY <1>6, <1>7, <2>1 DEF Owns
    <2>2. CASE q # o
      <3>1. Owns(q) /\ Still(q)  BY <2>2, ExecutedFrame DEF Inv
      <3>2. ~ HasBak(q)'  BY <1>8, <1>9, <1>12, <2>2
      <3>3. Current(q)' = p /\ Kept(p)' = Kept(p)  BY <1>12, ExecutedFrame
      <3>4. Kept(Current(q))' = Kept(p)  BY <3>3 DEF Kept
      <3> QED  BY <1>3, <1>12, <3>1, <3>2, <3>3, <3>4, StillPhase DEF Owns, HasTemp, HasBak
    <2> QED  BY <2>1, <2>2
  <1>13. Safe(p)'
    <2>1. \A s \in Slot : Applicable(tree[p][s])  BY <1>2 DEF Safe
    <2> QED  BY <1>3, <2>1 DEF Safe, Applicable, Slot
  <1>14. Good(p) => Good(p)'
    <2>1. SUFFICES ASSUME Good(p)  PROVE Good(p)'
      OBVIOUS
    <2>2. Repaired(tree[p]["orig"])  BY <1>11, <2>1 DEF Good
    <2>3. Repaired(tree'[p]["orig"])  BY <1>3, <2>2
    <2>4. \E s \in Slot : Repaired(tree'[p][s])  BY <2>3 DEF Slot
    <2> QED  BY <2>3, <2>4 DEF Good
  <1>15. RowsKept(p)'
    <2>1. Kept(p)' = Kept(p)  BY ExecutedFrame
    <2> QED  BY <1>2, <1>3, <1>11, <2>1 DEF Inv, RowsKept
  <1>16. Classified(p)'  BY <1>13 DEF Classified
  <1> QED
    BY <1>2, <1>3, <1>4, <1>10, <1>12, <1>13, <1>14, <1>15, <1>16, ExecutedFrame,
       PathKeeps DEF Executed, Still

LEMMA ServerExecuteKeeps ==
  ASSUME Inv, NEW o \in Operator, ServerExecute(o)
  PROVE  Inv'
  <1>1. call[o].status = "sent" /\ UNCHANGED <<written, late, opt, pc, pos>>
    BY DEF ServerExecute, runVars
  <1>2. CASE /\ Execute(call[o].kind, Current(o))
             /\ call' = [call EXCEPT ![o] = [kind |-> @.kind, status |-> "ok"]]
    <2>1. PICK p : p = Current(o)  OBVIOUS
    <2>2. Executed(o)  BY <1>1, <1>2 DEF Executed
    <2>3. Execute(call[o].kind, p)  BY <1>2, <2>1
    <2> QED
      BY <2>1, <2>2, <2>3, CopyKeeps, RenameKeeps, SwapKeeps, DropKeeps DEF Execute
  <1>3. CASE /\ call' = [call EXCEPT ![o] = [kind |-> @.kind, status |-> "failed"]]
             /\ UNCHANGED tree
    BY <1>1, <1>3, RefuseKeeps
  <1> QED  BY <1>2, <1>3 DEF ServerExecute

\* One more row, of those that count or not.
LEMMA OneMoreRow ==
  ASSUME NEW n \in Nat, NEW L
  PROVE  /\ (1..(n + 1)) \ L \subseteq ((1..n) \ L) \cup {n + 1}
         /\ (1..(n + 1)) \ (L \cup {n + 1}) \subseteq (1..n) \ L
  OBVIOUS

\* A row is written to the original, with the copy of a run there or not.
LEMMA WriteKeeps ==
  ASSUME Inv, NEW p \in Path, Write(p)
  PROVE  Inv'
  <1>1. Typed /\ OneOwner  BY DEF Inv
  <1>2. /\ UNCHANGED <<opt, pc, call, pos>>
        /\ tree[p]["orig"] # NoTable
        /\ written[p] < MaxWrites
    BY DEF Write, runVars
  <1> DEFINE n == written[p]
             old == tree[p]["orig"]
             new == [config |-> old.config, rows |-> old.rows \cup {n + 1}]
  <1>3. n \in 0..MaxWrites /\ n + 1 \in 1..MaxWrites
    BY <1>1, <1>2, WritesAssumption DEF Typed
  <1>4. tree[p] \in [Slot -> Table \cup {NoTable}]  BY <1>1 DEF Typed
  <1>5. old \in Table  BY <1>2, <1>4 DEF Slot
  <1>6. /\ old.config \in Config
        /\ old.rows \in SUBSET (1..MaxWrites)
    BY <1>5 DEF Table
  <1>7. /\ new \in Table
        /\ new.config = old.config
        /\ new.rows = old.rows \cup {n + 1}
    BY <1>3, <1>6 DEF Table
  <1>8. new # NoTable  BY <1>7, NoTableAssumption
  <1>9. tree' = [tree EXCEPT ![p] = [tree[p] EXCEPT !["orig"] = new]]
    BY DEF Write
  <1> HIDE DEF new, old, n
  <1>10. /\ tree' \in [Path -> [Slot -> Table \cup {NoTable}]]
         /\ \A r \in Path \ {p} : tree'[r] = tree[r]
         /\ tree'[p]["orig"] = new
         /\ tree'[p]["temp"] = tree[p]["temp"] /\ tree'[p]["bak"] = tree[p]["bak"]
    <2>1. [tree[p] EXCEPT !["orig"] = new] \in [Slot -> Table \cup {NoTable}]
      BY <1>4, <1>7
    <2> QED  BY <1>1, <1>4, <1>9, <2>1 DEF Typed, Slot
  <1>11. /\ written' \in [Path -> 0..MaxWrites]
         /\ written'[p] = n + 1
         /\ \A r \in Path \ {p} : written'[r] = written[r]
    <2>1. written' = [written EXCEPT ![p] = n + 1]  BY DEF Write, n
    <2>2. n + 1 \in 0..MaxWrites  BY <1>3, WritesAssumption
    <2> QED  BY <1>1, <2>1, <2>2 DEF Typed
  <1>12. /\ late' \in [Path -> SUBSET (1..MaxWrites)]
         /\ late'[p] = IF Replacing(p) THEN late[p] \cup {n + 1} ELSE late[p]
         /\ \A r \in Path \ {p} : late'[r] = late[r]
    <2>1. late' = IF Replacing(p) THEN [late EXCEPT ![p] = @ \cup {n + 1}] ELSE late
      BY DEF Write, n
    <2>2. CASE Replacing(p)  BY <1>1, <1>3, <2>1, <2>2 DEF Typed
    <2>3. CASE ~ Replacing(p)  BY <1>1, <2>1, <2>3 DEF Typed
    <2> QED  BY <2>2, <2>3
  <1>13. Typed'  BY <1>1, <1>2, <1>10, <1>11, <1>12 DEF Typed
  <1>14. \A q \in Operator : Still(q)  BY <1>2 DEF Still
  <1>15. /\ Kept(p)' \subseteq Kept(p) \cup {n + 1}
         /\ Replacing(p) => Kept(p)' \subseteq Kept(p)
    <2>1. n \in Nat  BY <1>3
    <2>2. CASE Replacing(p)
      BY <1>11, <1>12, <2>1, <2>2, OneMoreRow DEF Kept, n
    <2>3. CASE ~ Replacing(p)
      BY <1>11, <1>12, <2>1, <2>3, OneMoreRow DEF Kept, n
    <2> QED  BY <2>2, <2>3
  <1>16. \A r \in Path \ {p} : tree'[r] = tree[r] /\ Kept(r)' = Kept(r)
    BY <1>10, <1>11, <1>12 DEF Kept
  <1>17. ASSUME NEW q \in Operator
         PROVE  /\ Current(q)' = Current(q)
                /\ InStep(q)' /\ (Busy(q)' => Busy(q))
                /\ HasTemp(q)' <=> HasTemp(q)
                /\ HasBak(q)' <=> HasBak(q)
    <2>1. InStep(q)  BY DEF Inv
    <2> QED  BY <1>14, <2>1, StillPhase, OthersPhase
  <1>18. OneOwner'  BY <1>1, <1>17 DEF OneOwner
  <1>19. ASSUME NEW q \in Operator, Current(q) = p  PROVE Owns(q)'
    <2>1. Owns(q) /\ Still(q) /\ Current(q)' = p  BY <1>14, <1>17, <1>19 DEF Inv
    <2>2. ~ Moved(q)  BY <1>2, <1>19, <2>1 DEF Owns
    <2>3. Copied(q) \/ Verified(q) => Replacing(p)
      <3>1. Copied(q) \/ Verified(q) => pc[q] \in {"copy", "verifyTemp", "rename"}
        BY DEF Copied, Verified
      <3>2. Copied(q) \/ Verified(q) => tree[p]["temp"] # NoTable
        BY <1>19, <2>1 DEF Owns, HasTemp
      <3> QED  BY <1>19, <3>1, <3>2 DEF Replacing
    <2>4. Copied(q) \/ Verified(q) => Kept(p)' \subseteq tree[p]["temp"].rows
      BY <1>15, <1>19, <2>1, <2>3 DEF Owns
    <2>5. Kept(Current(q))' = Kept(p)'  BY <2>1 DEF Kept
    <2> QED
      BY <1>8, <1>10, <1>19, <2>1, <2>2, <2>4, <2>5, StillPhase DEF Owns, HasTemp, HasBak
  <1>20. Applicable(new) <=> Applicable(old)
    BY <1>2, <1>7, <1>8 DEF Applicable, old
  <1>21. Safe(p) => Safe(p)'
    <2>1. Safe(p) => \A s \in Slot : Applicable(tree[p][s])  BY DEF Safe
    <2> QED  BY <1>10, <1>20, <2>1 DEF Safe, Applicable, Slot, old
  <1>22. Classified(p)'
    <2>1. Classified(p)  BY DEF Inv
    <2>2. CASE Safe(p)  BY <1>21, <2>2 DEF Classified
    <2>3. CASE ~ Applicable(old)
      BY <1>10, <1>20, <2>3 DEF Classified, Applicable
    <2> QED  BY <2>1, <2>2, <2>3 DEF Classified, old
  <1>23. Good(p) => Good(p)'
    <2>1. SUFFICES ASSUME Good(p)  PROVE Good(p)'
      OBVIOUS
    <2>2. Repaired(old)  BY <1>2, <2>1 DEF Good, old
    <2>3. Repaired(new)  BY <1>7, <1>8, <2>2 DEF Repaired
    <2>4. Repaired(tree'[p]["orig"])  BY <1>10, <2>3
    <2>5. \E s \in Slot : Repaired(tree'[p][s])  BY <2>4 DEF Slot
    <2> QED  BY <2>4, <2>5 DEF Good
  <1>24. RowsKept(p)'
    <2>1. Kept(p) \subseteq old.rows  BY <1>2 DEF Inv, RowsKept, old
    <2>2. Kept(p)' \subseteq new.rows  BY <1>7, <1>15, <2>1
    <2> QED  BY <1>8, <1>10, <2>2 DEF RowsKept
  <1> QED
    BY <1>2, <1>13, <1>16, <1>17, <1>18, <1>19, <1>21, <1>22, <1>23, <1>24, PathKeeps

-----------------------------------------------------------------------------
(* The invariant holds.                                                    *)

LEMMA InitRight == Init => Inv
  <1> SUFFICES ASSUME Init  PROVE Inv
    OBVIOUS
  <1>1. PICK config \in [Path -> Config] :
          tree = [p \in Path |->
                   [s \in Slot |-> IF s = "orig" THEN [config |-> config[p], rows |-> {}]
                                                 ELSE NoTable]]
    BY DEF Init
  <1>2. /\ written = [p \in Path |-> 0] /\ late = [p \in Path |-> {}]
        /\ pc = [o \in Operator |-> IF Tables = << >> THEN "done" ELSE "describe"]
        /\ pos = [o \in Operator |-> 1]
        /\ call = [o \in Operator |-> NoCall]
    BY DEF Init
  <1>3. ASSUME NEW p \in Path
        PROVE  /\ tree[p] \in [Slot -> Table \cup {NoTable}]
               /\ tree[p]["orig"] = [config |-> config[p], rows |-> {}]
               /\ tree[p]["orig"] \in Table
               /\ tree[p]["temp"] = NoTable /\ tree[p]["bak"] = NoTable
               /\ Kept(p) = {}
    <2> DEFINE first == [config |-> config[p], rows |-> {}]
    <2>1. first \in Table  BY <1>1 DEF Table
    <2>2. tree[p] = [s \in Slot |-> IF s = "orig" THEN first ELSE NoTable]  BY <1>1
    <2>3. Kept(p) = {}  BY <1>2 DEF Kept
    <2> HIDE DEF first
    <2>4. /\ tree[p] \in [Slot -> Table \cup {NoTable}]
          /\ tree[p]["orig"] = first
          /\ tree[p]["temp"] = NoTable /\ tree[p]["bak"] = NoTable
      BY <2>1, <2>2 DEF Slot
    <2> QED  BY <2>1, <2>3, <2>4 DEF first
  <1>4. Typed
    <2>1. tree \in [Path -> [Slot -> Table \cup {NoTable}]]  BY <1>1, <1>3
    <2>2. /\ written \in [Path -> 0..MaxWrites]
          /\ late \in [Path -> SUBSET (1..MaxWrites)]
      BY <1>2, WritesAssumption
    <2>3. /\ pc \in [Operator -> PC] /\ pos \in [Operator -> Nat \ {0}]
          /\ call \in [Operator -> Call]
      BY <1>2 DEF PC, Ended, Call
    <2> QED  BY <2>1, <2>2, <2>3 DEF Typed
  <1>5. Len(Tables) \in Nat /\ (Tables = << >> <=> Len(Tables) = 0)
    BY TablesAssumption
  <1>6. ASSUME NEW o \in Operator
        PROVE  /\ ~ HasTemp(o) /\ ~ HasBak(o) /\ ~ Busy(o)
               /\ InStep(o) /\ Owns(o) /\ Cleared(o) /\ Finished(o)
    <2>1. pc[o] \in {"done", "describe"} /\ call[o] = NoCall /\ pos[o] = 1  BY <1>2
    <2>2. ~ HasTemp(o) /\ ~ HasBak(o)
      BY <2>1 DEF HasTemp, HasBak, Copied, Verified, Orphan, Moved, Placed
    <2>3. ~ Busy(o)  BY <2>1 DEF Busy, Ended
    <2>4. InStep(o)
      <3>1. pc[o] = "done" <=> Tables = << >>  BY <1>2
      <3> QED  BY <1>5, <2>1, <3>1 DEF InStep, Calling
    <2>5. Owns(o)  BY <2>2 DEF Owns, HasTemp, HasBak
    <2>6. Cleared(o)  BY <2>3 DEF Cleared
    <2>7. Finished(o)  BY <1>5, <2>1 DEF Finished
    <2> QED  BY <2>2, <2>3, <2>4, <2>5, <2>6, <2>7
  <1>7. OneOwner  BY <1>6 DEF OneOwner
  <1>8. ASSUME NEW p \in Path  PROVE RowsKept(p) /\ Classified(p)
    <2>1. RowsKept(p)  BY <1>3, NoTableAssumption DEF RowsKept
    <2>2. Classified(p)
      BY <1>3 DEF Classified, Safe, Applicable, Slot
    <2> QED  BY <2>1, <2>2
  <1> QED  BY <1>4, <1>6, <1>7, <1>8 DEF Inv

LEMMA NextKeeps == Inv /\ [Next]_vars => Inv'
  <1> SUFFICES ASSUME Inv, [Next]_vars  PROVE Inv'
    OBVIOUS
  <1>1. ASSUME NEW o \in Operator, RunStep(o)  PROVE Inv'
    BY <1>1, AssertNeedsRepairKeeps, CheckTempKeeps, CheckBakKeeps, SendKeeps,
       ReceiveKeeps, VerifyTempKeeps, VerifyOrigKeeps DEF RunStep
  <1>2. ASSUME NEW o \in Operator, GiveUp(o)  PROVE Inv'
    BY <1>2, StopKeeps DEF GiveUp
  <1>3. ASSUME NEW o \in Operator, ServerExecute(o)  PROVE Inv'
    BY <1>3, ServerExecuteKeeps
  <1>4. ASSUME NEW p \in Path, Write(p)  PROVE Inv'
    BY <1>4, WriteKeeps
  <1>5. CASE UNCHANGED vars
    BY <1>5 DEF vars, Inv, Typed, OneOwner, InStep, Owns, Cleared, Finished, RowsKept,
       Classified, Safe, Applicable, Good, Kept, Busy, Current, HasTemp, HasBak, Copied,
       Verified, Orphan, Moved, Placed
  <1> QED  BY <1>1, <1>2, <1>3, <1>4, <1>5 DEF Next, Terminated

\* The invariant, for all values of the constants.
THEOREM Invariance == Spec => []Inv
  BY InitRight, NextKeeps, PTL DEF Spec

-----------------------------------------------------------------------------
(* What follows from it                                                    *)

\* No acknowledged row is lost, whatever runs overlap, are killed or are started
\* again: client.go sends the operations, and the helper paths keep two runs
\* from using the same copy or the same backup.
THEOREM RowsAreKept == Spec => []RowsSurvive
  <1>1. Inv => RowsSurvive
    <2> SUFFICES ASSUME Inv, NEW p \in Path
                 PROVE  Kept(p) \subseteq UNION {Rows(tree[p][s]) : s \in Slot}
      BY DEF RowsSurvive, Kept
    <2>1. RowsKept(p)  BY DEF Inv
    <2>2. CASE tree[p]["orig"] # NoTable
      <3>1. Kept(p) \subseteq Rows(tree[p]["orig"])  BY <2>1, <2>2 DEF RowsKept, Rows
      <3>2. "orig" \in Slot  BY DEF Slot
      <3> QED  BY <3>1, <3>2
    <2>3. CASE tree[p]["orig"] = NoTable
      <3>1. Kept(p) \subseteq Rows(tree[p]["bak"])  BY <2>1, <2>3 DEF RowsKept, Rows
      <3>2. "bak" \in Slot  BY DEF Slot
      <3> QED  BY <3>1, <3>2
    <2> QED  BY <2>2, <2>3
  <1> QED  BY <1>1, Invariance, PTL

\* Between the two renames of repairOne, and after a second one that failed, the
\* table can be put together again by hand.
THEOREM GapsAreRecoverable == Spec => []GapIsRecoverable
  <1>1. Inv => GapIsRecoverable
    BY DEF Inv, RowsKept, GapIsRecoverable, Kept, Rows
  <1> QED  BY <1>1, Invariance, PTL

\* Run returns without an error only when each listed table is repaired, and no
\* other run undoes it.
THEOREM DoneIsRepaired == Spec => []DoneMeansRepaired
  <1>1. Inv => DoneMeansRepaired
    <2> SUFFICES ASSUME Inv, NEW o \in Operator, pc[o] = "done", ~ opt[o].dryRun,
                        NEW i \in 1..Len(Tables)
                 PROVE  Good(Tables[i])
      BY DEF DoneMeansRepaired, Good
    <2>1. InStep(o) /\ Finished(o)  BY DEF Inv
    <2>2. Len(Tables) \in Nat  BY TablesAssumption
    <2>3. i < pos[o]  BY <2>1, <2>2 DEF InStep
    <2> QED  BY <2>1, <2>3 DEF Finished
  <1> QED  BY <1>1, Invariance, PTL

\* What one step does to a table the procedure is not applicable to.
LEMMA UnsafeStep ==
  ASSUME Inv, [Next]_vars, NEW p \in Path, NEW s \in Slot, ~ Applicable(tree[p][s])
  PROVE  tree'[p][s] # NoTable /\ tree'[p][s].config = tree[p][s].config
  <1>1. tree[p][s] # NoTable  BY DEF Applicable
  <1>2. ASSUME NEW o \in Operator, ServerExecute(o), tree' # tree
        PROVE  tree'[p] = tree[p]
    <2>1. Execute(call[o].kind, Current(o)) /\ Executed(o)
      BY <1>2 DEF ServerExecute, Executed, runVars
    <2>2. PICK r : r = Current(o)  OBVIOUS
    <2>3. r \in Path /\ Safe(r)  BY <2>1, <2>2, ExecutedFrame
    <2>4. r # p  BY <2>3 DEF Safe
    <2>5. Typed /\ Execute(call[o].kind, r)  BY <2>1, <2>2 DEF Inv
    <2>6. \/ ExecuteCopy(r)
          \/ ExecuteMove(r, "orig", "bak")
          \/ ExecuteMove(r, "temp", "orig")
          \/ ExecuteDrop(r)
      BY <2>5 DEF Execute
    <2>7. CASE ExecuteCopy(r)  BY <2>3, <2>4, <2>5, <2>7 DEF ExecuteCopy, Typed
    <2>8. CASE ExecuteMove(r, "orig", "bak")
      BY <2>3, <2>4, <2>5, <2>8, MoveShape DEF Slot
    <2>9. CASE ExecuteMove(r, "temp", "orig")
      BY <2>3, <2>4, <2>5, <2>9, MoveShape DEF Slot
    <2>10. CASE ExecuteDrop(r)  BY <2>3, <2>4, <2>5, <2>10 DEF ExecuteDrop, Typed
    <2> QED  BY <2>6, <2>7, <2>8, <2>9, <2>10
  <1>3. ASSUME NEW r \in Path, Write(r)
        PROVE  tree'[p][s] # NoTable /\ tree'[p][s].config = tree[p][s].config
    <2> DEFINE old == tree[r]["orig"]
               new == [config |-> old.config, rows |-> old.rows \cup {written[r] + 1}]
    <2>1. tree' = [tree EXCEPT ![r] = [tree[r] EXCEPT !["orig"] = new]]
      BY <1>3 DEF Write
    <2>2. new.config = old.config  OBVIOUS
    <2>3. new # NoTable
      <3>1. written[r] + 1 \in 1..MaxWrites
        <4>1. written[r] \in 0..MaxWrites /\ written[r] < MaxWrites
          BY <1>3 DEF Inv, Typed, Write
        <4> QED  BY <4>1, WritesAssumption
      <3>2. old \in Table
        <4>1. tree[r] \in [Slot -> Table \cup {NoTable}] /\ old # NoTable
          BY <1>3 DEF Inv, Typed, Write
        <4> QED  BY <4>1 DEF Slot
      <3>3. new \in Table  BY <3>1, <3>2 DEF Table
      <3> QED  BY <3>3, NoTableAssumption
    <2> HIDE DEF new
    <2>4. CASE r = p /\ s = "orig"
      BY <2>1, <2>2, <2>3, <2>4 DEF Inv, Typed, Slot
    <2>5. CASE r # p \/ s # "orig"
      <3>1. tree'[p][s] = tree[p][s]  BY <2>1, <2>5 DEF Inv, Typed, Slot
      <3> QED  BY <1>1, <3>1
    <2> QED  BY <2>4, <2>5
  <1>4. CASE tree' = tree  BY <1>1, <1>4
  <1>5. ASSUME NEW o \in Operator, RunStep(o) \/ GiveUp(o)  PROVE tree' = tree
    BY <1>5 DEF RunStep, GiveUp, AssertNeedsRepair, CheckTemp, CheckBak, Send, Receive,
       VerifyTemp, VerifyOrig, Stop, serverVars
  <1> QED  BY <1>1, <1>2, <1>3, <1>4, <1>5 DEF Next, Terminated, vars

\* A table with a channel profile is never touched: assertNeedsRepair refuses it,
\* and nothing that is sent for its path is ever executed on it.
THEOREM UnsafeIsUntouched == Spec => UnsafeUntouched
  <1>1. Inv /\ [Next]_vars =>
          [\A p \in Path, s \in Slot :
             tree[p][s] # NoTable /\ tree[p][s].config.channelProfile =>
               tree'[p][s] # NoTable /\ tree'[p][s].config = tree[p][s].config]_tree
    BY UnsafeStep DEF Applicable
  <1> QED  BY <1>1, Invariance, PTL DEF Spec, UnsafeUntouched
=============================================================================
