---------------------------- MODULE RepairTables ----------------------------
(***************************************************************************)
(* admin/repair-legacy-tables, the repair command: for each listed table   *)
(* make a copy that has a StorageConfig, rename the table to <name>_bak    *)
(* and the copy to <name>, and drop the backup when asked to.              *)
(*                                                                         *)
(* Each run of the program is an operator; runs may overlap, and a run     *)
(* that starts after another was killed is the rerun of a batch.  The      *)
(* scheme tree is external: it executes an operation some time after it    *)
(* was sent, even when the program that sent it has given up waiting.      *)
(* Applications go on writing rows under the original path.                *)
(***************************************************************************)
EXTENDS Naturals, Sequences

CONSTANTS
  Operator,    \* the runs of the program
  Path,        \* the tables of the database
  Tables,      \* the paths of the tables file, in order, without duplicates
  NoTable,     \* what a path holds when it does not exist
  MaxWrites    \* bound: rows the applications write to one table

ASSUME TablesAssumption ==
  /\ Tables \in Seq(Path)
  /\ \A i, j \in 1..Len(Tables) : Tables[i] = Tables[j] => i = j

ASSUME WritesAssumption == MaxWrites \in Nat

VARIABLES
  tree,      \* tree[p][s]: the table at the original, temp_ or _bak path of p
  written,   \* written[p]: rows acknowledged to the applications
  late,      \* late[p]: those written between a run's copy and its rename
  opt,       \* the options of each run
  pc, pos,   \* the step of each run, and its place in Tables
  call,      \* the scheme operation of each run
  printed,   \* paths each run has written to stdout
  count      \* repair.Result of each run

serverVars == <<tree, written, late>>
runVars    == <<pos, printed, count>>
vars == <<tree, written, late, opt, pc, pos, call, printed, count>>

Slot == {"orig", "temp", "bak"}

\* A PartitionConfig, as far as the classification looks at it.
Config == [channelProfile : BOOLEAN, family0 : {"absent", "noStorage", "usable"}]

Table == [config : Config, rows : SUBSET (1..MaxWrites)]

ASSUME NoTableAssumption == NoTable \notin Table

Calling == {"copy", "rename", "swap", "drop"}
Ended   == {"done", "stopped"}
PC == {"describe", "checkTemp", "checkBak", "verifyTemp", "verifyOrig"}
        \cup Calling \cup Ended

\* A SchemeOperation that was never sent, was sent, or has been executed.
NoCall == [kind |-> "none", status |-> "none"]
Call   == {NoCall} \cup [kind : Calling, status : {"sent", "ok", "failed"}]

TypeOK ==
  /\ tree \in [Path -> [Slot -> Table \cup {NoTable}]]
  /\ written \in [Path -> 0..MaxWrites]
  /\ late \in [Path -> SUBSET (1..MaxWrites)]
  /\ opt \in [Operator -> [dropBackup : BOOLEAN, dryRun : BOOLEAN]]
  /\ pc \in [Operator -> PC]
  /\ pos \in [Operator -> 1..(Len(Tables) + 1)]
  /\ call \in [Operator -> Call]
  /\ printed \in [Operator -> SUBSET Path]
  /\ count \in [Operator -> [repaired : Nat, skipped : Nat, dropped : Nat]]

\* Only the original paths exist.  With an empty list there is nothing to do.
Init ==
  /\ \E config \in [Path -> Config] :
       tree = [p \in Path |->
                [s \in Slot |-> IF s = "orig" THEN [config |-> config[p], rows |-> {}]
                                              ELSE NoTable]]
  /\ written = [p \in Path |-> 0]
  /\ late = [p \in Path |-> {}]
  /\ opt \in [Operator -> [dropBackup : BOOLEAN, dryRun : BOOLEAN]]
  /\ pc = [o \in Operator |-> IF Tables = << >> THEN "done" ELSE "describe"]
  /\ pos = [o \in Operator |-> 1]
  /\ call = [o \in Operator |-> NoCall]
  /\ printed = [o \in Operator |-> {}]
  /\ count = [o \in Operator |-> [repaired |-> 0, skipped |-> 0, dropped |-> 0]]

-----------------------------------------------------------------------------
(* internal/legacy                                                         *)

\* Mutant of ClassifyPartitionConfig: ChannelProfileId is not looked at.
ClassifyByFamily(c) ==
  IF c.family0 = "usable" THEN "already_repaired" ELSE "needs_repair"

ClassifyPartitionConfig(c) ==
  IF c.channelProfile THEN "unsafe"
  ELSE IF c.family0 = "usable" THEN "already_repaired"
  ELSE "needs_repair"

Repaired(table) ==
  table # NoTable /\ ClassifyPartitionConfig(table.config) = "already_repaired"

-----------------------------------------------------------------------------
(* The scheme tree: what an operation does to the paths of its table.      *)

\* CREATE TABLE ... CopyFromTable: the copy has the rows of this moment.  The
\* server may leave the storage config as it was.
ExecuteCopy(p) ==
  /\ tree[p]["orig"] # NoTable
  /\ tree[p]["temp"] = NoTable
  /\ \E c \in {[channelProfile |-> FALSE, family0 |-> "usable"],
               tree[p]["orig"].config} :
       tree' = [tree EXCEPT ![p]["temp"] =
                  [config |-> c, rows |-> tree[p]["orig"].rows]]

ExecuteMove(p, src, dst) ==
  /\ tree[p][src] # NoTable
  /\ tree[p][dst] = NoTable
  /\ tree' = [tree EXCEPT ![p][dst] = tree[p][src], ![p][src] = NoTable]

ExecuteDrop(p) ==
  /\ tree[p]["bak"] # NoTable
  /\ tree' = [tree EXCEPT ![p]["bak"] = NoTable]

Execute(kind, p) ==
  \/ kind = "copy" /\ ExecuteCopy(p)
  \/ kind = "rename" /\ ExecuteMove(p, "orig", "bak")
  \/ kind = "swap" /\ ExecuteMove(p, "temp", "orig")
  \/ kind = "drop" /\ ExecuteDrop(p)

-----------------------------------------------------------------------------
(* The steps of a run.                                                     *)

Current(o) == Tables[pos[o]]

Goto(o, where) == pc' = [pc EXCEPT ![o] = where]

\* Mutant of Stop: the batch goes on after an error.
StopThisTable(o) ==
  /\ pos' = [pos EXCEPT ![o] = @ + 1]
  /\ Goto(o, IF pos[o] = Len(Tables) THEN "done" ELSE "describe")
  /\ UNCHANGED <<serverVars, opt, call, printed, count>>

\* Any error ends the batch: Run stops at the first one.
Stop(o) == Goto(o, "stopped") /\ UNCHANGED <<serverVars, opt, call, runVars>>

\* Run goes to the next table of the list.
NextTable(o) ==
  /\ pos' = [pos EXCEPT ![o] = @ + 1]
  /\ Goto(o, IF pos[o] = Len(Tables) THEN "done" ELSE "describe")

\* repairOne returned without an error.
Report(o, dropped) ==
  /\ printed' = [printed EXCEPT ![o] = @ \cup {Current(o)}]
  /\ count' = [count EXCEPT ![o].repaired = @ + 1,
                            ![o].dropped = IF dropped THEN @ + 1 ELSE @]
  /\ NextTable(o)

\* assertNeedsRepair: the original is described and classified.
AssertNeedsRepair(o) ==
  /\ pc[o] = "describe"
  /\ LET table == tree[Current(o)]["orig"]
         status == IF table = NoTable THEN "error"
                   ELSE ClassifyPartitionConfig(table.config)
     IN \/ /\ status \in {"error", "unsafe"}
           /\ Stop(o)
        \/ /\ status = "already_repaired"
           /\ count' = [count EXCEPT ![o].skipped = @ + 1]
           /\ NextTable(o)
           /\ UNCHANGED <<serverVars, opt, call, printed>>
        \/ /\ status = "needs_repair"
           /\ Goto(o, "checkTemp")
           /\ UNCHANGED <<serverVars, opt, call, runVars>>

\* Mutant of CheckTemp: the copy an earlier run has left is used.
CheckTempAndResume(o) ==
  /\ pc[o] = "checkTemp"
  /\ Goto(o, IF tree[Current(o)]["temp"] # NoTable THEN "verifyTemp" ELSE "checkBak")
  /\ UNCHANGED <<serverVars, opt, call, runVars>>

\* PathExists on the temporary path, then on the backup path.
CheckTemp(o) ==
  /\ pc[o] = "checkTemp"
  /\ IF tree[Current(o)]["temp"] # NoTable
     THEN Stop(o)
     ELSE Goto(o, "checkBak") /\ UNCHANGED <<serverVars, opt, call, runVars>>

\* After it a dry run reports the table, and its backup as dropped if asked.
CheckBak(o) ==
  /\ pc[o] = "checkBak"
  /\ IF tree[Current(o)]["bak"] # NoTable
     THEN Stop(o)
     ELSE IF opt[o].dryRun
     THEN Report(o, opt[o].dropBackup) /\ UNCHANGED <<serverVars, opt, call>>
     ELSE Goto(o, "copy") /\ UNCHANGED <<serverVars, opt, call, runVars>>

\* SchemeOperation is sent.
Send(o) ==
  /\ pc[o] \in Calling
  /\ call[o] = NoCall
  /\ call' = [call EXCEPT ![o] = [kind |-> pc[o], status |-> "sent"]]
  /\ UNCHANGED <<serverVars, opt, pc, runVars>>

\* What follows the answer MSTATUS_OK, at once or to the poll of an operation
\* in progress.
AfterCall(o) ==
  CASE pc[o] = "copy"   -> Goto(o, "verifyTemp") /\ UNCHANGED runVars
    [] pc[o] = "rename" -> Goto(o, "swap") /\ UNCHANGED runVars
    [] pc[o] = "swap"   -> Goto(o, "verifyOrig") /\ UNCHANGED runVars
    [] pc[o] = "drop"   -> Report(o, TRUE)

\* Mutant of Receive: the operation is polled until it is done, and a failure
\* is not seen.
ReceiveOk(o) ==
  /\ pc[o] \in Calling
  /\ call[o].status = "ok"
  /\ call' = [call EXCEPT ![o] = NoCall]
  /\ AfterCall(o)
  /\ UNCHANGED <<serverVars, opt>>

Receive(o) ==
  /\ pc[o] \in Calling
  /\ call[o].status \in {"ok", "failed"}
  /\ call' = [call EXCEPT ![o] = NoCall]
  /\ IF call[o].status = "ok" THEN AfterCall(o)
                              ELSE Goto(o, "stopped") /\ UNCHANGED runVars
  /\ UNCHANGED <<serverVars, opt>>

\* Mutant of VerifyTemp: the copy is not looked at.
TrustTemp(o) ==
  /\ pc[o] = "verifyTemp"
  /\ Goto(o, "rename")
  /\ UNCHANGED <<serverVars, opt, call, runVars>>

\* assertRepaired(tempPath)
VerifyTemp(o) ==
  /\ pc[o] = "verifyTemp"
  /\ IF Repaired(tree[Current(o)]["temp"])
     THEN Goto(o, "rename") /\ UNCHANGED <<serverVars, opt, call, runVars>>
     ELSE Stop(o)

\* assertRepaired(path)
VerifyOrig(o) ==
  /\ pc[o] = "verifyOrig"
  /\ IF ~ Repaired(tree[Current(o)]["orig"])
     THEN Stop(o)
     ELSE IF opt[o].dropBackup
     THEN Goto(o, "drop") /\ UNCHANGED <<serverVars, opt, call, runVars>>
     ELSE Report(o, FALSE) /\ UNCHANGED <<serverVars, opt, call>>

\* The run ends early: a request fails or times out, the operation is still in
\* progress after the poll, or the program is interrupted or killed.  What it
\* has sent may still be executed.
GiveUp(o) ==
  /\ pc[o] \notin Ended
  /\ Stop(o)

\* The server executes an operation, or refuses it.
ServerExecute(o) ==
  /\ call[o].status = "sent"
  /\ \/ /\ Execute(call[o].kind, Current(o))
        /\ call' = [call EXCEPT ![o] = [kind |-> @.kind, status |-> "ok"]]
     \/ /\ call' = [call EXCEPT ![o] = [kind |-> @.kind, status |-> "failed"]]
        /\ UNCHANGED tree
  /\ UNCHANGED <<written, late, opt, pc, runVars>>

\* A run is between the copy of the table and the rename of the original.
Replacing(p) ==
  /\ tree[p]["temp"] # NoTable
  /\ \E o \in Operator :
       pc[o] \in {"copy", "verifyTemp", "rename"} /\ Current(o) = p

\* An application writes a row under the original path.
Write(p) ==
  /\ written[p] < MaxWrites
  /\ tree[p]["orig"] # NoTable
  /\ written' = [written EXCEPT ![p] = @ + 1]
  /\ tree' = [tree EXCEPT ![p]["orig"] =
                [config |-> @.config, rows |-> @.rows \cup {written[p] + 1}]]
  /\ late' = IF Replacing(p) THEN [late EXCEPT ![p] = @ \cup {written[p] + 1}]
                             ELSE late
  /\ UNCHANGED <<opt, pc, call, runVars>>

RunStep(o) ==
  \/ AssertNeedsRepair(o) \/ CheckTemp(o) \/ CheckBak(o) \/ Send(o)
  \/ Receive(o) \/ VerifyTemp(o) \/ VerifyOrig(o)

Terminated == (\A o \in Operator : pc[o] \in Ended) /\ UNCHANGED vars

Next ==
  \/ \E o \in Operator : RunStep(o) \/ GiveUp(o) \/ ServerExecute(o)
  \/ \E p \in Path : Write(p)
  \/ Terminated

Spec == Init /\ [][Next]_vars

\* The program runs, and the server answers or the call times out.
FairSpec == Spec /\ \A o \in Operator : WF_vars(RunStep(o)) /\ WF_vars(ServerExecute(o))

-----------------------------------------------------------------------------
(* Properties                                                              *)

Rows(table) == IF table = NoTable THEN {} ELSE table.rows

\* No acknowledged row is lost, whatever runs are killed, overlap or are started
\* again, except one written to the original while a run that has made its
\* copy is about to rename it: with --drop-backup such a row goes with the
\* backup.
RowsSurvive ==
  \A p \in Path :
    (1..written[p]) \ late[p] \subseteq UNION {Rows(tree[p][s]) : s \in Slot}

\* While nothing is at the original path, the backup has every row that is not
\* late and the copy that is to replace it is there: what a failed second
\* rename leaves can be put right by hand.
GapIsRecoverable ==
  \A p \in Path :
    tree[p]["orig"] = NoTable =>
      /\ (1..written[p]) \ late[p] \subseteq Rows(tree[p]["bak"])
      /\ Repaired(tree[p]["temp"])

\* A run that ends without an error leaves no listed table legacy: what is at
\* the original path then and later is repaired.  Nothing is there only while,
\* or after, another run is between its two renames; the repaired table is then
\* at one of the other paths.
DoneMeansRepaired ==
  \A o \in Operator :
    pc[o] = "done" /\ ~ opt[o].dryRun =>
      \A i \in 1..Len(Tables) :
        LET t == tree[Tables[i]] IN
        /\ t["orig"] = NoTable \/ Repaired(t["orig"])
        /\ \E s \in Slot : Repaired(t[s])

\* A table the procedure is not applicable to is never touched.
UnsafeUntouched ==
  [][\A p \in Path, s \in Slot :
       tree[p][s] # NoTable /\ tree[p][s].config.channelProfile =>
         tree'[p][s] # NoTable /\ tree'[p][s].config = tree[p][s].config]_tree

\* Every run ends.
RunsEnd == \A o \in Operator : <>(pc[o] \in Ended)
=============================================================================
