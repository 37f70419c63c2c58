---------------------------- MODULE VdiskCompact ----------------------------
(***************************************************************************)
(* admin/viewer/vdisk_compact.py: compact or defragment VDisks through the *)
(* pages of their nodes.  A thread pool works on the storage groups, each  *)
(* worker on the VDisks of its group one after the other, and on the       *)
(* operations of a VDisk one after the other.  After each request it polls *)
(* a page until the operation seems to be over.                            *)
(*                                                                         *)
(* The VDisk is external: it accepts an operation, shows it on its page    *)
(* some time later, and finishes it.  A poll that fails is made again and  *)
(* changes nothing.  Nothing is assumed about how long an operation needs  *)
(* to show, or an answer to come, against the time it is given to appear.  *)
(***************************************************************************)
EXTENDS Naturals, Sequences, FiniteSets

CONSTANTS
  VDisk,      \* the VDisks of the cluster
  Inputs,     \* what a run may be asked for, see Input
  Threads     \* --threads

\* The selected VDisks by group, both in the order of vdisk_sort_key; a VDisk
\* given twice in --vdisk-ids is there twice.  The group of a VDisk is part of
\* its id.
Modes == {"compact-full", "compact-logoblobs", "compact-blocks",
          "compact-barriers", "defrag"}
Input == [groups : Seq(Seq(VDisk)), mode : Modes, wait : BOOLEAN, dryRun : BOOLEAN]

ASSUME InputsAssumption ==
  /\ Threads \in Nat \ {0}
  /\ Inputs \subseteq Input
  /\ \A i \in Inputs : \A g \in DOMAIN i.groups : i.groups[g] # << >>
  /\ \A i \in Inputs : \A g, h \in DOMAIN i.groups : \A m \in DOMAIN i.groups[g] :
       \A n \in DOMAIN i.groups[h] : i.groups[g][m] = i.groups[h][n] => g = h

VARIABLES
  input,      \* the VDisks and the options
  pc,         \* the step of each group's task
  at, op,     \* its VDisk, and the operation of that, as positions
  page,       \* the state a poll has read
  saw,        \* saw_in_progress
  expired,    \* deadline_to_appear has passed
  blind,      \* history: what a group's deadline passed on unseen, see Unseen,
              \* as <<position, position>> of the VDisk and the operation
  failed,     \* failed[g]: `errors` of process_group, as positions
  progress,   \* Progress.done and Progress.errors
  collected,  \* length of all_errors, in the main thread
  state,      \* state[v][o]: what the VDisk does about operation o
  carried     \* history: <<v, o>> that v has finished

task   == <<pc, at, op, page, saw, expired, blind, failed>>
vdisks == <<state, carried>>
vars   == <<input, task, progress, collected, vdisks>>

Operation == {"LogoBlobs", "Blocks", "Barriers", "defrag"}

\* resolve_mode, in the order of process_vdisk.
ResolveMode(mode) ==
  CASE mode = "compact-full"      -> <<"LogoBlobs", "Blocks", "Barriers">>
    [] mode = "compact-logoblobs" -> <<"LogoBlobs">>
    [] mode = "compact-blocks"    -> <<"Blocks">>
    [] mode = "compact-barriers"  -> <<"Barriers">>
    [] mode = "defrag"            -> <<"defrag">>

Group      == DOMAIN input.groups
Operations == ResolveMode(input.mode)
VDiskOf(g) == input.groups[g][at[g]]
OpOf(g)    == Operations[op[g]]
Size(g)    == Len(input.groups[g])

Running == {"request", "poll", "check"}

TypeOK ==
  /\ input \in Inputs
  /\ pc \in [Group -> Running \cup {"queued", "finished", "collected"}]
  /\ \A g \in Group : at[g] \in 1..Size(g) /\ op[g] \in 1..Len(Operations)
  /\ page \in [Group -> {"none", "In progress", "No compaction"}]
  /\ saw \in [Group -> BOOLEAN]
  /\ expired \in [Group -> BOOLEAN]
  /\ \A g \in Group : blind[g] \subseteq (1..Size(g)) \X (1..Len(Operations))
  /\ \A g \in Group : failed[g] \subseteq 1..at[g]
  /\ progress \in [done : Nat, errors : Nat]
  /\ collected \in Nat
  /\ state \in [VDisk -> [Operation -> {"idle", "requested", "active"}]]
  /\ carried \subseteq VDisk \X Operation

Init ==
  /\ input \in Inputs
  /\ pc = [g \in Group |-> "queued"]
  /\ at = [g \in Group |-> 1]
  /\ op = [g \in Group |-> 1]
  /\ page = [g \in Group |-> "none"]
  /\ saw = [g \in Group |-> FALSE]
  /\ expired = [g \in Group |-> FALSE]
  /\ blind = [g \in Group |-> {}]
  /\ failed = [g \in Group |-> {}]
  /\ progress = [done |-> 0, errors |-> 0]
  /\ collected = 0
  /\ state = [v \in VDisk |-> [o \in Operation |-> "idle"]]
  /\ carried = {}

Goto(g, next) == pc' = [pc EXCEPT ![g] = next]

-----------------------------------------------------------------------------
(* The thread pool and process_group.                                      *)

Busy == {g \in Group : pc[g] \in Running}

\* ThreadPool: a free worker takes the next task.
StartGroup(g) ==
  /\ pc[g] = "queued"
  /\ \A h \in Group : h < g => pc[h] # "queued"
  /\ Cardinality(Busy) < Threads
  /\ Goto(g, "request")
  /\ UNCHANGED <<input, at, op, page, saw, expired, blind, failed, progress, collected, vdisks>>

\* process_vdisk has returned or raised: mark_done, under the lock of Progress,
\* and the next VDisk of the group.
NextVDisk(g, ok) ==
  /\ failed' = IF ok THEN failed ELSE [failed EXCEPT ![g] = @ \cup {at[g]}]
  /\ progress' = [done   |-> progress.done + 1,
                  errors |-> IF ok THEN progress.errors ELSE progress.errors + 1]
  /\ IF at[g] < Size(g)
     THEN at' = [at EXCEPT ![g] = @ + 1] /\ op' = [op EXCEPT ![g] = 1] /\ Goto(g, "request")
     ELSE UNCHANGED <<at, op>> /\ Goto(g, "finished")

\* The next operation of the VDisk, or the next VDisk.
NextOperation(g) ==
  IF op[g] < Len(Operations)
  THEN op' = [op EXCEPT ![g] = @ + 1] /\ Goto(g, "request")
       /\ UNCHANGED <<at, failed, progress>>
  ELSE NextVDisk(g, TRUE)

-----------------------------------------------------------------------------
(* process_vdisk                                                           *)

\* The VDisk accepts an operation; one it is at work on goes on.
Accept(v, o) ==
  state' = IF state[v][o] = "idle" THEN [state EXCEPT ![v][o] = "requested"] ELSE state

\* A dry run only lists the operations of the VDisk.
List(g) ==
  /\ pc[g] = "request"
  /\ input.dryRun
  /\ NextVDisk(g, TRUE)
  /\ UNCHANGED <<input, page, saw, expired, blind, collected, vdisks>>

\* start_vdisk_action is answered with a status below 400.
Request(g) ==
  /\ pc[g] = "request"
  /\ ~input.dryRun
  /\ Accept(VDiskOf(g), OpOf(g))
  /\ IF input.wait
     THEN /\ Goto(g, "poll")
          /\ saw' = [saw EXCEPT ![g] = FALSE]
          /\ expired' = [expired EXCEPT ![g] = FALSE]
          /\ UNCHANGED <<at, op, failed, progress>>
     ELSE NextOperation(g) /\ UNCHANGED <<saw, expired>>
  /\ UNCHANGED <<input, page, blind, collected, carried>>

\* Mutant of RequestFails: only this operation is given up, and no error is kept.
RequestFailsQuietly(g) ==
  /\ pc[g] = "request"
  /\ ~input.dryRun
  /\ Accept(VDiskOf(g), OpOf(g)) \/ UNCHANGED state
  /\ NextOperation(g)
  /\ UNCHANGED <<input, page, saw, expired, blind, collected, carried>>

\* It is answered with an error, or not answered within HTTP_TIMEOUT although
\* the VDisk may have accepted it: the rest of the VDisk is left out.
RequestFails(g) ==
  /\ pc[g] = "request"
  /\ ~input.dryRun
  /\ Accept(VDiskOf(g), OpOf(g)) \/ UNCHANGED state
  /\ NextVDisk(g, FALSE)
  /\ UNCHANGED <<input, page, saw, expired, blind, collected, carried>>

-----------------------------------------------------------------------------
(* wait_until_idle                                                         *)

\* parse_panel_state of the page of the operation: the panel shows only what
\* is active.
Poll(g) ==
  /\ pc[g] = "poll"
  /\ page' = [page EXCEPT ![g] =
       IF state[VDiskOf(g)][OpOf(g)] = "active" THEN "In progress" ELSE "No compaction"]
  /\ Goto(g, "check")
  /\ UNCHANGED <<input, at, op, saw, expired, blind, failed, progress, collected, vdisks>>

\* Mutant of Check: there is no time for an operation to appear.
CheckAtOnce(g) ==
  /\ pc[g] = "check"
  /\ page' = [page EXCEPT ![g] = "none"]
  /\ IF page[g] = "In progress"
     THEN saw' = [saw EXCEPT ![g] = TRUE] /\ Goto(g, "poll")
          /\ UNCHANGED <<at, op, failed, progress>>
     ELSE NextOperation(g) /\ UNCHANGED saw
  /\ UNCHANGED <<input, expired, blind, collected, vdisks>>

\* Mutant of Check: the operation has to be seen once.
CheckSeen(g) ==
  /\ pc[g] = "check"
  /\ page' = [page EXCEPT ![g] = "none"]
  /\ IF page[g] = "In progress"
     THEN saw' = [saw EXCEPT ![g] = TRUE] /\ Goto(g, "poll")
          /\ UNCHANGED <<at, op, failed, progress>>
     ELSE /\ UNCHANGED saw
          /\ IF saw[g] THEN NextOperation(g)
             ELSE Goto(g, "poll") /\ UNCHANGED <<at, op, failed, progress>>
  /\ UNCHANGED <<input, expired, blind, collected, vdisks>>

\* What the poll has read is looked at: idle is believed once the operation was
\* seen in progress, or the time for it to appear is over.
Check(g) ==
  /\ pc[g] = "check"
  /\ page' = [page EXCEPT ![g] = "none"]
  /\ IF page[g] = "In progress"
     THEN /\ saw' = [saw EXCEPT ![g] = TRUE]
          /\ blind' = [blind EXCEPT ![g] = @ \ {<<at[g], op[g]>>}]
          /\ Goto(g, "poll")
          /\ UNCHANGED <<at, op, failed, progress>>
     ELSE /\ UNCHANGED <<saw, blind>>
          /\ IF saw[g] \/ expired[g] THEN NextOperation(g)
             ELSE Goto(g, "poll") /\ UNCHANGED <<at, op, failed, progress>>
  /\ UNCHANGED <<input, expired, collected, vdisks>>

\* The operation of group g is not over, and no page that has been read, or that
\* is being looked at, has shown it.
Unseen(g) ==
  LET now == state[VDiskOf(g)][OpOf(g)] IN
  \/ now = "requested"
  \/ pc[g] = "check" /\ page[g] # "In progress" /\ now = "active"

\* deadline_to_appear passes: before or after a poll is answered, and whether or
\* not the operation has shown.
Expire(g) ==
  /\ pc[g] \in {"poll", "check"}
  /\ ~expired[g]
  /\ expired' = [expired EXCEPT ![g] = TRUE]
  /\ blind' = IF Unseen(g) THEN [blind EXCEPT ![g] = @ \cup {<<at[g], op[g]>>}] ELSE blind
  /\ UNCHANGED <<input, pc, at, op, page, saw, failed, progress, collected, vdisks>>

\* imap_unordered hands the errors of a finished group to run_operations.
Collect(g) ==
  /\ pc[g] = "finished"
  /\ collected' = collected + Cardinality(failed[g])
  /\ Goto(g, "collected")
  /\ UNCHANGED <<input, at, op, page, saw, expired, blind, failed, progress, vdisks>>

-----------------------------------------------------------------------------
(* The VDisks.                                                             *)

Appear(v, o) ==
  /\ state[v][o] = "requested"
  /\ state' = [state EXCEPT ![v][o] = "active"]
  /\ UNCHANGED <<input, task, progress, collected, carried>>

\* An operation with nothing to do may be over before a page shows it.
Finish(v, o) ==
  /\ state[v][o] # "idle"
  /\ state' = [state EXCEPT ![v][o] = "idle"]
  /\ carried' = carried \cup {<<v, o>>}
  /\ UNCHANGED <<input, task, progress, collected>>

Work(g) ==
  \/ StartGroup(g) \/ List(g) \/ Request(g) \/ RequestFails(g)
  \/ Poll(g) \/ Check(g) \/ Collect(g)

Terminated ==
  /\ \A g \in Group : pc[g] = "collected"
  /\ \A v \in VDisk, o \in Operation : state[v][o] = "idle"
  /\ UNCHANGED vars

Next ==
  \/ \E g \in Group : Work(g) \/ Expire(g)
  \/ \E v \in VDisk, o \in Operation : Appear(v, o) \/ Finish(v, o)
  \/ Terminated

Spec == Init /\ [][Next]_vars

\* Every thread runs and a poll is answered in the end, time passes, and a
\* VDisk goes on with what it has accepted.
FairSpec ==
  /\ Spec
  /\ \A g \in UNION {DOMAIN i.groups : i \in Inputs} :
       WF_vars(g \in Group /\ Work(g)) /\ WF_vars(g \in Group /\ Expire(g))
  /\ \A v \in VDisk : WF_vars(\E o \in Operation : Finish(v, o))

-----------------------------------------------------------------------------
VDisksAt(g, positions) == {input.groups[g][i] : i \in positions}

\* VDisks of group g that the run has passed, and that it is at.
Passed(g) ==
  VDisksAt(g, IF pc[g] \in {"finished", "collected"} THEN 1..Size(g) ELSE 1..(at[g] - 1))
AtWork(g) == IF pc[g] \in Running THEN {VDiskOf(g)} ELSE {}

\* The deadline has passed on operation o of v before a page showed it.
Blind(g, v, o) ==
  \E p \in blind[g] : input.groups[g][p[1]] = v /\ Operations[p[2]] = o

\* "Wait until operation finishes", and "VDisks inside one group are processed
\* sequentially": of the VDisks a group has come to, the only operation in
\* flight is the one that is waited for.  Two cases are not the code's to know:
\* a VDisk whose request was reported as failed may have accepted it all the
\* same, and an operation may show only after deadline_to_appear.
WaitedFor ==
  input.wait =>
    \A g \in Group, o \in Operation :
      \A v \in (Passed(g) \cup AtWork(g)) \ VDisksAt(g, failed[g]) :
        state[v][o] # "idle" /\ ~Blind(g, v, o) =>
          pc[g] \in {"poll", "check"} /\ v = VDiskOf(g) /\ o = OpOf(g)

\* The run is over and main exits with 0.
Success == (\A g \in Group : pc[g] = "collected") /\ collected = 0

\* Exit status 0 of a run that waits means that every selected VDisk has
\* finished every operation of the mode, but for those the deadline passed on
\* before a page showed them; the summary of Progress agrees with it.
SuccessMeansCarriedOut ==
  Success =>
    /\ progress.errors = 0
    /\ \A g \in Group : \A i \in 1..Size(g) : \A k \in 1..Len(Operations) :
         input.wait /\ ~input.dryRun =>
           <<input.groups[g][i], Operations[k]>> \in carried \/ <<i, k>> \in blind[g]

\* The run ends, whatever requests fail.
RunEnds == <>(\A g \in Group : pc[g] = "collected")
=============================================================================
