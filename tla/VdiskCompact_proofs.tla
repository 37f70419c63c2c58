------------------------ MODULE VdiskCompact_proofs ------------------------
(***************************************************************************)
(* Proofs about VdiskCompact, for any groups, modes and numbers of threads *)
(* whatever requests fail, and whenever operations show and deadlines      *)
(* pass.                                                                   *)
(***************************************************************************)
EXTENDS VdiskCompact, FiniteSetTheorems, TLAPS

Ops == 1..Len(Operations)
Positions(g) == 1..Size(g)
At(g, i) == input.groups[g][i]
Now(g) == state[VDiskOf(g)][OpOf(g)]
Waits(g) == pc[g] \in {"poll", "check"}
Done(g) == pc[g] \in {"finished", "collected"}

Typed ==
  /\ input \in Inputs
  /\ pc \in [Group -> Running \cup {"queued", "finished", "collected"}]
  /\ at \in [Group -> Nat] /\ \A g \in Group : at[g] \in Positions(g)
  /\ op \in [Group -> Ops]
  /\ page \in [Group -> {"none", "In progress", "No compaction"}]
  /\ saw \in [Group -> BOOLEAN]
  /\ expired \in [Group -> BOOLEAN]
  /\ blind \in [Group -> SUBSET (Nat \X Nat)]
  /\ failed \in [Group -> SUBSET Nat] /\ \A g \in Group : failed[g] \subseteq Positions(g)
  /\ progress.errors \in Nat /\ collected \in Nat
  /\ state \in [VDisk -> [Operation -> {"idle", "requested", "active"}]]

\* What has been seen of the operation that is waited for, or would have been
\* but for the deadline.
Known(g) == saw[g] \/ (expired[g] /\ <<at[g], op[g]>> \notin blind[g])
WaitRight(g) ==
  Waits(g) =>
    /\ input.wait
    /\ Known(g) => Now(g) # "requested"
    /\ pc[g] = "check" => /\ page[g] = "In progress" => Now(g) # "requested"
                          /\ page[g] # "In progress" /\ Known(g) => Now(g) = "idle"
    /\ Now(g) = "idle" => <<VDiskOf(g), OpOf(g)>> \in carried

\* Of the VDisks whose requests were all answered, only the one that is waited
\* for has something in flight, or one the deadline has passed on.
FlightRight(g) ==
  input.wait =>
    \A i \in Positions(g), o \in Operation :
      /\ state[At(g, i)][o] # "idle"
      /\ \A j \in failed[g] : At(g, j) # At(g, i)
      /\ ~Blind(g, At(g, i), o)
      => Waits(g) /\ At(g, i) = VDiskOf(g) /\ o = OpOf(g)

\* What is behind the run, and not passed on unseen, has been carried out.
Reached(g, i, k) ==
  Done(g) \/ i < at[g] \/ (pc[g] # "queued" /\ i = at[g] /\ k < op[g])
Behind(g, i, k) == i \notin failed[g] /\ <<i, k>> \notin blind[g] /\ Reached(g, i, k)
CarriedRight(g) ==
  input.wait /\ ~input.dryRun =>
    \A i \in Positions(g), k \in Ops :
      Behind(g, i, k) => <<At(g, i), Operations[k]>> \in carried

Local(g) ==
  /\ WaitRight(g) /\ FlightRight(g) /\ CarriedRight(g)
  /\ Done(g) => at[g] = Size(g)
  /\ pc[g] = "queued" => at[g] = 1 /\ op[g] = 1

\* Every error is counted where it can be seen.
CountsRight ==
  /\ progress.errors # 0 => \E g \in Group : failed[g] # {}
  /\ \A g \in Group : pc[g] = "collected" /\ failed[g] # {} => collected # 0

IInv == Typed /\ CountsRight /\ \A g \in Group : Local(g)

-----------------------------------------------------------------------------
(* The input.                                                              *)

LEMMA InputFacts ==
  ASSUME input \in Inputs
  PROVE  /\ input.groups \in Seq(Seq(VDisk))
         /\ input.mode \in Modes /\ input.wait \in BOOLEAN /\ input.dryRun \in BOOLEAN
         /\ \A g \in Group : /\ Size(g) \in Nat \ {0}
                             /\ \A i \in Positions(g) : At(g, i) \in VDisk
BY InputsAssumption DEF Input, Group, Size, Positions, At

LEMMA OperationFacts ==
  ASSUME input \in Inputs
  PROVE  /\ Len(Operations) \in Nat \ {0}
         /\ \A k \in Ops : Operations[k] \in Operation
BY InputFacts DEF Operations, ResolveMode, Modes, Operation, Ops

\* A VDisk is in one group.
LEMMA OneGroup ==
  ASSUME input \in Inputs, NEW g \in Group, NEW h \in Group,
         NEW i \in Positions(g), NEW j \in Positions(h), At(g, i) = At(h, j)
  PROVE  g = h
<1>1. i \in DOMAIN input.groups[g] /\ j \in DOMAIN input.groups[h]
  BY InputFacts DEF Group, Size, Positions
<1>2. QED BY <1>1, InputsAssumption DEF Group, At

-----------------------------------------------------------------------------
(* Steps of one task.                                                      *)

\* A group nothing has happened to.
Same(h) ==
  /\ pc'[h] = pc[h] /\ at'[h] = at[h] /\ op'[h] = op[h] /\ page'[h] = page[h]
  /\ saw'[h] = saw[h] /\ expired'[h] = expired[h] /\ failed'[h] = failed[h]
  /\ blind'[h] = blind[h]
  /\ \A i \in Positions(h) : state'[At(h, i)] = state[At(h, i)]

LEMMA BlindSame ==
  ASSUME input' = input, NEW h \in Group, blind'[h] = blind[h]
  PROVE  \A v, o : Blind(h, v, o)' = Blind(h, v, o)
BY DEF Blind, Operations

LEMMA SameKeeps ==
  ASSUME Typed, input' = input, carried \subseteq carried',
         NEW h \in Group, Same(h), Local(h)
  PROVE  Local(h)'
<1>1. at[h] \in Positions(h) /\ VDiskOf(h) = At(h, at[h])
  BY DEF Typed, VDiskOf, At
<1>2. /\ Size(h)' = Size(h) /\ Positions(h)' = Positions(h) /\ Ops' = Ops
      /\ Operations' = Operations /\ OpOf(h)' = OpOf(h) /\ VDiskOf(h)' = VDiskOf(h)
      /\ \A i : At(h, i)' = At(h, i)
  BY DEF Size, Positions, Ops, Operations, OpOf, VDiskOf, At, Same
<1>3. Now(h)' = Now(h)
  BY <1>1, <1>2 DEF Now, Same
<1>4. Waits(h)' = Waits(h) /\ Done(h)' = Done(h)
  BY DEF Waits, Done, Same
<1>5. WaitRight(h)'
  BY <1>2, <1>3, <1>4 DEF Local, WaitRight, Known, Same
<1>6. FlightRight(h)'
  BY <1>2, <1>4, BlindSame DEF Local, FlightRight, Same
<1>7. CarriedRight(h)'
  BY <1>2, <1>4 DEF Local, CarriedRight, Behind, Reached, Same
<1>8. QED BY <1>2, <1>4, <1>5, <1>6, <1>7 DEF Local, Same

\* What NextVDisk and NextOperation leave behind.
Others(g) == \A h \in Group \ {g} : /\ pc'[h] = pc[h] /\ at'[h] = at[h]
                                    /\ op'[h] = op[h] /\ failed'[h] = failed[h]
TypedAfter ==
  /\ pc' \in [Group -> Running \cup {"queued", "finished", "collected"}]
  /\ at' \in [Group -> Nat] /\ \A g \in Group : at'[g] \in Positions(g)
  /\ op' \in [Group -> Ops]
  /\ failed' \in [Group -> SUBSET Nat] /\ \A g \in Group : failed'[g] \subseteq Positions(g)
  /\ progress'.errors \in Nat

Onward(g) ==
  \/ pc'[g] = "request" /\ at[g] < Size(g) /\ at'[g] = at[g] + 1 /\ op'[g] = 1
  \/ pc'[g] = "finished" /\ at[g] = Size(g) /\ at'[g] = at[g] /\ op'[g] = op[g]

Kept(g) == failed'[g] = failed[g] /\ progress'.errors = progress.errors
Failed(g) == failed'[g] = failed[g] \cup {at[g]} /\ progress'.errors = progress.errors + 1

LEMMA NextVDiskFailed ==
  ASSUME Typed, NEW g \in Group,
         \/ NextVDisk(g, TRUE)
         \/ NextVDisk(g, FALSE)
  PROVE  /\ failed' \in [Group -> SUBSET Nat]
         /\ \A h \in Group \ {g} : failed'[h] = failed[h]
         /\ \A h \in Group : failed'[h] \subseteq Positions(h)
         /\ progress'.errors \in Nat
         /\ NextVDisk(g, TRUE) => Kept(g)
         /\ NextVDisk(g, FALSE) => Failed(g)
<1>1. at[g] \in Positions(g) /\ at[g] \in Nat /\ progress.errors \in Nat
  BY DEF Typed
<1>2. ASSUME NextVDisk(g, TRUE)
      PROVE  failed' = failed /\ progress' = [done |-> progress.done + 1, errors |-> progress.errors]
  BY <1>2 DEF NextVDisk
<1>3. ASSUME NextVDisk(g, FALSE)
      PROVE  /\ failed' = [failed EXCEPT ![g] = failed[g] \cup {at[g]}]
             /\ progress' = [done |-> progress.done + 1, errors |-> progress.errors + 1]
  BY <1>3 DEF NextVDisk
<1>4. CASE NextVDisk(g, TRUE) /\ ~NextVDisk(g, FALSE)
  <2>1. failed' = failed /\ progress' = [done |-> progress.done + 1, errors |-> progress.errors]
    BY <1>2, <1>4
  <2>2. progress'.errors = progress.errors
    BY <2>1
  <2>3. QED BY <1>1, <1>4, <2>1, <2>2 DEF Typed, Kept
<1>5. CASE NextVDisk(g, FALSE) /\ ~NextVDisk(g, TRUE)
  <2>1. failed \in [Group -> SUBSET Nat]
    BY DEF Typed
  <2>2. failed' = [failed EXCEPT ![g] = failed[g] \cup {at[g]}]
    BY <1>3, <1>5
  <2>3. failed' \in [Group -> SUBSET Nat] /\ failed'[g] = failed[g] \cup {at[g]}
    BY <1>1, <2>1, <2>2
  <2>4. \A h \in Group \ {g} : failed'[h] = failed[h]
    BY <2>1, <2>2
  <2>5. \A h \in Group : failed[h] \subseteq Positions(h)
    BY DEF Typed
  <2>6. \A h \in Group : failed'[h] \subseteq Positions(h)
    BY <1>1, <2>3, <2>4, <2>5
  <2>7. progress' = [done |-> progress.done + 1, errors |-> progress.errors + 1]
    BY <1>3, <1>5
  <2>8. progress'.errors = progress.errors + 1
    BY <2>7
  <2>9. progress'.errors = progress.errors + 1 /\ progress'.errors \in Nat
    BY <1>1, <2>8
  <2>10. QED BY <1>5, <2>3, <2>4, <2>6, <2>9 DEF Failed
<1>6. ~(NextVDisk(g, TRUE) /\ NextVDisk(g, FALSE))
  <2>1. SUFFICES ASSUME NextVDisk(g, TRUE), NextVDisk(g, FALSE) PROVE FALSE
    OBVIOUS
  <2>2. progress'.errors = progress.errors
    BY <1>2, <2>1
  <2>3. progress'.errors = progress.errors + 1
    BY <1>3, <2>1
  <2>4. QED BY <1>1, <2>2, <2>3
<1>7. QED BY <1>4, <1>5, <1>6

LEMMA NextVDiskMoves ==
  ASSUME Typed, NEW g \in Group,
         \/ NextVDisk(g, TRUE)
         \/ NextVDisk(g, FALSE)
  PROVE  Others(g) /\ TypedAfter /\ Onward(g)
<1>1. /\ at[g] \in Positions(g) /\ at[g] \in Nat /\ Size(g) \in Nat \ {0}
      /\ 1 \in Ops
  <2>1. input \in Inputs /\ at[g] \in Positions(g) /\ at[g] \in Nat
    BY DEF Typed
  <2>2. Size(g) \in Nat \ {0}
    BY <2>1, InputFacts
  <2>3. 1 \in Ops
    BY <2>1, OperationFacts DEF Ops
  <2>4. QED BY <2>1, <2>2, <2>3
<1>2. CASE at[g] < Size(g)
  <2>1. /\ at' = [at EXCEPT ![g] = at[g] + 1] /\ op' = [op EXCEPT ![g] = 1]
        /\ pc' = [pc EXCEPT ![g] = "request"]
    BY <1>2 DEF NextVDisk, Goto
  <2>2. at[g] + 1 \in Positions(g) /\ at[g] + 1 \in Nat
    BY <1>1, <1>2 DEF Positions
  <2>3. /\ pc' \in [Group -> Running \cup {"queued", "finished", "collected"}]
        /\ at' \in [Group -> Nat] /\ op' \in [Group -> Ops]
        /\ \A h \in Group : at'[h] \in Positions(h)
    BY <1>1, <2>1, <2>2 DEF Typed, Running
  <2>4. Onward(g) /\ \A h \in Group \ {g} : pc'[h] = pc[h] /\ at'[h] = at[h] /\ op'[h] = op[h]
    BY <1>1, <1>2, <2>1 DEF Typed, Onward
  <2>5. QED BY <2>3, <2>4, NextVDiskFailed DEF TypedAfter, Others
<1>3. CASE ~(at[g] < Size(g))
  <2>1. /\ at' = at /\ op' = op /\ pc' = [pc EXCEPT ![g] = "finished"]
    BY <1>3 DEF NextVDisk, Goto
  <2>2. at[g] = Size(g)
    BY <1>1, <1>3 DEF Positions
  <2>3. /\ pc' \in [Group -> Running \cup {"queued", "finished", "collected"}]
        /\ at' \in [Group -> Nat] /\ op' \in [Group -> Ops]
        /\ \A h \in Group : at'[h] \in Positions(h)
    BY <1>1, <2>1, <2>2 DEF Typed, Running
  <2>4. Onward(g) /\ \A h \in Group \ {g} : pc'[h] = pc[h] /\ at'[h] = at[h] /\ op'[h] = op[h]
    BY <1>1, <2>1, <2>2 DEF Typed, Onward
  <2>5. QED BY <2>3, <2>4, NextVDiskFailed DEF TypedAfter, Others
<1>4. QED BY <1>2, <1>3

\* Nothing of the group is in flight but what failed and what was passed on.
Calm(g) ==
  input.wait =>
    \A i \in Positions(g), o \in Operation :
      (\A j \in failed'[g] : At(g, j) # At(g, i)) /\ ~Blind(g, At(g, i), o) =>
        state'[At(g, i)][o] = "idle"

LEMMA OnwardKeeps ==
  ASSUME Typed, input' = input, carried \subseteq carried', NEW g \in Group,
         pc[g] \in Running, Local(g), Onward(g), Calm(g),
         failed[g] \subseteq failed'[g], blind'[g] = blind[g],
         input.wait /\ ~input.dryRun /\ at[g] \notin failed'[g] =>
           \A k \in Ops : <<at[g], k>> \notin blind[g] =>
             <<At(g, at[g]), Operations[k]>> \in carried
  PROVE  Local(g)'
<1>1. /\ Size(g)' = Size(g) /\ Positions(g)' = Positions(g) /\ Ops' = Ops
      /\ Operations' = Operations /\ \A i : At(g, i)' = At(g, i)
  BY DEF Size, Positions, Ops, Operations, At
<1>2. ~Waits(g)' /\ (Done(g)' => at'[g] = Size(g)) /\ pc'[g] # "queued"
  BY DEF Waits, Done, Onward
<1>3. at[g] \in Nat /\ Size(g) \in Nat
  BY InputFacts DEF Typed
<1>4. FlightRight(g)'
  BY <1>1, BlindSame DEF FlightRight, Calm
<1>5. ASSUME NEW i \in Positions(g), NEW k \in Ops, Behind(g, i, k)'
      PROVE  i # at[g] => Behind(g, i, k)
  <2>1. i \notin failed[g] /\ <<i, k>> \notin blind[g] /\ i \in Nat /\ i <= Size(g) /\ k \in Nat /\ k >= 1
    BY <1>3, <1>5 DEF Behind, Reached, Positions, Ops
  <2>2. i <= at[g]
    BY <1>3, <1>5, <2>1 DEF Behind, Reached, Onward, Done
  <2>3. QED BY <1>3, <2>1, <2>2 DEF Behind, Reached
<1>6. CarriedRight(g)'
  BY <1>1, <1>5 DEF CarriedRight, Local, Behind, Reached
<1>7. QED BY <1>1, <1>2, <1>4, <1>6 DEF Local, WaitRight

LEMMA NextOperationMoves ==
  ASSUME Typed, NEW g \in Group, NextOperation(g)
  PROVE  /\ Others(g) /\ TypedAfter /\ Kept(g)
         /\ \/ op[g] = Len(Operations) /\ Onward(g)
            \/ /\ pc'[g] = "request" /\ at'[g] = at[g]
               /\ op[g] < Len(Operations) /\ op'[g] = op[g] + 1
<1>1. op[g] \in Ops /\ Len(Operations) \in Nat
  BY OperationFacts DEF Typed
<1>2. CASE op[g] < Len(Operations)
  <2>1. /\ op' = [op EXCEPT ![g] = op[g] + 1] /\ pc' = [pc EXCEPT ![g] = "request"]
        /\ at' = at /\ failed' = failed /\ progress' = progress
    BY <1>2 DEF NextOperation, Goto
  <2>2. op[g] + 1 \in Ops
    BY <1>1, <1>2 DEF Ops
  <2>3. TypedAfter
    BY <2>1, <2>2 DEF Typed, TypedAfter, Running
  <2>4. Others(g) /\ Kept(g) /\ pc'[g] = "request" /\ at'[g] = at[g] /\ op'[g] = op[g] + 1
    BY <2>1 DEF Typed, Others, Kept
  <2>5. QED BY <1>2, <2>3, <2>4
<1>3. CASE ~(op[g] < Len(Operations))
  <2>1. op[g] = Len(Operations)
    BY <1>1, <1>3 DEF Ops
  <2>2. NextVDisk(g, TRUE)
    BY <1>3 DEF NextOperation
  <2>3. QED BY <2>1, <2>2, NextVDiskMoves, NextVDiskFailed
<1>4. QED BY <1>2, <1>3

LEMMA NextOperationKeeps ==
  ASSUME Typed, input' = input, carried \subseteq carried', NEW g \in Group,
         pc[g] \in Running, Local(g), NextOperation(g), Calm(g), blind'[g] = blind[g],
         input.wait /\ ~input.dryRun /\ at[g] \notin failed[g] =>
           (<<at[g], op[g]>> \notin blind[g] => <<VDiskOf(g), OpOf(g)>> \in carried)
  PROVE  Local(g)'
<1>1. failed'[g] = failed[g] /\ op[g] \in Ops /\ at[g] \in Positions(g)
  BY NextOperationMoves DEF Kept, Typed
<1>2. ASSUME input.wait, ~input.dryRun, at[g] \notin failed[g], NEW k \in Ops, k <= op[g],
             <<at[g], k>> \notin blind[g]
      PROVE  <<At(g, at[g]), Operations[k]>> \in carried
  <2>1. CASE k = op[g]
    BY <1>2, <2>1 DEF VDiskOf, OpOf, At
  <2>2. CASE k # op[g]
    <3>1. k < op[g]
      BY <1>1, <1>2, <2>2 DEF Ops
    <3>2. Behind(g, at[g], k)
      BY <1>2, <3>1 DEF Behind, Reached, Running
    <3>3. QED BY <1>1, <1>2, <3>2 DEF Local, CarriedRight
  <2>3. QED BY <2>1, <2>2
<1>3. CASE op[g] = Len(Operations) /\ Onward(g)
  <2>1. \A k \in Ops : k <= op[g]
    BY <1>3 DEF Ops
  <2>2. QED BY <1>1, <1>2, <1>3, <2>1, OnwardKeeps
<1>4. CASE pc'[g] = "request" /\ at'[g] = at[g] /\ op'[g] = op[g] + 1
  <2>1. /\ Size(g)' = Size(g) /\ Positions(g)' = Positions(g) /\ Ops' = Ops
        /\ Operations' = Operations /\ \A i : At(g, i)' = At(g, i)
    BY DEF Size, Positions, Ops, Operations, At
  <2>2. ~Waits(g)' /\ ~Done(g)' /\ pc'[g] # "queued"
    BY <1>4 DEF Waits, Done
  <2>3. FlightRight(g)'
    BY <2>1, BlindSame DEF FlightRight, Calm
  <2>4. ASSUME NEW i \in Positions(g), NEW k \in Ops, Behind(g, i, k)'
        PROVE  Behind(g, i, k) \/ (i = at[g] /\ k <= op[g])
    BY <1>1, <1>4, <2>4 DEF Behind, Reached, Done, Ops
  <2>5. CarriedRight(g)'
    BY <1>1, <1>2, <2>1, <2>4 DEF CarriedRight, Local, Behind, Reached
  <2>6. QED BY <2>2, <2>3, <2>5 DEF Local, WaitRight
<1>5. QED BY <1>3, <1>4, NextOperationMoves

-----------------------------------------------------------------------------
(* From one group to all of them.                                          *)

RestRight(g) ==
  /\ page' \in [Group -> {"none", "In progress", "No compaction"}]
  /\ saw' \in [Group -> BOOLEAN]
  /\ expired' \in [Group -> BOOLEAN]
  /\ blind' \in [Group -> SUBSET (Nat \X Nat)]
  /\ state' \in [VDisk -> [Operation -> {"idle", "requested", "active"}]]
  /\ \A h \in Group \ {g} :
       /\ page'[h] = page[h] /\ saw'[h] = saw[h] /\ expired'[h] = expired[h]
       /\ blind'[h] = blind[h]
       /\ \A i \in Positions(h) : state'[At(h, i)] = state[At(h, i)]

LEMMA GroupStep ==
  ASSUME IInv, input' = input, carried \subseteq carried', collected' = collected,
         NEW g \in Group, pc[g] # "collected", pc'[g] # "collected",
         Kept(g) \/ Failed(g), Others(g), TypedAfter, RestRight(g), Local(g)'
  PROVE  IInv'
<1>1. Typed'
  <2>1. Group' = Group /\ Ops' = Ops /\ \A h : Size(h)' = Size(h) /\ Positions(h)' = Positions(h)
    BY DEF Group, Ops, Operations, Size, Positions
  <2>2. QED BY <2>1 DEF IInv, Typed, TypedAfter, RestRight
<1>2. \A h \in Group : Local(h)'
  <2>1. SUFFICES ASSUME NEW h \in Group \ {g} PROVE Local(h)'
    OBVIOUS
  <2>2. Same(h)
    BY DEF Same, Others, RestRight
  <2>3. QED BY <2>2, SameKeeps DEF IInv
<1>3. CountsRight'
  <2>1. \A h \in Group : failed[h] \subseteq failed'[h]
    BY DEF Others, Kept, Failed
  <2>2. progress'.errors # 0 => progress.errors # 0 \/ failed'[g] # {}
    BY DEF Kept, Failed
  <2>3. progress'.errors # 0 => \E h \in Group : failed'[h] # {}
    BY <2>1, <2>2 DEF IInv, CountsRight
  <2>4. \A h \in Group : pc'[h] = "collected" /\ failed'[h] # {} => collected' # 0
    BY DEF IInv, CountsRight, Others
  <2>5. QED BY <2>3, <2>4 DEF CountsRight, Group
<1>4. QED BY <1>1, <1>2, <1>3 DEF IInv, Group

-----------------------------------------------------------------------------
(* The actions.                                                            *)

\* Without waiting for anything, nothing but what failed is in flight.
LEMMA CalmAtRequest ==
  ASSUME NEW g \in Group, Local(g), pc[g] = "request",
         failed[g] \subseteq failed'[g],
         \A i \in Positions(g) :
           state'[At(g, i)] = state[At(g, i)] \/ \E j \in failed'[g] : At(g, j) = At(g, i)
  PROVE  Calm(g)
BY DEF Calm, Local, FlightRight, Waits

LEMMA StartGroupKeeps ==
  ASSUME IInv, NEW g \in Group, StartGroup(g)
  PROVE  IInv'
<1>1. /\ pc[g] = "queued" /\ pc' = [pc EXCEPT ![g] = "request"]
      /\ UNCHANGED <<input, at, op, page, saw, expired, blind, failed, progress, collected, state, carried>>
  BY DEF StartGroup, Goto, vdisks
<1>2. pc \in [Group -> Running \cup {"queued", "finished", "collected"}]
  BY DEF IInv, Typed
<1>3. TypedAfter
  BY <1>1, <1>2 DEF IInv, Typed, TypedAfter, Running
<1>4. /\ Others(g) /\ Kept(g) /\ RestRight(g) /\ pc'[g] = "request"
  BY <1>1, <1>2 DEF IInv, Typed, Others, Kept, RestRight
<1>5. Local(g)'
  <2>1. /\ Size(g)' = Size(g) /\ Positions(g)' = Positions(g) /\ Ops' = Ops
        /\ Operations' = Operations /\ \A i : At(g, i)' = At(g, i)
    BY <1>1 DEF Size, Positions, Ops, Operations, At
  <2>2. ~Waits(g)' /\ ~Done(g)' /\ ~Waits(g) /\ ~Done(g)
    BY <1>1, <1>4 DEF Waits, Done
  <2>3. Local(g) /\ at[g] = 1 /\ op[g] = 1 /\ at'[g] = 1 /\ op'[g] = 1
    BY <1>1 DEF IInv, Local
  <2>4. FlightRight(g)'
    BY <1>1, <2>1, <2>2, <2>3, BlindSame DEF Local, FlightRight
  <2>5. ~(\E i \in Positions(g), k \in Ops : Reached(g, i, k)')
    BY <2>2, <2>3 DEF Reached, Positions, Ops
  <2>6. CarriedRight(g)'
    BY <2>1, <2>5 DEF CarriedRight, Behind
  <2>7. QED BY <1>4, <2>2, <2>4, <2>6 DEF Local, WaitRight
<1>6. QED BY <1>1, <1>3, <1>4, <1>5, GroupStep DEF IInv

LEMMA ListKeeps ==
  ASSUME IInv, NEW g \in Group, List(g)
  PROVE  IInv'
<1>1. /\ pc[g] = "request" /\ input.dryRun /\ NextVDisk(g, TRUE)
      /\ UNCHANGED <<input, page, saw, expired, blind, collected, state, carried>>
  BY DEF List, vdisks
<1>2. Typed /\ Local(g)
  BY DEF IInv
<1>3. Others(g) /\ TypedAfter /\ Onward(g) /\ Kept(g)
  BY <1>1, <1>2, NextVDiskMoves, NextVDiskFailed
<1>4. RestRight(g)
  BY <1>1, <1>2 DEF RestRight, Typed
<1>5. Calm(g)
  BY <1>1, <1>2, <1>3, CalmAtRequest DEF Kept
<1>6. Local(g)'
  BY <1>1, <1>2, <1>3, <1>5, OnwardKeeps DEF Kept, Running
<1>7. pc'[g] # "collected"
  BY <1>3 DEF Onward
<1>8. QED BY <1>1, <1>3, <1>4, <1>6, <1>7, GroupStep

\* An operation a VDisk accepts, or has accepted, concerns its group only.
LEMMA AcceptFacts ==
  ASSUME Typed, NEW g \in Group, Accept(VDiskOf(g), OpOf(g))
  PROVE  /\ state' \in [VDisk -> [Operation -> {"idle", "requested", "active"}]]
         /\ state'[VDiskOf(g)][OpOf(g)] # "idle"
         /\ \A v \in VDisk \ {VDiskOf(g)} : state'[v] = state[v]
         /\ \A o \in Operation \ {OpOf(g)} : state'[VDiskOf(g)][o] = state[VDiskOf(g)][o]
         /\ \A h \in Group \ {g} : \A i \in Positions(h) : state'[At(h, i)] = state[At(h, i)]
<1>1. /\ VDiskOf(g) \in VDisk /\ OpOf(g) \in Operation
      /\ at[g] \in Positions(g) /\ VDiskOf(g) = At(g, at[g])
  BY InputFacts, OperationFacts DEF Typed, VDiskOf, OpOf, At
<1>2. state \in [VDisk -> [Operation -> {"idle", "requested", "active"}]]
  BY DEF Typed
<1>3. /\ state' \in [VDisk -> [Operation -> {"idle", "requested", "active"}]]
      /\ state'[VDiskOf(g)][OpOf(g)] # "idle"
      /\ \A v \in VDisk \ {VDiskOf(g)} : state'[v] = state[v]
      /\ \A o \in Operation \ {OpOf(g)} : state'[VDiskOf(g)][o] = state[VDiskOf(g)][o]
  <2>1. CASE state[VDiskOf(g)][OpOf(g)] = "idle"
    BY <1>1, <1>2, <2>1 DEF Accept
  <2>2. CASE state[VDiskOf(g)][OpOf(g)] # "idle"
    BY <1>1, <1>2, <2>2 DEF Accept
  <2>3. QED BY <2>1, <2>2
<1>4. ASSUME NEW h \in Group \ {g}, NEW i \in Positions(h)
      PROVE  At(h, i) \in VDisk \ {VDiskOf(g)}
  BY <1>1, <1>4, OneGroup, InputFacts DEF Typed
<1>5. QED BY <1>3, <1>4

LEMMA RequestFailsKeeps ==
  ASSUME IInv, NEW g \in Group, RequestFails(g)
  PROVE  IInv'
<1>1. /\ pc[g] = "request" /\ NextVDisk(g, FALSE)
      /\ Accept(VDiskOf(g), OpOf(g)) \/ UNCHANGED state
      /\ UNCHANGED <<input, page, saw, expired, blind, collected, carried>>
  BY DEF RequestFails
<1>2. Typed /\ Local(g) /\ at[g] \in Positions(g) /\ VDiskOf(g) = At(g, at[g])
  BY DEF IInv, Typed, VDiskOf, At
<1>3. Others(g) /\ TypedAfter /\ Onward(g) /\ Failed(g)
  BY <1>1, <1>2, NextVDiskMoves, NextVDiskFailed
<1>4. /\ state' \in [VDisk -> [Operation -> {"idle", "requested", "active"}]]
      /\ \A v \in VDisk \ {VDiskOf(g)} : state'[v] = state[v]
      /\ \A h \in Group \ {g} : \A i \in Positions(h) : state'[At(h, i)] = state[At(h, i)]
  BY <1>1, <1>2, AcceptFacts DEF Typed
<1>5. RestRight(g)
  BY <1>1, <1>2, <1>4 DEF RestRight, Typed
<1>6. \A i \in Positions(g) :
        state'[At(g, i)] = state[At(g, i)] \/ \E j \in failed'[g] : At(g, j) = At(g, i)
  BY <1>2, <1>3, <1>4, InputFacts DEF Failed, Typed
<1>7. Calm(g)
  BY <1>1, <1>2, <1>3, <1>6, CalmAtRequest DEF Failed
<1>8. Local(g)'
  BY <1>1, <1>2, <1>3, <1>7, OnwardKeeps DEF Failed, Running
<1>9. pc'[g] # "collected"
  BY <1>3 DEF Onward
<1>10. QED BY <1>1, <1>3, <1>5, <1>8, <1>9, GroupStep

LEMMA RequestKeeps ==
  ASSUME IInv, NEW g \in Group, Request(g)
  PROVE  IInv'
<1>1. /\ pc[g] = "request" /\ Accept(VDiskOf(g), OpOf(g))
      /\ UNCHANGED <<input, page, blind, collected, carried>>
  BY DEF Request
<1>2. /\ Typed /\ Local(g) /\ at[g] \in Positions(g) /\ VDiskOf(g) = At(g, at[g])
      /\ OpOf(g) \in Operation /\ input \in Inputs
  BY OperationFacts DEF IInv, Typed, VDiskOf, At, OpOf
<1>3. /\ state' \in [VDisk -> [Operation -> {"idle", "requested", "active"}]]
      /\ state'[VDiskOf(g)][OpOf(g)] # "idle"
      /\ \A v \in VDisk \ {VDiskOf(g)} : state'[v] = state[v]
      /\ \A o \in Operation \ {OpOf(g)} : state'[VDiskOf(g)][o] = state[VDiskOf(g)][o]
      /\ \A h \in Group \ {g} : \A i \in Positions(h) : state'[At(h, i)] = state[At(h, i)]
  BY <1>1, <1>2, AcceptFacts
<1>4. CASE input.wait
  <2>1. /\ pc' = [pc EXCEPT ![g] = "poll"] /\ saw' = [saw EXCEPT ![g] = FALSE]
        /\ expired' = [expired EXCEPT ![g] = FALSE]
        /\ UNCHANGED <<at, op, failed, progress>>
    BY <1>4 DEF Request, Goto
  <2>2. /\ pc \in [Group -> Running \cup {"queued", "finished", "collected"}]
        /\ saw \in [Group -> BOOLEAN] /\ expired \in [Group -> BOOLEAN]
    BY <1>2 DEF Typed
  <2>3. TypedAfter
    BY <1>2, <2>1, <2>2 DEF Typed, TypedAfter, Running
  <2>4. /\ Others(g) /\ Kept(g) /\ RestRight(g)
        /\ pc'[g] = "poll" /\ saw'[g] = FALSE /\ expired'[g] = FALSE
    BY <1>1, <1>2, <1>3, <2>1, <2>2 DEF Typed, Others, Kept, RestRight
  <2>5. /\ Size(g)' = Size(g) /\ Positions(g)' = Positions(g) /\ Ops' = Ops
        /\ Operations' = Operations /\ OpOf(g)' = OpOf(g) /\ VDiskOf(g)' = VDiskOf(g)
        /\ \A i : At(g, i)' = At(g, i)
    BY <1>1, <2>1 DEF Size, Positions, Ops, Operations, OpOf, VDiskOf, At
  <2>6. Now(g)' # "idle"
    BY <1>3, <2>5 DEF Now
  <2>7. Waits(g)' /\ ~Done(g)' /\ ~Waits(g) /\ ~Done(g)
    BY <1>1, <2>4 DEF Waits, Done
  <2>8. WaitRight(g)'
    BY <1>1, <1>4, <2>4, <2>6 DEF WaitRight, Known
  <2>9. FlightRight(g)'
    <3>1. SUFFICES ASSUME NEW i \in Positions(g), NEW o \in Operation,
                          state'[At(g, i)][o] # "idle", \A j \in failed[g] : At(g, j) # At(g, i),
                          ~Blind(g, At(g, i), o)
                   PROVE  At(g, i) = VDiskOf(g) /\ o = OpOf(g)
      BY <1>1, <2>1, <2>5, <2>7, BlindSame DEF FlightRight
    <3>2. state[At(g, i)][o] = "idle"
      BY <1>2, <1>4, <2>7, <3>1 DEF Local, FlightRight
    <3>3. At(g, i) \in VDisk
      BY <1>2, <3>1, InputFacts
    <3>4. QED BY <1>3, <3>1, <3>2, <3>3
  <2>10. CarriedRight(g)'
    BY <1>1, <1>2, <2>1, <2>4, <2>5, <2>7 DEF Local, CarriedRight, Behind, Reached
  <2>11. Local(g)'
    BY <2>4, <2>7, <2>8, <2>9, <2>10 DEF Local
  <2>12. QED BY <1>1, <2>3, <2>4, <2>11, GroupStep
<1>5. CASE ~input.wait
  <2>1. NextOperation(g) /\ UNCHANGED <<saw, expired>>
    BY <1>5 DEF Request
  <2>2. Others(g) /\ TypedAfter /\ Kept(g) /\ pc'[g] # "collected"
    BY <1>2, <2>1, NextOperationMoves DEF Onward
  <2>3. RestRight(g)
    BY <1>1, <1>2, <1>3, <2>1 DEF RestRight, Typed
  <2>4. Calm(g)
    BY <1>5 DEF Calm
  <2>5. Local(g)'
    BY <1>1, <1>2, <1>5, <2>1, <2>4, NextOperationKeeps DEF Running
  <2>6. QED BY <1>1, <2>2, <2>3, <2>5, GroupStep
<1>6. QED BY <1>4, <1>5

\* The wait goes on with another page, or another answer to what was seen.
LEMMA WaitGoesOn ==
  ASSUME IInv, NEW g \in Group, Waits(g), Waits(g)',
         UNCHANGED <<input, at, op, failed, progress, collected, state, carried>>,
         \A p \in blind[g] : p = <<at[g], op[g]>> \/ p \in blind'[g],
         \A h \in Group \ {g} : pc'[h] = pc[h],
         pc' \in [Group -> Running \cup {"queued", "finished", "collected"}],
         RestRight(g), WaitRight(g)'
  PROVE  IInv'
<1>1. Typed /\ Local(g)
  BY DEF IInv
<1>2. Others(g) /\ Kept(g) /\ TypedAfter
  BY <1>1 DEF Others, Kept, Typed, TypedAfter
<1>3. /\ Size(g)' = Size(g) /\ Positions(g)' = Positions(g) /\ Ops' = Ops
      /\ Operations' = Operations /\ OpOf(g)' = OpOf(g) /\ VDiskOf(g)' = VDiskOf(g)
      /\ \A i : At(g, i)' = At(g, i)
  BY DEF Size, Positions, Ops, Operations, OpOf, VDiskOf, At
<1>4. FlightRight(g)'
  <2>1. SUFFICES ASSUME input.wait, NEW i \in Positions(g), NEW o \in Operation,
                        state[At(g, i)][o] # "idle",
                        \A j \in failed[g] : At(g, j) # At(g, i),
                        ~Blind(g, At(g, i), o)'
                 PROVE  At(g, i) = VDiskOf(g) /\ o = OpOf(g)
    BY <1>3 DEF FlightRight
  <2>2. CASE Blind(g, At(g, i), o)
    <3>1. PICK p \in blind[g] : input.groups[g][p[1]] = At(g, i) /\ Operations[p[2]] = o
      BY <2>2 DEF Blind
    <3>2. p \notin blind'[g]
      BY <1>3, <2>1, <3>1 DEF Blind
    <3>3. p = <<at[g], op[g]>>
      BY <3>2
    <3>4. QED BY <3>1, <3>3 DEF VDiskOf, OpOf
  <2>3. CASE ~Blind(g, At(g, i), o)
    BY <1>1, <2>1, <2>3 DEF Local, FlightRight
  <2>4. QED BY <2>2, <2>3
<1>5. ~Done(g) /\ ~Done(g)' /\ pc[g] # "queued" /\ pc'[g] # "queued"
      /\ pc[g] # "collected" /\ pc'[g] # "collected"
  BY DEF Done, Waits
<1>6. CarriedRight(g)'
  <2>1. op[g] \in Int
    <3>1. op[g] \in Ops
      BY <1>1 DEF Typed
    <3>2. QED BY <3>1 DEF Ops
  <2>2. ASSUME NEW i \in Positions(g), NEW k \in Ops, Behind(g, i, k)'
        PROVE  Behind(g, i, k)
    <3>1. Reached(g, i, k) /\ ~(i = at[g] /\ k = op[g])
      <4>1. at[g] \in Nat
        BY <1>1 DEF Typed
      <4>2. Reached(g, i, k)'
        BY <2>2 DEF Behind
      <4>3. i < at[g] \/ (i = at[g] /\ k < op[g])
        BY <1>5, <4>2 DEF Reached
      <4>4. i \in Int /\ k \in Int
        BY DEF Positions, Ops
      <4>5. QED BY <1>5, <2>1, <4>1, <4>3, <4>4 DEF Reached
    <3>2. <<i, k>> \notin blind[g]
      BY <2>2, <3>1 DEF Behind
    <3>3. QED BY <2>2, <3>1, <3>2 DEF Behind
  <2>3. QED BY <1>1, <1>3, <2>2 DEF Local, CarriedRight
<1>7. Local(g)'
  BY <1>4, <1>5, <1>6 DEF Local
<1>8. QED BY <1>2, <1>5, <1>7, GroupStep

LEMMA PollKeeps ==
  ASSUME IInv, NEW g \in Group, Poll(g)
  PROVE  IInv'
<1>1. /\ pc[g] = "poll" /\ pc' = [pc EXCEPT ![g] = "check"]
      /\ page' = [page EXCEPT ![g] = IF Now(g) = "active" THEN "In progress" ELSE "No compaction"]
      /\ UNCHANGED <<input, at, op, saw, expired, blind, failed, progress, collected, state, carried>>
  BY DEF Poll, Goto, vdisks, Now
<1>2. Typed /\ WaitRight(g)
  BY DEF IInv, Local
<1>3. /\ pc \in [Group -> Running \cup {"queued", "finished", "collected"}]
      /\ page \in [Group -> {"none", "In progress", "No compaction"}]
  BY <1>2 DEF Typed
<1>4. /\ Waits(g) /\ Waits(g)' /\ \A h \in Group \ {g} : pc'[h] = pc[h]
      /\ pc' \in [Group -> Running \cup {"queued", "finished", "collected"}]
  BY <1>1, <1>3 DEF Waits, Running
<1>5. RestRight(g)
  BY <1>1, <1>2, <1>3 DEF RestRight, Typed
<1>6. Now(g) \in {"idle", "requested", "active"}
  BY <1>2, InputFacts, OperationFacts DEF Typed, Now, VDiskOf, OpOf, At
<1>7. Now(g)' = Now(g) /\ OpOf(g)' = OpOf(g) /\ VDiskOf(g)' = VDiskOf(g)
  BY <1>1 DEF Now, Operations, OpOf, VDiskOf
<1>8. page'[g] = "In progress" <=> Now(g) = "active"
  BY <1>1, <1>3
<1>9. WaitRight(g)'
  BY <1>1, <1>2, <1>4, <1>6, <1>7, <1>8 DEF WaitRight, Known
<1>10. QED BY <1>1, <1>4, <1>5, <1>9, WaitGoesOn

LEMMA CheckKeeps ==
  ASSUME IInv, NEW g \in Group, Check(g)
  PROVE  IInv'
<1>1. /\ pc[g] = "check" /\ page' = [page EXCEPT ![g] = "none"]
      /\ UNCHANGED <<input, expired, collected, state, carried>>
  BY DEF Check, vdisks
<1>2. /\ Typed /\ Local(g) /\ WaitRight(g) /\ at[g] \in Positions(g)
      /\ VDiskOf(g) = At(g, at[g])
  BY DEF IInv, Local, Typed, VDiskOf, At
<1>3. Waits(g) /\ pc[g] \in Running /\ input.wait
  BY <1>1, <1>2 DEF Waits, Running, WaitRight
<1>4. CASE page[g] # "In progress" /\ (saw[g] \/ expired[g])
  <2>1. NextOperation(g) /\ saw' = saw /\ blind' = blind
    BY <1>4 DEF Check
  <2>2. <<at[g], op[g]>> \in blind[g] \/ (Now(g) = "idle" /\ <<VDiskOf(g), OpOf(g)>> \in carried)
    BY <1>1, <1>2, <1>3, <1>4 DEF WaitRight, Known
  <2>3. Others(g) /\ TypedAfter /\ Kept(g) /\ pc'[g] # "collected"
    BY <1>2, <2>1, NextOperationMoves DEF Onward
  <2>4. RestRight(g)
    BY <1>1, <1>2, <2>1 DEF RestRight, Typed
  <2>5. <<at[g], op[g]>> \in blind[g] => Blind(g, VDiskOf(g), OpOf(g))
    BY DEF Blind, VDiskOf, OpOf
  <2>6. Calm(g)
    BY <1>1, <1>2, <2>2, <2>3, <2>5 DEF Calm, Local, FlightRight, Kept, Now
  <2>7. Local(g)'
    BY <1>1, <1>2, <1>3, <2>1, <2>2, <2>6, NextOperationKeeps
  <2>8. QED BY <1>1, <2>3, <2>4, <2>7, GroupStep
<1>5. CASE ~(page[g] # "In progress" /\ (saw[g] \/ expired[g]))
  <2>1. /\ pc' = [pc EXCEPT ![g] = "poll"] /\ UNCHANGED <<at, op, failed, progress>>
        /\ \/ /\ page[g] = "In progress" /\ saw' = [saw EXCEPT ![g] = TRUE]
              /\ blind' = [blind EXCEPT ![g] = @ \ {<<at[g], op[g]>>}]
           \/ /\ page[g] # "In progress" /\ ~saw[g] /\ ~expired[g]
              /\ saw' = saw /\ blind' = blind
    BY <1>5 DEF Check, Goto
  <2>2. /\ pc \in [Group -> Running \cup {"queued", "finished", "collected"}]
        /\ saw \in [Group -> BOOLEAN] /\ blind \in [Group -> SUBSET (Nat \X Nat)]
    BY <1>2 DEF Typed
  <2>3. /\ pc'[g] = "poll" /\ Waits(g)' /\ \A h \in Group \ {g} : pc'[h] = pc[h]
        /\ pc' \in [Group -> Running \cup {"queued", "finished", "collected"}]
    BY <2>1, <2>2 DEF Waits, Running
  <2>4. saw' \in [Group -> BOOLEAN] /\ \A h \in Group \ {g} : saw'[h] = saw[h]
    BY <2>1, <2>2
  <2>5. /\ blind' \in [Group -> SUBSET (Nat \X Nat)]
        /\ \A h \in Group \ {g} : blind'[h] = blind[h]
        /\ \A p \in blind[g] : p = <<at[g], op[g]>> \/ p \in blind'[g]
    BY <2>1, <2>2
  <2>6. RestRight(g)
    BY <1>1, <1>2, <2>4, <2>5 DEF RestRight, Typed
  <2>7. Now(g)' = Now(g) /\ OpOf(g)' = OpOf(g) /\ VDiskOf(g)' = VDiskOf(g)
    BY <1>1, <2>1 DEF Now, Operations, OpOf, VDiskOf
  <2>8. Known(g)' => Now(g) # "requested"
    BY <1>1, <1>2, <1>3, <2>1, <2>2 DEF WaitRight, Known
  <2>9. WaitRight(g)'
    BY <1>1, <1>2, <1>3, <2>3, <2>7, <2>8 DEF WaitRight
  <2>10. QED BY <1>1, <1>3, <2>1, <2>3, <2>5, <2>6, <2>9, WaitGoesOn
<1>6. QED BY <1>4, <1>5

LEMMA ExpireKeeps ==
  ASSUME IInv, NEW g \in Group, Expire(g)
  PROVE  IInv'
<1>1. /\ pc[g] \in {"poll", "check"} /\ ~expired[g]
      /\ expired' = [expired EXCEPT ![g] = TRUE]
      /\ blind' = IF Unseen(g) THEN [blind EXCEPT ![g] = @ \cup {<<at[g], op[g]>>}] ELSE blind
      /\ UNCHANGED <<input, pc, at, op, page, saw, failed, progress, collected, state, carried>>
  BY DEF Expire, vdisks
<1>2. Typed /\ WaitRight(g)
  BY DEF IInv, Local
<1>3. /\ pc \in [Group -> Running \cup {"queued", "finished", "collected"}]
      /\ Waits(g) /\ Waits(g)'
  BY <1>1, <1>2 DEF Typed, Waits
<1>4. <<at[g], op[g]>> \in Nat \X Nat /\ blind \in [Group -> SUBSET (Nat \X Nat)]
  <2>1. at[g] \in Nat /\ op[g] \in Ops /\ blind \in [Group -> SUBSET (Nat \X Nat)]
    BY <1>2 DEF Typed
  <2>2. op[g] \in Nat
    BY <2>1 DEF Ops
  <2>3. QED BY <2>1, <2>2
<1>5. /\ blind' \in [Group -> SUBSET (Nat \X Nat)] /\ blind[g] \subseteq blind'[g]
      /\ \A h \in Group \ {g} : blind'[h] = blind[h]
      /\ Unseen(g) => <<at[g], op[g]>> \in blind'[g]
  BY <1>1, <1>4
<1>6. RestRight(g)
  BY <1>1, <1>2, <1>5 DEF RestRight, Typed
<1>7. Now(g)' = Now(g) /\ OpOf(g)' = OpOf(g) /\ VDiskOf(g)' = VDiskOf(g)
  BY <1>1 DEF Now, Operations, OpOf, VDiskOf
<1>8. Now(g) \in {"idle", "requested", "active"}
  BY <1>2, InputFacts, OperationFacts DEF Typed, Now, VDiskOf, OpOf, At
<1>9. ~Unseen(g) => /\ Now(g) # "requested"
                    /\ pc[g] = "check" /\ page[g] # "In progress" => Now(g) = "idle"
  BY <1>8 DEF Unseen, Now
<1>10. WaitRight(g)'
  BY <1>1, <1>2, <1>3, <1>5, <1>7, <1>9 DEF WaitRight, Known
<1>11. QED BY <1>1, <1>3, <1>5, <1>6, <1>10, WaitGoesOn

\* The number of errors of a group is not zero if there are any.
LEMMA ErrorsCount ==
  ASSUME Typed, NEW g \in Group
  PROVE  Cardinality(failed[g]) \in Nat /\ (failed[g] # {} => Cardinality(failed[g]) # 0)
<1>1. Size(g) \in Int /\ 1 \in Int /\ failed[g] \in SUBSET (1..Size(g))
  <2>1. input \in Inputs /\ failed[g] \subseteq Positions(g)
    BY DEF Typed
  <2>2. Size(g) \in Nat
    BY <2>1, InputFacts
  <2>3. QED BY <2>1, <2>2 DEF Positions
<1>2. IsFiniteSet(failed[g])
  <2>1. IsFiniteSet(1..Size(g))
    BY <1>1, FS_Interval
  <2>2. QED BY <1>1, <2>1, FS_Subset
<1>3. QED BY <1>2, FS_CardinalityType, FS_EmptySet

LEMMA SumCounts ==
  ASSUME NEW c \in Nat, NEW n \in Nat
  PROVE  c + n \in Nat /\ (c # 0 => c + n # 0) /\ (n # 0 => c + n # 0)
OBVIOUS

LEMMA CollectKeeps ==
  ASSUME IInv, NEW g \in Group, Collect(g)
  PROVE  IInv'
<1>1. /\ pc[g] = "finished" /\ pc' = [pc EXCEPT ![g] = "collected"]
      /\ UNCHANGED <<input, at, op, page, saw, expired, blind, failed, progress, state, carried>>
  BY DEF Collect, Goto, vdisks
<1>2. Typed /\ CountsRight /\ Local(g)
  BY DEF IInv
<1>3. /\ collected \in Nat /\ collected' \in Nat
      /\ collected # 0 => collected' # 0
      /\ failed[g] # {} => collected' # 0
  <2>1. collected \in Nat
    BY <1>2 DEF Typed
  <2>2. collected' = collected + Cardinality(failed[g])
    BY DEF Collect
  <2>3. Cardinality(failed[g]) \in Nat /\ (failed[g] # {} => Cardinality(failed[g]) # 0)
    BY <1>2, ErrorsCount
  <2> DEFINE n == Cardinality(failed[g])
             c == collected + n
  <2>4. n \in Nat /\ (failed[g] # {} => n # 0)
    BY <2>3
  <2>5. c \in Nat /\ (collected # 0 => c # 0) /\ (n # 0 => c # 0)
    BY <2>1, <2>4, SumCounts
  <2>6. collected' = c
    BY <2>2
  <2> HIDE DEF n, c
  <2>7. QED BY <2>1, <2>4, <2>5, <2>6
<1>4. pc \in [Group -> Running \cup {"queued", "finished", "collected"}]
  BY <1>2 DEF Typed
<1>5. Typed'
  BY <1>1, <1>2, <1>3, <1>4 DEF Typed, Group, Ops, Operations, Size, Positions
<1>6. CountsRight'
  <2>1. \A h \in Group : pc'[h] = "collected" => h = g \/ pc[h] = "collected"
    BY <1>1, <1>4
  <2>2. QED BY <1>1, <1>2, <1>3, <2>1 DEF CountsRight, Group
<1>7. Local(g)'
  <2>1. /\ Size(g)' = Size(g) /\ Positions(g)' = Positions(g) /\ Ops' = Ops
        /\ Operations' = Operations /\ \A i : At(g, i)' = At(g, i)
    BY <1>1 DEF Size, Positions, Ops, Operations, At
  <2>2. ~Waits(g) /\ ~Waits(g)' /\ Done(g) /\ Done(g)' /\ pc'[g] = "collected"
    BY <1>1, <1>4 DEF Waits, Done
  <2>3. FlightRight(g)'
    BY <1>1, <1>2, <2>1, <2>2, BlindSame DEF Local, FlightRight
  <2>4. CarriedRight(g)'
    BY <1>1, <1>2, <2>1, <2>2 DEF Local, CarriedRight, Behind, Reached
  <2>5. at'[g] = Size(g)
    BY <1>1, <1>2, <2>2 DEF Local
  <2>6. QED BY <2>1, <2>2, <2>3, <2>4, <2>5 DEF Local, WaitRight
<1>8. \A h \in Group : Local(h)'
  <2>1. SUFFICES ASSUME NEW h \in Group \ {g} PROVE Local(h)'
    BY <1>7
  <2>2. Same(h)
    BY <1>1, <1>4 DEF Same
  <2>3. QED BY <1>1, <1>2, <2>2, SameKeeps DEF IInv
<1>9. QED BY <1>1, <1>5, <1>6, <1>8 DEF IInv, Group

-----------------------------------------------------------------------------
(* Steps of a VDisk.                                                       *)

\* Operation o of v goes on, or is over and known to be.
Advances(v, o) ==
  /\ state[v][o] # "idle"
  /\ \/ state[v][o] = "requested" /\ state' = [state EXCEPT ![v][o] = "active"] /\ carried' = carried
     \/ state' = [state EXCEPT ![v][o] = "idle"] /\ carried' = carried \cup {<<v, o>>}
  /\ UNCHANGED <<input, pc, at, op, page, saw, expired, blind, failed, progress, collected>>

LEMMA VDiskKeeps ==
  ASSUME IInv, NEW v \in VDisk, NEW o \in Operation, Advances(v, o)
  PROVE  IInv'
<1>1. Typed /\ CountsRight
  BY DEF IInv
<1>2. /\ state' \in [VDisk -> [Operation -> {"idle", "requested", "active"}]]
      /\ \A u \in VDisk, q \in Operation : u # v \/ q # o => state'[u][q] = state[u][q]
      /\ state'[v][o] \in {"idle", "active"}
      /\ state'[v][o] = "active" => state[v][o] = "requested"
      /\ state'[v][o] = "idle" => <<v, o>> \in carried'
      /\ carried \subseteq carried'
      /\ state[v][o] # "idle"
  <2>1. state \in [VDisk -> [Operation -> {"idle", "requested", "active"}]]
    BY <1>1 DEF Typed
  <2>2. CASE state[v][o] = "requested" /\ state' = [state EXCEPT ![v][o] = "active"] /\ carried' = carried
    BY <2>1, <2>2
  <2>3. CASE state' = [state EXCEPT ![v][o] = "idle"] /\ carried' = carried \cup {<<v, o>>}
    BY <2>1, <2>3 DEF Advances
  <2>4. QED BY <2>2, <2>3 DEF Advances
<1>3. UNCHANGED <<input, pc, at, op, page, saw, expired, blind, failed, progress, collected>>
  BY DEF Advances
<1>4. Typed'
  BY <1>1, <1>2, <1>3 DEF Typed, Group, Ops, Operations, Size, Positions
<1>5. CountsRight'
  BY <1>1, <1>3 DEF CountsRight, Group
<1>6. ASSUME NEW g \in Group
      PROVE  Local(g)'
  <2>1. /\ Size(g)' = Size(g) /\ Positions(g)' = Positions(g) /\ Ops' = Ops
        /\ Operations' = Operations /\ OpOf(g)' = OpOf(g) /\ VDiskOf(g)' = VDiskOf(g)
        /\ \A i : At(g, i)' = At(g, i)
    BY <1>3 DEF Size, Positions, Ops, Operations, OpOf, VDiskOf, At
  <2>2. Waits(g)' = Waits(g) /\ Done(g)' = Done(g)
    BY <1>3 DEF Waits, Done
  <2>3. Local(g) /\ VDiskOf(g) \in VDisk /\ OpOf(g) \in Operation
    BY <1>1, InputFacts, OperationFacts DEF IInv, Typed, VDiskOf, OpOf, At
  <2>4. /\ Now(g)' = "requested" => Now(g) = "requested"
        /\ Now(g) = "idle" => Now(g)' = "idle"
        /\ Now(g)' = "idle" => Now(g) = "idle" \/ <<VDiskOf(g), OpOf(g)>> \in carried'
    BY <1>2, <2>1, <2>3 DEF Now
  <2>5. WaitRight(g)'
    BY <1>2, <1>3, <2>1, <2>2, <2>3, <2>4 DEF Local, WaitRight, Known
  <2>6. \A i \in Positions(g), q \in Operation :
          state'[At(g, i)][q] # "idle" => state[At(g, i)][q] # "idle"
    BY <1>1, <1>2, InputFacts DEF Typed
  <2>7. FlightRight(g)'
    BY <1>3, <2>1, <2>2, <2>3, <2>6, BlindSame DEF Local, FlightRight
  <2>8. CarriedRight(g)'
    <3>1. \A i, k : Behind(g, i, k)' = Behind(g, i, k)
      BY <1>3, <2>2 DEF Behind, Reached
    <3>2. carried \subseteq carried' /\ input' = input
      BY <1>2, <1>3
    <3>3. QED BY <2>1, <2>3, <3>1, <3>2 DEF Local, CarriedRight
  <2>9. QED BY <1>3, <2>1, <2>2, <2>3, <2>5, <2>7, <2>8 DEF Local
<1>7. QED BY <1>3, <1>4, <1>5, <1>6 DEF IInv, Group

-----------------------------------------------------------------------------
(* The invariant and what follows from it.                                 *)

LEMMA NextKeeps ==
  ASSUME IInv, [Next]_vars
  PROVE  IInv'
<1>1. CASE \E g \in Group : Work(g) \/ Expire(g)
  <2>1. PICK g \in Group : Work(g) \/ Expire(g)
    BY <1>1
  <2>2. QED BY <2>1, StartGroupKeeps, ListKeeps, RequestKeeps, RequestFailsKeeps,
       PollKeeps, CheckKeeps, ExpireKeeps, CollectKeeps DEF Work
<1>2. CASE \E v \in VDisk, o \in Operation : Appear(v, o) \/ Finish(v, o)
  <2>1. PICK v \in VDisk, o \in Operation : Appear(v, o) \/ Finish(v, o)
    BY <1>2
  <2>2. Advances(v, o)
    BY <2>1 DEF Appear, Finish, Advances, task
  <2>3. QED BY <2>2, VDiskKeeps
<1>3. CASE UNCHANGED vars
  <2>1. /\ UNCHANGED <<input, pc, at, op, page, saw, expired, blind, failed, progress, collected>>
        /\ UNCHANGED <<state, carried>>
    BY <1>3 DEF vars, task, vdisks
  <2>2. Typed' /\ CountsRight'
    BY <2>1 DEF IInv, Typed, CountsRight, Group, Ops, Operations, Size, Positions
  <2>3. ASSUME NEW g \in Group
        PROVE  Local(g)'
    <3>1. Same(g)
      BY <2>1 DEF Same
    <3>2. QED BY <2>1, <3>1, SameKeeps DEF IInv
  <2>4. QED BY <2>1, <2>2, <2>3 DEF IInv, Group
<1>4. QED BY <1>1, <1>2, <1>3 DEF Next, Terminated

LEMMA InitRight == Init => IInv
<1>1. SUFFICES ASSUME Init PROVE IInv
  OBVIOUS
<1>2. /\ pc = [g \in Group |-> "queued"] /\ at = [g \in Group |-> 1] /\ op = [g \in Group |-> 1]
       /\ page = [g \in Group |-> "none"] /\ saw = [g \in Group |-> FALSE]
       /\ blind = [g \in Group |-> {}]
       /\ expired = [g \in Group |-> FALSE] /\ failed = [g \in Group |-> {}]
       /\ collected = 0 /\ input \in Inputs
  BY <1>1 DEF Init
<1>3. state = [v \in VDisk |-> [o \in Operation |-> "idle"]]
  BY <1>1 DEF Init
<1>4. progress = [done |-> 0, errors |-> 0]
  BY <1>1 DEF Init
<1>5. \A g \in Group : Size(g) \in Nat \ {0}
  BY <1>2, InputFacts
<1>6. 1 \in Ops
  BY <1>2, OperationFacts DEF Ops
<1>7. \A g \in Group : 1 \in Positions(g)
  BY <1>5 DEF Positions
<1>8. progress.errors = 0
  BY <1>4
<1>9. state \in [VDisk -> [Operation -> {"idle", "requested", "active"}]]
  BY <1>3
<1>10. Typed
  BY <1>2, <1>6, <1>7, <1>8, <1>9 DEF Typed
<1>11. CountsRight
  BY <1>2, <1>8 DEF CountsRight
<1>12. ASSUME NEW g \in Group
      PROVE  Local(g)
  <2>1. ~Waits(g) /\ ~Done(g) /\ pc[g] = "queued" /\ at[g] = 1 /\ op[g] = 1 /\ failed[g] = {}
    BY <1>2 DEF Waits, Done
  <2>2. \A i \in Positions(g) : At(g, i) \in VDisk
    BY <1>2, InputFacts
  <2>3. FlightRight(g)
    BY <1>3, <2>2 DEF FlightRight
  <2>4. ~(\E i \in Positions(g), k \in Ops : Reached(g, i, k))
    BY <2>1 DEF Reached, Positions, Ops
  <2>5. CarriedRight(g)
    BY <2>4 DEF CarriedRight, Behind
  <2>6. QED BY <2>1, <2>3, <2>5 DEF Local, WaitRight
<1>13. QED BY <1>10, <1>11, <1>12 DEF IInv

LEMMA Invariance == Spec => []IInv
<1>1. IInv /\ [Next]_vars => IInv'
  BY NextKeeps
<1>2. QED BY <1>1, InitRight, PTL DEF Spec

\* What a group has passed, and what it is at, are VDisks of the group.
LEMMA PassedAre ==
  ASSUME IInv, NEW g \in Group, NEW v \in Passed(g) \cup AtWork(g)
  PROVE  \E i \in Positions(g) : v = At(g, i)
<1>1. at[g] \in Positions(g) /\ Size(g) \in Nat
  BY InputFacts DEF IInv, Typed
<1>2. CASE v \in AtWork(g)
  BY <1>1, <1>2 DEF AtWork, VDiskOf, At
<1>3. CASE v \in Passed(g)
  <2>1. \E i \in (1..Size(g)) \cup (1..(at[g] - 1)) : v = At(g, i)
    BY <1>3 DEF Passed, VDisksAt, At
  <2>2. \A i \in (1..Size(g)) \cup (1..(at[g] - 1)) : i \in Positions(g)
    BY <1>1 DEF Positions
  <2>3. QED BY <2>1, <2>2
<1>4. QED BY <1>2, <1>3

\* "Wait until operation finishes", "VDisks inside one group are processed
\* sequentially": of the VDisks a group has come to, the only operation in flight
\* is the one that is waited for, apart from requests reported as failed and
\* operations that show after deadline_to_appear (process_group,
\* wait_until_idle).
THEOREM WaitIsRight == Spec => []WaitedFor
<1>1. ASSUME IInv PROVE WaitedFor
  <2>1. SUFFICES ASSUME input.wait, NEW g \in Group, NEW o \in Operation,
                        NEW v \in (Passed(g) \cup AtWork(g)) \ VDisksAt(g, failed[g]),
                        state[v][o] # "idle", ~Blind(g, v, o)
                 PROVE  Waits(g) /\ v = VDiskOf(g) /\ o = OpOf(g)
    BY DEF WaitedFor, Waits
  <2>2. PICK i \in Positions(g) : v = At(g, i)
    BY <1>1, PassedAre
  <2>3. \A j \in failed[g] : At(g, j) # At(g, i)
    BY <2>1, <2>2 DEF VDisksAt, At
  <2>4. QED BY <1>1, <2>1, <2>2, <2>3 DEF IInv, Local, FlightRight
<1>2. IInv => WaitedFor
  BY <1>1
<1>3. QED BY <1>2, Invariance, PTL

\* Exit status 0 of a run that waits means that every selected VDisk has
\* finished every operation of the mode that a page has shown, or that was over
\* before the deadline, and the summary of Progress agrees with it
\* (run_operations, main).
THEOREM ExitStatusIsRight == Spec => []SuccessMeansCarriedOut
<1>1. ASSUME IInv PROVE SuccessMeansCarriedOut
  <2>1. SUFFICES ASSUME Success
                 PROVE  /\ progress.errors = 0
                        /\ \A g \in Group : \A i \in 1..Size(g) : \A k \in 1..Len(Operations) :
                             input.wait /\ ~input.dryRun =>
                               \/ <<input.groups[g][i], Operations[k]>> \in carried
                               \/ <<i, k>> \in blind[g]
    BY DEF SuccessMeansCarriedOut
  <2>2. \A g \in Group : pc[g] = "collected" /\ failed[g] = {}
    BY <1>1, <2>1 DEF IInv, CountsRight, Success
  <2>3. progress.errors = 0
    BY <1>1, <2>2 DEF IInv, CountsRight
  <2>4. \A g \in Group : \A i \in Positions(g), k \in Ops :
          <<i, k>> \notin blind[g] => Behind(g, i, k)
    BY <2>2 DEF Behind, Reached, Done
  <2>5. \A g \in Group : CarriedRight(g)
    BY <1>1 DEF IInv, Local
  <2>6. QED BY <2>3, <2>4, <2>5 DEF CarriedRight, Positions, Ops, At
<1>2. IInv => SuccessMeansCarriedOut
  BY <1>1
<1>3. QED BY <1>2, Invariance, PTL
=============================================================================
