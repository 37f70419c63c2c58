-------------------------- MODULE FixSchemes_proofs --------------------------
(***************************************************************************)
(* Proofs about FixSchemes, for every export and every number of runs: the *)
(* types; and of runs that do not overlap, that the export can always be   *)
(* put back as it was from the saved originals, that it can be imported    *)
(* after a run that exits with 0, and that no later run changes it.        *)
(***************************************************************************)
EXTENDS FixSchemes, TLAPS

USE KeysAssumption, AttributeAssumption, NoObjectAssumption

\* A run that is at work is at a place of the listing.
Within ==
  \A r \in Run :
    /\ pc[r] = "idle" => pos[r] = 1
    /\ pc[r] \in Requests => pos[r] <= Len(Keys)

\* The part of Typed that the locals, the steps and the counters make up.
RunsTyped ==
  /\ pc \in [Run -> {"idle"} \cup Requests \cup Ended]
  /\ pos \in [Run -> 1..(Len(Keys) + 1)]
  /\ raw \in [Run -> Scheme]
  /\ old \in [Run -> Scheme \cup {NoObject}]
  /\ stats \in [Run -> Stats]
  /\ \A r \in Run : Handled(r) = pos[r] - 1
  /\ Within

StoreTyped ==
  /\ scheme \in [Key -> Scheme]
  /\ sum \in [Key -> Scheme \cup {NoObject}]
  /\ schemeOrig \in [Key -> Scheme \cup {NoObject}]
  /\ sumOrig \in [Key -> Scheme \cup {NoObject}]

ConstantTyped ==
  /\ first \in [Key -> [scheme : Scheme, sum : Scheme \cup {NoObject}]]
  /\ dryRun \in [Run -> BOOLEAN]

Typed == RunsTyped /\ StoreTyped /\ ConstantTyped

LEMMA KeysLength == Len(Keys) \in Nat /\ (Keys # << >> => Len(Keys) >= 1)
OBVIOUS

LEMMA AtKey ==
  ASSUME Typed, NEW r \in Run, pc[r] \in Requests
  PROVE  At(r) \in Key
<1>1. pos[r] \in 1..Len(Keys)
  BY KeysLength DEF Typed, RunsTyped, StoreTyped, ConstantTyped, Within
<1>2. QED BY <1>1 DEF At

LEMMA UnreadableIsScheme == Unreadable \in Scheme
BY DEF Unreadable, Scheme

LEMMA RewrittenIsScheme ==
  ASSUME NEW s \in Scheme
  PROVE  Rewritten(s) \in Scheme
BY DEF Rewritten, Scheme

Total(s) == s["updated"] + s["skipped"] + s["repaired"] + s["errors"]

\* One more directory is counted, by one counter.
LEMMA CountOne ==
  ASSUME NEW c \in Counters, NEW s \in Stats
  PROVE  /\ [s EXCEPT ![c] = @ + 1] \in Stats
         /\ Total([s EXCEPT ![c] = @ + 1]) = Total(s) + 1
<1> DEFINE t == [s EXCEPT ![c] = @ + 1]
<1>1. t \in Stats
  BY DEF Stats
<1>t. t = [s EXCEPT ![c] = @ + 1]
  OBVIOUS
<1> HIDE DEF t
<1>2. /\ s["updated"] \in Nat /\ s["skipped"] \in Nat
      /\ s["repaired"] \in Nat /\ s["errors"] \in Nat
  BY DEF Stats, Counters
<1>3. CASE c = "updated"
  <2>1. /\ t["updated"] = s["updated"] + 1
        /\ t["skipped"] = s["skipped"] /\ t["repaired"] = s["repaired"] /\ t["errors"] = s["errors"]
    BY <1>3, <1>t DEF Stats, Counters
  <2>2. Total(t) = Total(s) + 1
    BY <1>2, <2>1 DEF Total
  <2>3. QED BY <1>1, <1>t, <2>2
<1>4. CASE c = "skipped"
  <2>1. /\ t["skipped"] = s["skipped"] + 1
        /\ t["updated"] = s["updated"] /\ t["repaired"] = s["repaired"] /\ t["errors"] = s["errors"]
    BY <1>4, <1>t DEF Stats, Counters
  <2>2. Total(t) = Total(s) + 1
    BY <1>2, <2>1 DEF Total
  <2>3. QED BY <1>1, <1>t, <2>2
<1>5. CASE c = "repaired"
  <2>1. /\ t["repaired"] = s["repaired"] + 1
        /\ t["updated"] = s["updated"] /\ t["skipped"] = s["skipped"] /\ t["errors"] = s["errors"]
    BY <1>5, <1>t DEF Stats, Counters
  <2>2. Total(t) = Total(s) + 1
    <3> DEFINE a == s["updated"] + s["skipped"]
    <3>1. a \in Nat /\ Total(t) = a + (s["repaired"] + 1) + s["errors"]
      BY <1>2, <2>1 DEF Total
    <3>2. Total(s) = a + s["repaired"] + s["errors"]
      BY DEF Total
    <3> HIDE DEF a
    <3>3. QED BY <1>2, <3>1, <3>2
  <2>3. QED BY <1>1, <1>t, <2>2
<1>6. CASE c = "errors"
  <2>1. /\ t["errors"] = s["errors"] + 1
        /\ t["updated"] = s["updated"] /\ t["skipped"] = s["skipped"] /\ t["repaired"] = s["repaired"]
    BY <1>6, <1>t DEF Stats, Counters
  <2>2. Total(t) = Total(s) + 1
    BY <1>2, <2>1 DEF Total
  <2>3. QED BY <1>1, <1>t, <2>2
<1>7. QED BY <1>t, <1>3, <1>4, <1>5, <1>6 DEF Counters

LEMMA InitTyped == Init => Typed
<1> SUFFICES ASSUME Init PROVE Typed
  OBVIOUS
<1>1. [c \in Counters |-> 0] \in Stats /\ \A r \in Run : Handled(r) = 0
  BY DEF Init, Stats, Counters, Handled
<1>2. RunsTyped
  BY <1>1, KeysLength, UnreadableIsScheme DEF Init, RunsTyped, Within, Requests
<1>3. StoreTyped /\ ConstantTyped
  BY DEF Init, StoreTyped, ConstantTyped
<1>4. QED BY <1>2, <1>3 DEF Typed

LEMMA NextKeyTyped ==
  ASSUME Typed, NEW r \in Run, NEW c \in Counters, pc[r] \in Requests, NextKey(r, c)
  PROVE  RunsTyped'
<1>1. pos[r] \in 1..Len(Keys) /\ stats[r] \in Stats /\ Handled(r) = pos[r] - 1
  BY KeysLength DEF Typed, RunsTyped, StoreTyped, ConstantTyped, Within
<1>2. /\ [stats[r] EXCEPT ![c] = @ + 1] \in Stats
      /\ Total([stats[r] EXCEPT ![c] = @ + 1]) = pos[r] - 1 + 1
  BY <1>1, CountOne DEF Handled, Total
<1>3. /\ stats' = [stats EXCEPT ![r] = [stats[r] EXCEPT ![c] = @ + 1]]
      /\ pos' = [pos EXCEPT ![r] = pos[r] + 1]
      /\ pc' = [pc EXCEPT ![r] = IF pos[r] = Len(Keys) THEN "done" ELSE "get"]
  BY DEF NextKey, Goto, Typed, RunsTyped, StoreTyped, ConstantTyped
<1>4. stats' \in [Run -> Stats]
  BY <1>2, <1>3 DEF Typed, RunsTyped, StoreTyped, ConstantTyped
<1>5. ASSUME NEW q \in Run PROVE Handled(q)' = pos'[q] - 1
  <2>1. CASE q = r
    <3>1. stats'[q] = [stats[r] EXCEPT ![c] = @ + 1] /\ pos'[q] = pos[r] + 1
      BY <1>3, <2>1 DEF Typed, RunsTyped, StoreTyped, ConstantTyped
    <3>2. pos[r] - 1 + 1 = pos[r] + 1 - 1
      BY <1>1, KeysLength
    <3>3. Handled(q)' = Total(stats'[q])
      BY DEF Handled, Total
    <3>4. Total(stats'[q]) = pos[r] - 1 + 1
      BY <1>2, <3>1
    <3>5. QED BY <1>1, KeysLength, <3>1, <3>2, <3>3, <3>4
  <2>2. CASE q # r
    BY <1>3, <2>2 DEF Typed, RunsTyped, StoreTyped, ConstantTyped, Handled
  <2>3. QED BY <2>1, <2>2
<1>6. pos' \in [Run -> 1..(Len(Keys) + 1)] /\ pc' \in [Run -> {"idle"} \cup Requests \cup Ended]
  BY <1>1, <1>3, KeysLength DEF Typed, RunsTyped, StoreTyped, ConstantTyped, Requests, Ended
<1>7. raw' \in [Run -> Scheme] /\ old' \in [Run -> Scheme \cup {NoObject}]
  BY UnreadableIsScheme DEF NextKey, Typed, RunsTyped, StoreTyped, ConstantTyped
<1>8. Within'
  BY <1>1, <1>3, KeysLength DEF Within, Typed, RunsTyped, StoreTyped, ConstantTyped, Requests
<1>9. QED BY <1>4, <1>5, <1>6, <1>7, <1>8 DEF RunsTyped

\* A run goes on with the same directory.
LEMMA GotoTyped ==
  ASSUME Typed, NEW r \in Run, NEW next \in Requests \cup {"killed"},
         pc[r] \in Requests, Goto(r, next), UNCHANGED <<pos, stats>>,
         raw' \in [Run -> Scheme], old' \in [Run -> Scheme \cup {NoObject}]
  PROVE  RunsTyped'
BY DEF Typed, RunsTyped, StoreTyped, ConstantTyped, Within, Goto, Handled, Requests, Ended

LEMMA WriteTyped ==
  ASSUME Typed, NEW r \in Run, pc[r] \in Requests, Write(r)
  PROVE  StoreTyped'
<1> USE DEF Typed, RunsTyped, StoreTyped, ConstantTyped
<1>1. At(r) \in Key /\ Rewritten(raw[r]) \in Scheme
  BY AtKey, RewrittenIsScheme
<1>2. CASE pc[r] = "copyOrig"
  BY <1>1, <1>2 DEF Write, Original
<1>3. CASE pc[r] = "put" /\ ~ dryRun[r]
  BY <1>1, <1>3 DEF Write
<1>4. CASE pc[r] = "copySumOrig"
  BY <1>1, <1>4 DEF Write
<1>5. CASE pc[r] = "putSum" /\ ~ dryRun[r]
  BY <1>1, <1>5 DEF Write
<1>6. CASE UNCHANGED store
  BY <1>1, <1>6 DEF store
<1>7. QED BY <1>2, <1>3, <1>4, <1>5, <1>6 DEF Write

LEMMA ReadsTyped ==
  ASSUME Typed, NEW r \in Run, NEW next \in Requests, pc[r] \in Requests, Reads(r, next)
  PROVE  Typed'
BY GotoTyped DEF Reads, store, locals, Typed, RunsTyped, StoreTyped, ConstantTyped

\* A directory is finished, and nothing is written.
LEMMA SkipTyped ==
  ASSUME Typed, NEW r \in Run, NEW c \in Counters, pc[r] \in Requests,
         NextKey(r, c), UNCHANGED <<store, first, dryRun>>
  PROVE  Typed'
BY NextKeyTyped DEF store, Typed, StoreTyped, ConstantTyped

LEMMA StepTyped ==
  ASSUME Typed, NEW r \in Run, Step(r)
  PROVE  Typed'
<1> USE DEF Counters
<1>r. Requests = {"get", "plainOrig", "plainSum", "plainRead", "orig", "copyOrig",
                  "sum", "read", "put", "sumOrig", "copySumOrig", "putSum"}
  BY DEF Requests
<1>k. pc[r] \in Requests => At(r) \in Key
  BY AtKey
<1>1. CASE Begin(r)
  <2>1. RunsTyped'
    BY <1>1, <1>r, KeysLength
    DEF Begin, Goto, locals, Typed, RunsTyped, StoreTyped, ConstantTyped, Within, Handled, Ended
  <2>2. QED
    BY <1>1, <2>1 DEF Begin, store, Typed, RunsTyped, StoreTyped, ConstantTyped
<1>2. CASE Get(r)
  <2>1. CASE ~ scheme[At(r)].valid
    BY <1>2, <1>r, <2>1, SkipTyped DEF Get
  <2>2. CASE scheme[At(r)].valid
    <3>1. raw' \in [Run -> Scheme] /\ UNCHANGED <<pos, old, stats>>
      BY <1>2, <1>r, <1>k, <2>2 DEF Get, Typed, RunsTyped, StoreTyped, ConstantTyped
    <3>2. Goto(r, "orig") \/ Goto(r, "plainOrig")
      BY <1>2, <2>2 DEF Get
    <3>3. RunsTyped'
      BY <1>2, <1>r, <3>1, <3>2, GotoTyped DEF Get, Typed, RunsTyped, StoreTyped, ConstantTyped
    <3>4. QED BY <1>2, <3>3 DEF Get, store, Typed, RunsTyped, StoreTyped, ConstantTyped
  <2>3. QED BY <2>1, <2>2
<1>3. CASE PlainOrig(r) BY <1>3, <1>r, ReadsTyped, SkipTyped DEF PlainOrig
<1>4. CASE PlainSum(r)  BY <1>4, <1>r, ReadsTyped, SkipTyped DEF PlainSum
<1>5. CASE PlainRead(r)
  <2>1. CASE sum[At(r)] = raw[r]
    BY <1>5, <1>r, <2>1, SkipTyped DEF PlainRead
  <2>2. CASE sum[At(r)] # raw[r]
    <3>1. old' \in [Run -> Scheme \cup {NoObject}] /\ UNCHANGED <<pos, raw, stats>>
      BY <1>5, <1>r, <1>k, <2>2 DEF PlainRead, Typed, RunsTyped, StoreTyped, ConstantTyped
    <3>2. RunsTyped'
      BY <1>5, <1>r, <2>2, <3>1, GotoTyped DEF PlainRead, Typed, RunsTyped, StoreTyped, ConstantTyped
    <3>3. QED BY <1>5, <3>2 DEF PlainRead, store, Typed, RunsTyped, StoreTyped, ConstantTyped
  <2>3. QED BY <2>1, <2>2
<1>6. CASE Orig(r)      BY <1>6, <1>r, ReadsTyped DEF Orig
<1>7. CASE SumExists(r) BY <1>7, <1>r, ReadsTyped DEF SumExists
<1>8. CASE SumOrig(r)   BY <1>8, <1>r, ReadsTyped DEF SumOrig
<1>9. CASE Read(r)
  <2>1. old' \in [Run -> Scheme \cup {NoObject}] /\ UNCHANGED <<pos, raw, stats>>
    BY <1>9, <1>r, <1>k DEF Read, Typed, RunsTyped, StoreTyped, ConstantTyped
  <2>2. RunsTyped'
    BY <1>9, <1>r, <2>1, GotoTyped DEF Read, Typed, RunsTyped, StoreTyped, ConstantTyped
  <2>3. QED BY <1>9, <2>2 DEF Read, store, Typed, RunsTyped, StoreTyped, ConstantTyped
<1>10. CASE CopyOrig(r) \/ CopySumOrig(r)
  <2>1. RunsTyped'
    BY <1>10, <1>r, GotoTyped DEF CopyOrig, CopySumOrig, locals, Typed, RunsTyped, StoreTyped, ConstantTyped
  <2>2. QED
    BY <1>10, <1>r, <2>1, WriteTyped DEF CopyOrig, CopySumOrig, Typed, ConstantTyped
<1>11. CASE Put(r)
  <2>1. RunsTyped'
    <3>1. CASE Goto(r, "sumOrig") /\ UNCHANGED locals
      BY <1>11, <1>r, <3>1, GotoTyped DEF Put, locals, Typed, RunsTyped, StoreTyped, ConstantTyped
    <3>2. CASE NextKey(r, "updated")
      BY <1>11, <1>r, <3>2, NextKeyTyped DEF Put
    <3>3. QED BY <1>11, <3>1, <3>2 DEF Put
  <2>2. QED
    BY <1>11, <1>r, <2>1, WriteTyped DEF Put, Typed, ConstantTyped
<1>12. CASE PutSum(r)
  <2>1. RunsTyped'
    BY <1>12, <1>r, NextKeyTyped DEF PutSum
  <2>2. QED
    BY <1>12, <1>r, <2>1, WriteTyped DEF PutSum, Typed, ConstantTyped
<1>13. CASE Fails(r)
  <2>1. RunsTyped'
    BY <1>13, NextKeyTyped DEF Fails, Requesting
  <2>2. StoreTyped'
    BY <1>13, WriteTyped DEF Fails, Requesting, store, Typed, StoreTyped
  <2>3. QED BY <1>13, <2>1, <2>2 DEF Fails, Typed, ConstantTyped
<1>14. CASE Kill(r)
  <2>1. RunsTyped'
    BY <1>14, GotoTyped DEF Kill, locals, Typed, RunsTyped, StoreTyped, ConstantTyped
  <2>2. QED BY <1>14, <2>1 DEF Kill, store, Typed, RunsTyped, StoreTyped, ConstantTyped
<1>15. QED
  BY <1>1, <1>2, <1>3, <1>4, <1>5, <1>6, <1>7, <1>8, <1>9, <1>10, <1>11, <1>12,
     <1>13, <1>14
  DEF Step

LEMMA StutterTyped ==
  ASSUME Typed, UNCHANGED vars
  PROVE  Typed'
BY DEF vars, store, locals, Typed, RunsTyped, StoreTyped, ConstantTyped, Within, Handled

LEMMA AlwaysTyped == Spec => []Typed
<1>1. Typed /\ [Next]_vars => Typed'
  BY StepTyped, StutterTyped DEF Next, Terminated
<1>2. QED BY <1>1, InitTyped, PTL DEF Spec

\* The variables keep their types, and every directory a run has passed is
\* counted exactly once in its summary.
THEOREM TypeCorrect == Spec => []TypeOK
<1>1. Typed => TypeOK
  BY DEF Typed, RunsTyped, StoreTyped, ConstantTyped, TypeOK
<1>2. QED BY <1>1, AlwaysTyped, PTL

-----------------------------------------------------------------------------
(* The originals.                                                          *)

Working(r) == pc[r] \in Requests

\* Runs do not overlap.
OneAtWork == \A q, r \in Run : Working(q) /\ Working(r) => q = r

\* An object without an original beside it is the one of the export, and the
\* original of one with an original is.
Saved(k) ==
  /\ schemeOrig[k] \in {NoObject, first[k].scheme}
  /\ sumOrig[k] \in {NoObject, first[k].sum}
  /\ schemeOrig[k] = NoObject => scheme[k] = first[k].scheme
  /\ sumOrig[k] = NoObject => sum[k] = first[k].sum

\* What a run has found out about the originals before it writes.
Checked(r) ==
  /\ pc[r] = "copyOrig" => schemeOrig[At(r)] = NoObject
  /\ pc[r] \in {"sum", "read", "put"} /\ ~ dryRun[r] => schemeOrig[At(r)] # NoObject
  /\ pc[r] = "copySumOrig" => sumOrig[At(r)] = NoObject
  /\ pc[r] = "putSum" /\ ~ dryRun[r] => sumOrig[At(r)] # NoObject
  /\ pc[r] \in {"idle", "get", "orig", "copyOrig", "sum"} => old[r] = NoObject
  /\ pc[r] \in {"read", "plainRead", "sumOrig", "copySumOrig"} => sum[At(r)] # NoObject
  /\ pc[r] = "put" /\ old[r] # NoObject => sum[At(r)] # NoObject

\* The inductive invariant: the check of an original and the write that relies
\* on it are separate requests, and no other run is at work between them.
IInv ==
  /\ Typed
  /\ OneAtWork
  /\ \A k \in Key : Saved(k)
  /\ \A r \in Run : Checked(r)

LEMMA InitSaved == Init => IInv
BY InitTyped DEF Init, IInv, OneAtWork, Working, Requests, Saved, Checked

LEMMA IInvSafe == IInv => OriginalsKept /\ Recoverable
BY DEF IInv, OriginalsKept, Recoverable, Saved

\* Only the run at work moves.
LEMMA StepOneAtWork ==
  ASSUME ~ Overlap, IInv, NEW r \in Run, Step(r)
  PROVE  /\ OneAtWork'
         /\ \A q \in Run \ {r} : ~ Working(q) /\ pc'[q] = pc[q] /\ old'[q] = old[q]
<1> USE DEF IInv, Typed, RunsTyped
<1>1. \A q \in Run \ {r} : ~ Working(q)
  BY DEF Step, Begin, Get, PlainOrig, PlainSum, PlainRead, Orig, CopyOrig, SumExists,
     Read, Put, SumOrig, CopySumOrig, PutSum, Fails, Requesting, Kill, Requests, OneAtWork, Working
<1>2. \E w \in {"get", "done", "killed"} \cup Requests : pc' = [pc EXCEPT ![r] = w]
  BY DEF Step, Begin, Get, PlainOrig, PlainSum, PlainRead, Orig, CopyOrig, SumExists,
     Read, Put, SumOrig, CopySumOrig, PutSum, Fails, Requesting, Kill, Requests, Reads, NextKey, Goto
<1>3. \A q \in Run \ {r} : old'[q] = old[q]
  BY DEF Step, Begin, Get, PlainOrig, PlainSum, PlainRead, Orig, CopyOrig, SumExists,
     Read, Put, SumOrig, CopySumOrig, PutSum, Fails, Requesting, Kill, Reads, NextKey, locals
<1>4. QED BY <1>1, <1>2, <1>3 DEF OneAtWork, Working

\* The other runs have nothing to find out while r is at work.
LEMMA OthersChecked ==
  ASSUME IInv, NEW r \in Run, Checked(r)',
         \A q \in Run \ {r} : ~ Working(q) /\ pc'[q] = pc[q] /\ old'[q] = old[q]
  PROVE  (\A q \in Run : Checked(q))'
<1>1. ASSUME NEW q \in Run PROVE Checked(q)'
  <2>1. CASE q = r
    BY <2>1
  <2>2. CASE q # r
    BY <2>2 DEF IInv, Working, Requests, Checked
  <2>3. QED BY <2>1, <2>2
<1>2. QED BY <1>1

\* What a write of a run that has checked the original does.
LEMMA WriteKeeps ==
  ASSUME IInv, NEW r \in Run, Write(r), UNCHANGED first
  PROVE  (\A k \in Key : Saved(k))'
<1> USE DEF IInv, Typed, RunsTyped, StoreTyped, ConstantTyped
<1>1. pc[r] \in Requests
  BY DEF Write, Requests
<1>2. At(r) \in Key /\ Checked(r) /\ \A k \in Key : Saved(k)
  BY <1>1, AtKey
<1>3. CASE pc[r] = "copyOrig"
  BY <1>2, <1>3 DEF Write, Original, Saved, Checked
<1>4. CASE pc[r] = "put" /\ ~ dryRun[r]
  BY <1>2, <1>4 DEF Write, Saved, Checked
<1>5. CASE pc[r] = "copySumOrig"
  BY <1>2, <1>5 DEF Write, Saved, Checked
<1>6. CASE pc[r] = "putSum" /\ ~ dryRun[r]
  BY <1>2, <1>6 DEF Write, Saved, Checked
<1>7. CASE UNCHANGED store
  BY <1>2, <1>7 DEF store, Saved
<1>8. QED BY <1>3, <1>4, <1>5, <1>6, <1>7 DEF Write

\* A run that is not before a write, or is before a write of another object,
\* has found out nothing yet.
LEMMA NextKeyChecked ==
  ASSUME Typed, NEW r \in Run, NEW c \in Counters, NextKey(r, c)
  PROVE  Checked(r)'
BY DEF Typed, RunsTyped, NextKey, Goto, Checked

\* The findings of the run after each of its steps.
LEMMA StepChecked ==
  ASSUME IInv, NEW r \in Run, Step(r)
  PROVE  Checked(r)'
<1> USE DEF IInv, Typed, RunsTyped, StoreTyped, ConstantTyped, Counters
<1>1. Checked(r) /\ (Working(r) => At(r) \in Key)
  BY AtKey DEF Working
<1>2. NoObject \notin Scheme
  OBVIOUS
<1>3. CASE Begin(r) \/ Get(r) \/ Kill(r)
  BY <1>1, <1>3, NextKeyChecked DEF Begin, Get, Kill, locals, Goto, Checked
<1>4. CASE PlainOrig(r) \/ PlainSum(r) \/ PlainRead(r)
  BY <1>1, <1>4, NextKeyChecked
  DEF PlainOrig, PlainSum, PlainRead, Reads, store, locals, Goto, Checked, At
<1>5. CASE Orig(r)
  BY <1>1, <1>5 DEF Orig, Reads, store, locals, Goto, Checked, At
<1>6. CASE SumOrig(r)
  BY <1>1, <1>6 DEF SumOrig, Reads, store, locals, Goto, Checked, At
<1>7. CASE SumExists(r) \/ Read(r)
  BY <1>1, <1>7 DEF SumExists, Read, Reads, store, locals, Goto, Checked, At
<1>8. CASE CopyOrig(r)
  BY <1>1, <1>2, <1>8 DEF CopyOrig, Write, Original, locals, Goto, Checked, At, Working, Requests
<1>9. CASE CopySumOrig(r)
  BY <1>1, <1>2, <1>9 DEF CopySumOrig, Write, locals, Goto, Checked, At, Working, Requests
<1>10. CASE Put(r)
  <2>1. sum' = sum
    BY <1>10 DEF Put, Write, store
  <2>2. QED BY <1>1, <1>10, <2>1, NextKeyChecked DEF Put, locals, Goto, Checked, At
<1>11. CASE PutSum(r) \/ Fails(r)
  BY <1>11, NextKeyChecked DEF PutSum, Fails
<1>12. QED
  BY <1>3, <1>4, <1>5, <1>6, <1>7, <1>8, <1>9, <1>10, <1>11 DEF Step

LEMMA StepKeeps ==
  ASSUME ~ Overlap, IInv, NEW r \in Run, Step(r)
  PROVE  IInv'
<1>1. Typed' /\ OneAtWork'
  BY StepTyped, StepOneAtWork DEF IInv
<1>2. (\A q \in Run : Checked(q))'
  BY StepOneAtWork, StepChecked, OthersChecked
<1>3. UNCHANGED first /\ (Write(r) \/ UNCHANGED store)
  BY DEF Step, Begin, Get, PlainOrig, PlainSum, PlainRead, Orig, CopyOrig, SumExists,
     Read, Put, SumOrig, CopySumOrig, PutSum, Fails, Requesting, Kill, Reads
<1>4. (\A k \in Key : Saved(k))'
  BY <1>3, WriteKeeps DEF IInv, Saved, store
<1>5. QED BY <1>1, <1>2, <1>4 DEF IInv

LEMMA StutterKeeps ==
  ASSUME IInv, UNCHANGED vars
  PROVE  IInv'
<1>1. Typed'
  BY StutterTyped DEF IInv
<1>2. UNCHANGED <<store, first, pc, locals, dryRun>>
  BY DEF vars
<1>3. OneAtWork'
  BY <1>2 DEF IInv, OneAtWork, Working
<1>4. (\A k \in Key : Saved(k))'
  BY <1>2 DEF IInv, Saved, store
<1>5. (\A r \in Run : Checked(r))'
  BY <1>2 DEF IInv, Checked, At, store, locals
<1>6. QED BY <1>1, <1>3, <1>4, <1>5 DEF IInv

LEMMA AlwaysSaved == ~ Overlap => (Spec => []IInv)
<1> SUFFICES ASSUME ~ Overlap PROVE Spec => []IInv
  OBVIOUS
<1>1. IInv /\ [Next]_vars => IInv'
  BY StepKeeps, StutterKeeps DEF Next, Terminated
<1>2. QED BY <1>1, InitSaved, PTL DEF Spec

\* As long as runs do not overlap, no .orig object is ever overwritten, whatever
\* fails and whenever a run is killed.
THEOREM Originals == ~ Overlap => (Spec => []OriginalsKept)
<1>1. QED BY AlwaysSaved, IInvSafe, PTL

\* As long as runs do not overlap, the export can be put back as it was, whatever
\* fails and whenever a run is killed: what is not as it was has its original
\* beside it.
THEOREM CanBePutBack == ~ Overlap => (Spec => []Recoverable)
<1>1. QED BY AlwaysSaved, IInvSafe, PTL

-----------------------------------------------------------------------------
(* The export can be imported.                                             *)

\* What a run that exits with 0 claims of one directory.
Importable(k) ==
  IF IsDocument(first[k].scheme)
    THEN /\ scheme[k].attributes = first[k].scheme.attributes \ ({Document} \cup Dynamodb)
         /\ sum[k] \in {NoObject, scheme[k]}
    ELSE scheme[k] = first[k].scheme /\ sum[k] = first[k].sum

\* A document table is as the export left it or rewritten, and the sum follows
\* the scheme; any other directory is never touched.
Shape(k) ==
  LET f == first[k].scheme IN
  /\ first[k].sum \in {f, Unreadable, NoObject}
  /\ IsDocument(f) => /\ scheme[k] \in {f, Rewritten(f)}
                      /\ sum[k] \in {first[k].sum, Rewritten(f)}
                      /\ scheme[k] = f => sum[k] = first[k].sum
  /\ ~ IsDocument(f) => scheme[k] = f /\ sum[k] = first[k].sum /\ schemeOrig[k] = NoObject

\* What a run knows of the objects of its directory before each of its requests.
Knows(r) ==
  LET k == At(r) IN
  /\ pc[r] \in {"plainOrig", "plainSum", "plainRead"} =>
       raw[r] = scheme[k] /\ ~ IsDocument(raw[r])
  /\ pc[r] \in {"plainSum", "plainRead"} => schemeOrig[k] # NoObject
  /\ pc[r] \in {"orig", "copyOrig", "sum", "read", "put"} =>
       raw[r] = scheme[k] /\ IsDocument(raw[r])
  /\ pc[r] = "put" /\ old[r] = NoObject => sum[k] = NoObject
  /\ pc[r] \in {"sumOrig", "copySumOrig", "putSum"} /\ ~ dryRun[r] =>
       /\ schemeOrig[k] # NoObject /\ scheme[k] = Rewritten(raw[r])
       /\ sum[k] \notin {NoObject, scheme[k]}
  /\ pc[r] \in {"copyOrig", "copySumOrig"} => ~ dryRun[r]

\* The directories a run has passed, if none has failed.
Passed(r) ==
  /\ pc[r] = "done" => pos[r] = Len(Keys) + 1
  /\ ~ dryRun[r] /\ stats[r]["errors"] = 0 =>
       \A i \in 1..Len(Keys) : i < pos[r] => Importable(Keys[i])

KInv ==
  /\ IInv
  /\ \A k \in Key : Shape(k)
  /\ \A r \in Run : Knows(r) /\ Passed(r)

\* What rewrite_document_scheme does to a scheme, and that a second time changes
\* nothing.
LEMMA RewriteFacts ==
  ASSUME NEW s \in Scheme
  PROVE  /\ Rewritten(s) \in Scheme
         /\ Rewritten(s).attributes = s.attributes \ ({Document} \cup Dynamodb)
         /\ ~ IsDocument(Rewritten(s))
         /\ ~ IsDocument(s) /\ (\E t \in Scheme : s = Rewritten(t)) => Rewritten(s) = s
<1>1. /\ Rewritten(s).valid = s.valid
      /\ Rewritten(s).attributes = s.attributes \ ({Document} \cup Dynamodb)
      /\ Rewritten(s) \in Scheme
  BY DEF Rewritten, Scheme
<1>2. ASSUME NEW t \in Scheme, s = Rewritten(t) PROVE Rewritten(s) = s
  <2>1. s.attributes = t.attributes \ ({Document} \cup Dynamodb)
    BY <1>2 DEF Rewritten, Scheme
  <2>2. s.attributes \ ({Document} \cup Dynamodb) = s.attributes
    BY <2>1
  <2>3. QED BY <2>2 DEF Rewritten, Scheme
<1>3. QED BY <1>1, <1>2 DEF IsDocument

\* What KInv says of one directory.
LEMMA ShapeFacts ==
  ASSUME KInv, NEW k \in Key
  PROVE  /\ scheme[k] \in Scheme /\ first[k].scheme \in Scheme
         /\ IsDocument(scheme[k]) =>
              /\ IsDocument(first[k].scheme) /\ scheme[k] = first[k].scheme
              /\ sum[k] = NoObject \/ IsDocument(sum[k])
         /\ ~ IsDocument(scheme[k]) /\ schemeOrig[k] # NoObject =>
              /\ IsDocument(first[k].scheme) /\ scheme[k] = Rewritten(first[k].scheme)
              /\ Rewritten(scheme[k]) = scheme[k]
<1>1. /\ scheme[k] \in Scheme /\ first[k].scheme \in Scheme /\ Shape(k)
  BY DEF KInv, IInv, Typed, StoreTyped, ConstantTyped
<1>2. IsDocument(Unreadable)
  BY DEF IsDocument, Unreadable
<1>3. ~ IsDocument(Rewritten(first[k].scheme))
  BY <1>1, RewriteFacts
<1>4. QED BY <1>1, <1>2, <1>3, RewriteFacts DEF Shape

\* No run writes to a directory that can be imported.
LEMMA ImportableIsNotWritten ==
  ASSUME KInv, NEW r \in Run, Write(r), Importable(At(r))
  PROVE  UNCHANGED store
<1>1. pc[r] \in Requests
  BY DEF Write, Requests
<1>2. At(r) \in Key /\ Knows(r) /\ Shape(At(r))
  BY <1>1, AtKey DEF KInv, IInv
<1>3. PICK k \in Key : k = At(r)
  BY <1>2
<1>4. ~ IsDocument(scheme[k])
  <2>1. SUFFICES ASSUME IsDocument(scheme[k]) PROVE FALSE
    OBVIOUS
  <2>2. IsDocument(first[k].scheme) /\ scheme[k] = first[k].scheme
    BY <2>1, ShapeFacts
  <2>3. QED BY <1>3, <2>2 DEF Importable, IsDocument
<1>5. schemeOrig[k] # NoObject => sum[k] \in {NoObject, scheme[k]}
  BY <1>3, <1>4, ShapeFacts DEF Importable
<1>6. pc[r] \notin {"copyOrig", "put"}
  BY <1>2, <1>3, <1>4 DEF Knows
<1>7. ~ (pc[r] \in {"copySumOrig", "putSum"} /\ ~ dryRun[r])
  BY <1>2, <1>3, <1>5 DEF Knows
<1>8. pc[r] = "copySumOrig" => ~ dryRun[r]
  BY <1>2 DEF Knows
<1>9. QED BY <1>6, <1>7, <1>8 DEF Write

\* A write changes one directory.
LEMMA WriteElsewhere ==
  ASSUME Typed, NEW r \in Run, Write(r), NEW k \in Key, k # At(r)
  PROVE  /\ scheme'[k] = scheme[k] /\ sum'[k] = sum[k]
         /\ schemeOrig'[k] = schemeOrig[k] /\ sumOrig'[k] = sumOrig[k]
BY DEF Write, store, Typed, StoreTyped

\* A directory that can be imported stays so.
LEMMA ImportableStays ==
  ASSUME KInv, NEW r \in Run, Write(r) \/ UNCHANGED store, UNCHANGED first,
         NEW k \in Key, Importable(k)
  PROVE  Importable(k)'
<1>1. Typed
  BY DEF KInv, IInv
<1>2. CASE UNCHANGED store
  BY <1>2 DEF store, Importable
<1>3. CASE Write(r) /\ k = At(r)
  <2>1. UNCHANGED store
    BY <1>3, ImportableIsNotWritten
  <2>2. QED BY <2>1 DEF store, Importable
<1>4. CASE Write(r) /\ k # At(r)
  <2>1. scheme'[k] = scheme[k] /\ sum'[k] = sum[k] /\ first' = first
    BY <1>1, <1>4, WriteElsewhere
  <2>2. QED BY <2>1 DEF Importable
<1>5. QED BY <1>2, <1>3, <1>4

\* A write leaves a document table as it was or rewrites it, and touches
\* nothing else.
LEMMA WriteShapes ==
  ASSUME KInv, NEW r \in Run, Write(r), UNCHANGED first, NEW k \in Key
  PROVE  Shape(k)'
<1>1. Typed /\ Shape(k)
  BY DEF KInv, IInv
<1>2. CASE k # At(r)
  BY <1>1, <1>2, WriteElsewhere DEF Shape
<1>3. CASE k = At(r)
  <2>1. Knows(r) /\ scheme[k] \in Scheme /\ first[k].scheme \in Scheme
    BY ShapeFacts DEF KInv
  <2> DEFINE f == first[k].scheme
  <2>2. ~ IsDocument(Rewritten(f)) /\ Rewritten(f) \in Scheme
    BY <2>1, RewriteFacts
  <2>3. CASE pc[r] \in {"copyOrig", "put"}
    <3>1. raw[r] = scheme[k] /\ IsDocument(f) /\ scheme[k] = f
      BY <1>3, <2>1, <2>3, ShapeFacts DEF Knows
    <3>2. UNCHANGED sum /\ scheme'[k] \in {f, Rewritten(f)}
      BY <1>1, <1>3, <2>3, <3>1 DEF Write, store, Typed, StoreTyped
    <3>3. QED BY <1>1, <3>1, <3>2 DEF Shape
  <2>4. CASE pc[r] = "copySumOrig"
    BY <1>1, <2>4 DEF Write, Shape
  <2>5. CASE pc[r] = "putSum" /\ ~ dryRun[r]
    <3>1. /\ schemeOrig[k] # NoObject /\ scheme[k] = Rewritten(raw[r])
          /\ raw[r] \in Scheme
      BY <1>1, <1>3, <2>1, <2>5 DEF Knows, Typed, RunsTyped
    <3>2. ~ IsDocument(scheme[k])
      BY <3>1, RewriteFacts
    <3>3. IsDocument(f) /\ scheme[k] = Rewritten(f)
      BY <3>1, <3>2, ShapeFacts
    <3>4. UNCHANGED scheme /\ sum'[k] = scheme[k]
      BY <1>1, <1>3, <2>5, <3>1 DEF Write, Typed, StoreTyped
    <3>5. QED BY <1>1, <2>2, <3>3, <3>4 DEF Shape
  <2>6. CASE UNCHANGED store
    BY <1>1, <2>6 DEF store, Shape
  <2>7. QED BY <2>3, <2>4, <2>5, <2>6 DEF Write
<1>4. QED BY <1>2, <1>3

\* What a run knows after each of its steps.
LEMMA NextKeyKnows ==
  ASSUME Typed, NEW r \in Run, NEW c \in Counters, NextKey(r, c)
  PROVE  Knows(r)'
BY DEF Typed, RunsTyped, NextKey, Goto, Knows

\* A request that changes neither the store nor the locals.
LEMMA ReadsKnows ==
  ASSUME Typed, NEW r \in Run, NEW next, Reads(r, next)
  PROVE  /\ pc'[r] = next
         /\ raw'[r] = raw[r] /\ old'[r] = old[r] /\ dryRun' = dryRun /\ At(r)' = At(r)
         /\ UNCHANGED store
BY DEF Typed, RunsTyped, Reads, locals, Goto, At

LEMMA StepKnows ==
  ASSUME KInv, NEW r \in Run, Step(r)
  PROVE  Knows(r)'
<1> USE DEF Counters
<1>1. Typed /\ Checked(r) /\ Knows(r) /\ (pc[r] \in Requests => At(r) \in Key)
  BY AtKey DEF KInv, IInv
<1>2. CASE Begin(r) \/ Kill(r)
  BY <1>1, <1>2 DEF Begin, Kill, Goto, Knows, Typed, RunsTyped
<1>3. CASE Get(r)
  <2>1. CASE NextKey(r, "errors")
    BY <1>1, <2>1, NextKeyKnows
  <2>2. CASE /\ raw' = [raw EXCEPT ![r] = scheme[At(r)]]
             /\ Goto(r, IF IsDocument(scheme[At(r)]) THEN "orig" ELSE "plainOrig")
             /\ UNCHANGED <<pos, old, stats>>
    <3>1. raw'[r] = scheme[At(r)] /\ At(r)' = At(r) /\ UNCHANGED store
      BY <1>1, <1>3, <2>2 DEF Get, At, Typed, RunsTyped
    <3>2. /\ pc'[r] \in {"orig", "plainOrig"}
          /\ pc'[r] = "orig" <=> IsDocument(scheme[At(r)])
      BY <1>1, <2>2 DEF Goto, Typed, RunsTyped
    <3>3. QED BY <3>1, <3>2 DEF Knows, store
  <2>3. QED BY <1>3, <2>1, <2>2 DEF Get
<1>4. CASE PlainOrig(r)
  <2>1. CASE NextKey(r, "skipped")
    BY <1>1, <2>1, NextKeyKnows
  <2>2. CASE schemeOrig[At(r)] # NoObject /\ Reads(r, "plainSum")
    BY <1>1, <1>4, <2>2, ReadsKnows DEF PlainOrig, Knows, store
  <2>3. QED BY <1>4, <2>1, <2>2 DEF PlainOrig
<1>5. CASE PlainSum(r)
  <2>1. CASE NextKey(r, "skipped")
    BY <1>1, <2>1, NextKeyKnows
  <2>2. CASE Reads(r, "plainRead")
    BY <1>1, <1>5, <2>2, ReadsKnows DEF PlainSum, Knows, store
  <2>3. QED BY <1>5, <2>1, <2>2 DEF PlainSum
<1>6. CASE PlainRead(r)
  <2>1. CASE NextKey(r, "skipped")
    BY <1>1, <2>1, NextKeyKnows
  <2>2. CASE /\ sum[At(r)] # raw[r] /\ Goto(r, "sumOrig") /\ UNCHANGED <<pos, raw, stats>>
    <3>1. /\ UNCHANGED <<store, dryRun>> /\ pc'[r] = "sumOrig" /\ At(r)' = At(r)
          /\ raw' = raw
      BY <1>1, <1>6, <2>2 DEF PlainRead, Goto, At, Typed, RunsTyped
    <3>2. /\ raw[r] = scheme[At(r)] /\ ~ IsDocument(scheme[At(r)])
          /\ schemeOrig[At(r)] # NoObject /\ sum[At(r)] # NoObject /\ At(r) \in Key
      BY <1>1, <1>6 DEF PlainRead, Knows, Checked, Requests
    <3>3. Rewritten(raw[r]) = scheme[At(r)]
      BY <3>2, ShapeFacts
    <3>4. QED BY <2>2, <3>1, <3>2, <3>3 DEF Knows, store
  <2>3. QED BY <1>6, <2>1, <2>2 DEF PlainRead
<1>7. CASE Orig(r)
  <2>1. PICK next : /\ Reads(r, next) /\ next \in {"copyOrig", "sum"}
                    /\ next = "copyOrig" => ~ dryRun[r]
    BY <1>7 DEF Orig
  <2>2. QED BY <1>1, <1>7, <2>1, ReadsKnows DEF Orig, Knows, store
<1>8. CASE SumExists(r)
  <2>1. PICK next : /\ Reads(r, next) /\ next \in {"read", "put"}
                    /\ next = "put" => sum[At(r)] = NoObject
    BY <1>8 DEF SumExists
  <2>2. QED BY <1>1, <1>8, <2>1, ReadsKnows DEF SumExists, Knows, store
<1>9. CASE Read(r)
  BY <1>1, <1>9 DEF Read, Goto, Knows, store, At, Typed, RunsTyped
<1>10. CASE SumOrig(r)
  <2>1. PICK next : /\ Reads(r, next) /\ next \in {"copySumOrig", "putSum"}
                    /\ next = "copySumOrig" => ~ dryRun[r]
    BY <1>10 DEF SumOrig
  <2>2. QED BY <1>1, <1>10, <2>1, ReadsKnows DEF SumOrig, Knows, store
<1>11. CASE CopyOrig(r)
  <2>1. /\ pc[r] = "copyOrig" /\ pc'[r] = "sum" /\ raw' = raw /\ old' = old /\ At(r)' = At(r)
        /\ UNCHANGED <<scheme, sum, dryRun>>
    BY <1>1, <1>11 DEF CopyOrig, Write, Goto, locals, At, Typed, RunsTyped
  <2>2. QED BY <1>1, <2>1 DEF Knows
<1>12. CASE CopySumOrig(r)
  <2>1. /\ pc[r] = "copySumOrig" /\ pc'[r] = "putSum" /\ raw' = raw /\ old' = old
        /\ At(r)' = At(r) /\ UNCHANGED <<scheme, sum, schemeOrig, dryRun>>
    BY <1>1, <1>12 DEF CopySumOrig, Write, Goto, locals, At, Typed, RunsTyped
  <2>2. QED BY <1>1, <2>1 DEF Knows
<1>13. CASE Put(r)
  <2>1. CASE NextKey(r, "updated")
    BY <1>1, <2>1, NextKeyKnows
  <2>2. CASE old[r] # NoObject /\ Goto(r, "sumOrig") /\ UNCHANGED locals
    <3>1. /\ pc[r] = "put" /\ pc'[r] = "sumOrig" /\ raw' = raw /\ At(r)' = At(r)
          /\ dryRun' = dryRun /\ At(r) \in Key
      BY <1>1, <1>13, <2>2 DEF Put, Goto, locals, At, Typed, RunsTyped, Requests
    <3>2. SUFFICES ASSUME ~ dryRun[r]
                   PROVE  /\ schemeOrig'[At(r)] # NoObject
                          /\ scheme'[At(r)] = Rewritten(raw[r])
                          /\ sum'[At(r)] \notin {NoObject, scheme'[At(r)]}
      BY <3>1 DEF Knows
    <3>3. /\ schemeOrig' = schemeOrig /\ sum' = sum /\ scheme'[At(r)] = Rewritten(raw[r])
      BY <1>1, <1>13, <3>1, <3>2 DEF Put, Write, Typed, StoreTyped
    <3>4. schemeOrig[At(r)] # NoObject /\ sum[At(r)] # NoObject
      BY <1>1, <2>2, <3>1, <3>2 DEF Checked
    <3>5. raw[r] = scheme[At(r)] /\ IsDocument(scheme[At(r)])
      BY <1>1, <3>1 DEF Knows
    <3>6. IsDocument(sum[At(r)])
      BY <3>1, <3>4, <3>5, ShapeFacts
    <3>7. ~ IsDocument(Rewritten(raw[r]))
      BY <3>1, <3>5, ShapeFacts, RewriteFacts
    <3>8. sum[At(r)] # Rewritten(raw[r])
      BY <3>6, <3>7
    <3>9. QED BY <3>3, <3>4, <3>8
  <2>3. QED BY <1>13, <2>1, <2>2 DEF Put
<1>14. CASE PutSum(r) \/ Fails(r)
  BY <1>1, <1>14, NextKeyKnows DEF PutSum, Fails
<1>15. QED
  BY <1>2, <1>3, <1>4, <1>5, <1>6, <1>7, <1>8, <1>9, <1>10, <1>11, <1>12, <1>13, <1>14 DEF Step

\* A directory that is passed without an error can be imported.
LEMMA NextKeyPassed ==
  ASSUME KInv, NEW r \in Run, NEW c \in Counters, pc[r] \in Requests, NextKey(r, c),
         dryRun' = dryRun, Write(r) \/ UNCHANGED store, UNCHANGED first,
         NEW x \in Key, x = At(r),
         c # "errors" /\ ~ dryRun[r] => Importable(x)'
  PROVE  Passed(r)'
<1>1. Typed /\ Passed(r) /\ pos[r] \in 1..Len(Keys)
  BY KeysLength DEF KInv, IInv, Typed, RunsTyped, Within
<1>2. /\ pos'[r] = pos[r] + 1
      /\ pc'[r] = IF pos[r] = Len(Keys) THEN "done" ELSE "get"
      /\ stats'[r] = [stats[r] EXCEPT ![c] = @ + 1]
      /\ stats[r] \in Stats
  BY <1>1 DEF NextKey, Goto, Typed, RunsTyped
<1>3. pc'[r] = "done" => pos'[r] = Len(Keys) + 1
  BY <1>2
<1>4. stats'[r]["errors"] = 0 => c # "errors" /\ stats[r]["errors"] = 0
  BY <1>2 DEF Stats, Counters
<1>5. ASSUME ~ dryRun[r], stats'[r]["errors"] = 0, NEW i \in 1..Len(Keys), i < pos'[r]
      PROVE  Importable(Keys[i])'
  <2>1. PICK k \in Key : k = Keys[i]
    OBVIOUS
  <2>2. CASE i = pos[r]
    <3>1. k = x
      BY <2>1, <2>2 DEF At
    <3>2. Importable(x)'
      BY <1>4, <1>5
    <3>3. Importable(k)'
      BY <3>1, <3>2 DEF Importable
    <3>4. QED BY <2>1, <3>3 DEF Importable
  <2>3. CASE i # pos[r]
    <3>1. i < pos[r]
      BY <1>1, <1>2, <1>5, <2>3, KeysLength
    <3>2. Importable(k)
      BY <1>1, <1>4, <1>5, <2>1, <3>1 DEF Passed
    <3>3. Importable(k)'
      BY <3>2, ImportableStays
    <3>4. QED BY <2>1, <3>3 DEF Importable
  <2>4. QED BY <2>2, <2>3
<1>6. QED BY <1>3, <1>5 DEF Passed

\* A run that stays at its place has passed what it had.
LEMMA PassedStays ==
  ASSUME KInv, NEW r \in Run, Write(r) \/ UNCHANGED store, UNCHANGED <<first, dryRun>>,
         NEW q \in Run, pos'[q] = pos[q], stats'[q] = stats[q],
         pc'[q] = "done" => pos[q] = Len(Keys) + 1
  PROVE  Passed(q)'
<1>1. Passed(q)
  BY DEF KInv
<1>2. ASSUME ~ dryRun[q], stats[q]["errors"] = 0, NEW i \in 1..Len(Keys), i < pos[q]
      PROVE  Importable(Keys[i])'
  <2>1. PICK k \in Key : k = Keys[i]
    OBVIOUS
  <2>2. Importable(k)
    BY <1>1, <1>2, <2>1 DEF Passed
  <2>3. Importable(k)'
    BY <2>2, ImportableStays
  <2>4. QED BY <2>1, <2>3 DEF Importable
<1>3. QED BY <1>2 DEF Passed

\* What a step may change.
LEMMA StepFrame ==
  ASSUME Typed, NEW r \in Run, Step(r)
  PROVE  /\ UNCHANGED <<first, dryRun>> /\ (Write(r) \/ UNCHANGED store)
         /\ \A q \in Run \ {r} : pc'[q] = pc[q] /\ pos'[q] = pos[q] /\ stats'[q] = stats[q]
<1>1. UNCHANGED <<first, dryRun>> /\ (Write(r) \/ UNCHANGED store)
  BY DEF Step, Begin, Get, PlainOrig, PlainSum, PlainRead, Orig, CopyOrig, SumExists,
     Read, Put, SumOrig, CopySumOrig, PutSum, Fails, Requesting, Kill, Reads
<1>2. \/ \E c \in Counters : NextKey(r, c)
      \/ UNCHANGED <<pos, stats>> /\ \E w : Goto(r, w)
  BY DEF Step, Begin, Get, PlainOrig, PlainSum, PlainRead, Orig, CopyOrig, SumExists,
     Read, Put, SumOrig, CopySumOrig, PutSum, Fails, Kill, Reads, locals, Counters
<1>3. \A q \in Run \ {r} : pc'[q] = pc[q] /\ pos'[q] = pos[q] /\ stats'[q] = stats[q]
  BY <1>2 DEF NextKey, Goto, Typed, RunsTyped
<1>4. QED BY <1>1, <1>3

\* A directory that is passed without an error.
LEMMA PassedIsImportable ==
  ASSUME KInv, NEW r \in Run, NEW x \in Key, x = At(r), ~ dryRun[r], UNCHANGED first,
         \/ PlainOrig(r) /\ NextKey(r, "skipped")
         \/ PlainSum(r) /\ NextKey(r, "skipped")
         \/ PlainRead(r) /\ NextKey(r, "skipped")
         \/ Put(r) /\ NextKey(r, "updated")
         \/ PutSum(r)
  PROVE  Importable(x)'
<1>1. Typed /\ Knows(r) /\ Checked(r) /\ Shape(x) /\ Saved(x)
  BY DEF KInv, IInv
<1>2. pc \in [Run -> {"idle"} \cup Requests \cup Ended] /\ raw[r] \in Scheme
  BY <1>1 DEF Typed, RunsTyped
<1>3. /\ scheme[x] \in Scheme /\ first[x].scheme \in Scheme
      /\ Rewritten(first[x].scheme).attributes =
           first[x].scheme.attributes \ ({Document} \cup Dynamodb)
  BY ShapeFacts, RewriteFacts
<1>4. CASE PlainOrig(r) /\ NextKey(r, "skipped")
  <2>1. pc[r] = "plainOrig" /\ schemeOrig[x] = NoObject /\ UNCHANGED store
    <3>1. pc'[r] \in {"done", "get"}
      BY <1>2, <1>4 DEF NextKey, Goto
    <3>2. ~ Reads(r, "plainSum")
      BY <1>2, <3>1 DEF Reads, Goto
    <3>3. QED BY <1>4, <3>2 DEF PlainOrig
  <2>2. ~ IsDocument(scheme[x]) /\ scheme[x] = first[x].scheme
    BY <1>1, <2>1 DEF Knows, Saved
  <2>3. QED BY <1>1, <2>1, <2>2 DEF Importable, Shape, store
<1>5. CASE (PlainSum(r) \/ PlainRead(r)) /\ NextKey(r, "skipped")
  <2>1. /\ pc[r] \in {"plainSum", "plainRead"} /\ UNCHANGED store
        /\ sum[x] \in {NoObject, scheme[x]}
    <3>1. pc'[r] \in {"done", "get"}
      BY <1>2, <1>5 DEF NextKey, Goto
    <3>2. ~ Reads(r, "plainRead") /\ ~ Goto(r, "sumOrig")
      BY <1>2, <3>1 DEF Reads, Goto
    <3>3. CASE PlainSum(r)
      BY <3>2, <3>3 DEF PlainSum
    <3>4. CASE PlainRead(r)
      BY <1>1, <3>2, <3>4 DEF PlainRead, Knows
    <3>5. QED BY <1>5, <3>3, <3>4
  <2>2. ~ IsDocument(scheme[x]) /\ schemeOrig[x] # NoObject
    BY <1>1, <2>1 DEF Knows
  <2>3. IsDocument(first[x].scheme) /\ scheme[x] = Rewritten(first[x].scheme)
    BY <2>2, ShapeFacts
  <2>4. QED BY <1>3, <2>1, <2>3 DEF Importable, store
<1>6. CASE Put(r) /\ NextKey(r, "updated")
  <2>1. pc[r] = "put" /\ old[r] = NoObject
    <3>1. pc'[r] \in {"done", "get"}
      BY <1>2, <1>6 DEF NextKey, Goto
    <3>2. ~ Goto(r, "sumOrig")
      BY <1>2, <3>1 DEF Goto
    <3>3. QED BY <1>6, <3>2 DEF Put
  <2>2. raw[r] = scheme[x] /\ IsDocument(scheme[x]) /\ sum[x] = NoObject
    BY <1>1, <2>1 DEF Knows
  <2>3. IsDocument(first[x].scheme) /\ scheme[x] = first[x].scheme
    BY <2>2, ShapeFacts
  <2>4. scheme'[x] = Rewritten(scheme[x]) /\ sum' = sum
    BY <1>1, <1>6, <2>1, <2>2 DEF Put, Write, Typed, StoreTyped
  <2>5. QED BY <1>3, <2>2, <2>3, <2>4 DEF Importable
<1>7. CASE PutSum(r)
  <2>1. pc[r] = "putSum" /\ scheme' = scheme /\ sum'[x] = Rewritten(raw[r])
    BY <1>1, <1>7 DEF PutSum, Write, Typed, StoreTyped
  <2>2. schemeOrig[x] # NoObject /\ scheme[x] = Rewritten(raw[r])
    BY <1>1, <2>1 DEF Knows
  <2>3. ~ IsDocument(scheme[x])
    BY <1>2, <2>2, RewriteFacts
  <2>4. IsDocument(first[x].scheme) /\ scheme[x] = Rewritten(first[x].scheme)
    BY <2>2, <2>3, ShapeFacts
  <2>5. QED BY <1>3, <2>1, <2>2, <2>4 DEF Importable
<1>8. QED BY <1>4, <1>5, <1>6, <1>7

LEMMA StepPassed ==
  ASSUME KInv, NEW r \in Run, Step(r)
  PROVE  Passed(r)'
<1> USE DEF Counters
<1>1. /\ Typed /\ Passed(r)
      /\ UNCHANGED <<first, dryRun>> /\ (Write(r) \/ UNCHANGED store)
  BY StepFrame DEF KInv, IInv
<1>2. pc[r] \in Requests => At(r) \in Key
  BY <1>1, AtKey
<1>3. ASSUME NEW c \in {"errors"}, NextKey(r, c), pc[r] \in Requests PROVE Passed(r)'
  BY <1>1, <1>2, <1>3, NextKeyPassed
<1>4. ASSUME UNCHANGED <<pos, stats>>, pc'[r] = "done" => pos[r] = Len(Keys) + 1
      PROVE  Passed(r)'
  BY <1>1, <1>4, PassedStays
<1>5. ASSUME UNCHANGED <<pos, stats>>, NEW w \in Requests \cup {"killed"}, Goto(r, w)
      PROVE  Passed(r)'
  <2>1. pc'[r] # "done"
    BY <1>1, <1>5 DEF Goto, Requests, Typed, RunsTyped
  <2>2. QED BY <1>4, <1>5, <2>1
<1>6. CASE Begin(r)
  <2>1. pc'[r] = "done" => Keys = << >> /\ pos[r] = 1
    BY <1>1, <1>6 DEF Begin, Goto, Typed, RunsTyped, Within
  <2>2. QED BY <1>4, <1>6, <2>1 DEF Begin, locals
<1>7. CASE Kill(r) \/ Orig(r) \/ CopyOrig(r) \/ SumExists(r) \/ Read(r) \/ SumOrig(r) \/ CopySumOrig(r)
  BY <1>5, <1>7 DEF Kill, Orig, CopyOrig, SumExists, Read, SumOrig, CopySumOrig, Reads, locals,
     Requests
<1>8. CASE Get(r)
  BY <1>3, <1>5, <1>8 DEF Get, Requests
<1>9. CASE Fails(r)
  BY <1>3, <1>9 DEF Fails, Requesting
<1>10. CASE PlainOrig(r) \/ PlainSum(r) \/ PlainRead(r)
  <2>1. pc[r] \in Requests
    BY <1>10 DEF PlainOrig, PlainSum, PlainRead, Requests
  <2>2. CASE NextKey(r, "skipped")
    <3>1. PICK x \in Key : x = At(r)
      BY <1>2, <2>1
    <3>2. ~ dryRun[r] => Importable(x)'
      BY <1>1, <1>10, <2>2, <3>1, PassedIsImportable
    <3>3. QED BY <1>1, <2>1, <2>2, <3>1, <3>2, NextKeyPassed
  <2>3. CASE UNCHANGED <<pos, stats>> /\ \E w \in {"plainSum", "plainRead", "sumOrig"} : Goto(r, w)
    BY <1>5, <2>3 DEF Requests
  <2>4. QED BY <1>10, <2>2, <2>3 DEF PlainOrig, PlainSum, PlainRead, Reads, locals
<1>11. CASE Put(r)
  <2>1. pc[r] \in Requests
    BY <1>11 DEF Put, Requests
  <2>2. CASE NextKey(r, "updated")
    <3>1. PICK x \in Key : x = At(r)
      BY <1>2, <2>1
    <3>2. ~ dryRun[r] => Importable(x)'
      BY <1>1, <1>11, <2>2, <3>1, PassedIsImportable
    <3>3. QED BY <1>1, <2>1, <2>2, <3>1, <3>2, NextKeyPassed
  <2>3. CASE Goto(r, "sumOrig") /\ UNCHANGED locals
    BY <1>5, <2>3 DEF Requests, locals
  <2>4. QED BY <1>11, <2>2, <2>3 DEF Put
<1>12. CASE PutSum(r)
  <2>1. pc[r] \in Requests
    BY <1>12 DEF PutSum, Requests
  <2>2. PICK x \in Key : x = At(r)
    BY <1>2, <2>1
  <2>3. ~ dryRun[r] => Importable(x)'
    BY <1>1, <1>12, <2>2, PassedIsImportable
  <2>4. PICK c \in {"updated", "repaired"} : NextKey(r, c)
    BY <1>12 DEF PutSum
  <2>5. QED BY <1>1, <2>1, <2>2, <2>3, <2>4, NextKeyPassed
<1>13. QED
  BY <1>6, <1>7, <1>8, <1>9, <1>10, <1>11, <1>12 DEF Step

LEMMA StepImportable ==
  ASSUME ~ Overlap, KInv, NEW r \in Run, Step(r)
  PROVE  KInv'
<1>1. Typed /\ IInv'
  BY StepKeeps DEF KInv, IInv
<1>2. UNCHANGED <<first, dryRun>> /\ (Write(r) \/ UNCHANGED store)
  BY <1>1, StepFrame
<1>3. \A k \in Key : Shape(k)'
  <2>1. CASE Write(r)
    BY <1>2, <2>1, WriteShapes
  <2>2. CASE UNCHANGED store
    BY <1>2, <2>2 DEF KInv, Shape, store
  <2>3. QED BY <1>2, <2>1, <2>2
<1>4. ASSUME NEW q \in Run PROVE Knows(q)' /\ Passed(q)'
  <2>1. CASE q = r
    BY <2>1, StepKnows, StepPassed
  <2>2. CASE q # r
    <3>1. pc'[q] = pc[q] /\ pos'[q] = pos[q] /\ stats'[q] = stats[q]
      BY <1>1, <2>2, StepFrame
    <3>2. pc'[q] \notin Requests
      BY <2>2, <3>1, StepOneAtWork DEF KInv, Working
    <3>3. Knows(q)'
      BY <3>2 DEF Knows, Requests
    <3>4. pc'[q] = "done" => pos[q] = Len(Keys) + 1
      BY <3>1 DEF KInv, Passed
    <3>5. Passed(q)'
      BY <1>2, <3>1, <3>4, PassedStays
    <3>6. QED BY <3>3, <3>5
  <2>3. QED BY <2>1, <2>2
<1>5. QED BY <1>1, <1>3, <1>4 DEF KInv

LEMMA StutterImportable ==
  ASSUME KInv, UNCHANGED vars
  PROVE  KInv'
<1>1. IInv'
  BY StutterKeeps DEF KInv
<1>2. UNCHANGED <<scheme, sum, schemeOrig, sumOrig, first, pc, pos, raw, old, stats, dryRun>>
  BY DEF vars, store, locals
<1>3. (\A k \in Key : Shape(k))'
  BY <1>2 DEF KInv, Shape
<1>4. \A k : Importable(k)' <=> Importable(k)
  BY <1>2 DEF Importable
<1>5. \A r \in Run : Knows(r)'
  BY <1>2 DEF KInv, Knows, At
<1>6. ASSUME NEW r \in Run PROVE Passed(r)'
  BY <1>2, <1>4 DEF KInv, Passed
<1>7. QED BY <1>1, <1>3, <1>5, <1>6 DEF KInv

LEMMA InitImportable == Init => KInv
<1> SUFFICES ASSUME Init PROVE KInv
  OBVIOUS
<1>1. IInv
  BY InitSaved
<1>2. \A k \in Key : Shape(k)
  BY DEF Init, Shape
<1>3. ASSUME NEW r \in Run PROVE Knows(r) /\ Passed(r)
  <2>1. pc[r] = "idle" /\ pos[r] = 1
    BY DEF Init
  <2>2. \A i \in 1..Len(Keys) : ~ (i < pos[r])
    BY <2>1, KeysLength
  <2>3. QED BY <2>1, <2>2 DEF Knows, Passed
<1>4. QED BY <1>1, <1>2, <1>3 DEF KInv

LEMMA AlwaysImportable == ~ Overlap => (Spec => []KInv)
<1> SUFFICES ASSUME ~ Overlap PROVE Spec => []KInv
  OBVIOUS
<1>1. KInv /\ [Next]_vars => KInv'
  BY StepImportable, StutterImportable DEF Next, Terminated
<1>2. QED BY <1>1, InitImportable, PTL DEF Spec

\* A run that exits with 0 has passed every directory without an error.
LEMMA CleanRun ==
  ASSUME KInv, NEW r \in Run, Clean(r), NEW i \in 1..Len(Keys)
  PROVE  Importable(Keys[i])
BY KeysLength DEF KInv, Clean, Passed

\* As long as runs do not overlap, the export can be imported as row tables once
\* a run has exited with 0, whatever the runs before it have left half done.
THEOREM CleanExport == ~ Overlap => (Spec => []CleanMeansImportable)
<1>1. KInv => CleanMeansImportable
  BY CleanRun DEF CleanMeansImportable, Importable
<1>2. QED BY <1>1, AlwaysImportable, PTL

\* As long as runs do not overlap, a rerun is safe: once a run has exited with 0
\* no object is written again.
THEOREM RerunIsSafe == ~ Overlap => (Spec => CleanIsFinal)
<1>1. KInv /\ [Next]_vars => [(\E r \in Run : Clean(r)) => UNCHANGED store]_store
  <2>1. SUFFICES ASSUME KInv, NEW r \in Run, Clean(r), NEW q \in Run, Step(q)
                 PROVE  UNCHANGED store
    BY DEF Next, Terminated, vars
  <2>2. SUFFICES ASSUME Write(q) PROVE UNCHANGED store
    BY <2>1, StepFrame DEF KInv, IInv
  <2>3. pc[q] \in Requests
    BY <2>2 DEF Write, Requests
  <2>4. pos[q] \in 1..Len(Keys)
    BY <2>1, <2>3, KeysLength DEF KInv, IInv, Typed, RunsTyped, Within
  <2>5. Importable(At(q))
    BY <2>1, <2>4, CleanRun DEF At
  <2>6. QED BY <2>1, <2>2, <2>5, ImportableIsNotWritten
<1>2. QED BY <1>1, AlwaysImportable, PTL DEF Spec, CleanIsFinal
=============================================================================
