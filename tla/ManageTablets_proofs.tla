------------------------ MODULE ManageTablets_proofs ------------------------
(***************************************************************************)
(* Theorems about ManageTablets, for any tree of paths, any change of the  *)
(* database, any options and any failure. Base: what a run has found and   *)
(* what it has read of the tablets is true, so Hive is asked only about    *)
(* tablets of objects that were asked for. Excused: whatever is reported   *)
(* has a cause. Thorough: as long as nothing is reported, what has been    *)
(* there all the time is found or will be, what is done has told its       *)
(* tablets, and what is ok is as it should be; so exit status 0 is a       *)
(* promise.                                                                *)
(***************************************************************************)
EXTENDS ManageTablets, FiniteSetTheorems, TLAPS

\* The targets of the pool that asks Hive are of different tablets.
Apart == \A x, y \in DOMAIN act : x[2] = y[2] => x = y

\* One of the targets for each tablet.
LEMMA DedupeApart ==
  ASSUME NEW targets
  PROVE  /\ \A x, y \in Dedupe(targets) : x[2] = y[2] => x = y
         /\ Dedupe(targets) \subseteq targets
         /\ \A x \in targets : \E y \in Dedupe(targets) : y[2] = x[2]
<1> DEFINE tablets == {x[2] : x \in targets}
           one(t) == CHOOSE x \in targets : x[2] = t
<1>1. \A t \in tablets : one(t) \in targets /\ one(t)[2] = t
  OBVIOUS
<1>2. Dedupe(targets) = {one(t) : t \in tablets}
  BY DEF Dedupe
<1>3. \A x \in targets : x[2] \in tablets
  OBVIOUS
<1> HIDE DEF tablets, one
<1>4. \A x \in targets : one(x[2]) \in Dedupe(targets) /\ one(x[2])[2] = x[2]
  BY <1>1, <1>2, <1>3
<1>5. QED BY <1>1, <1>2, <1>4

LEMMA PoolUnchanged ==
  ASSUME DOMAIN act' = DOMAIN act, Apart
  PROVE  Apart'
BY DEF Apart

\* The steps before the pool, and those of the database.
LEMMA StepApart ==
  ASSUME Apart, [Next]_vars
  PROVE  Apart'
<1>1. CASE BeginActing
  <2>1. CASE opt.dry
    BY <1>1, <2>1 DEF BeginActing, Apart
  <2>2. CASE ~opt.dry
    <3>1. DOMAIN act' = Dedupe(collected)
      BY <1>1, <2>2 DEF BeginActing
    <3>2. QED BY <3>1, DedupeApart DEF Apart
  <2>3. QED BY <2>1, <2>2
<1>2. CASE \E x \in DOMAIN act : Post(x) \/ Reply(x) \/ Refuse(x) \/ NoReply(x)
  BY <1>2, PoolUnchanged DEF Post, Reply, Refuse, NoReply, After
<1>3. CASE \/ ResolveHive \/ ResolveStartPath \/ ListDirectory \/ BeginReading \/ Exit
           \/ \E p \in DOMAIN nested : DiscoverNested(p)
  BY <1>3 DEF ResolveHive, ResolveStartPath, ListDirectory, BeginReading, Exit,
     DiscoverNested, acting, Apart
<1>4. CASE ReadStep
  BY <1>4 DEF ReadStep, Describe, UseCache, BeginWalk, ReadTx, ReadPath, EndWalk, WalkFails,
     Reading, acting, Apart
<1>5. CASE Surroundings
  BY <1>5 DEF Surroundings, run, acting, Apart
<1>6. CASE \E t \in accepted : HiveDoes(t)
  BY <1>6 DEF HiveDoes, Apart
<1>7. CASE UNCHANGED vars
  BY <1>7 DEF vars, run, acting, Apart
<1>8. QED BY <1>1, <1>2, <1>3, <1>4, <1>5, <1>6, <1>7 DEF Next, Step, Over

\* Two threads are never busy with the same tablet: the targets are found by
\* object, and two objects may share a tablet.
THEOREM TabletsApart == Spec => []OneThreadPerTablet
<1>1. Init => Apart
  BY DEF Init, Apart, None
<1>2. Apart /\ [Next]_vars => Apart'
  BY StepApart
<1>3. Apart => OneThreadPerTablet
  BY DEF Apart, OneThreadPerTablet
<1>4. QED BY <1>1, <1>2, <1>3, PTL DEF Spec

(***************************************************************************)
(* The database                                                            *)
(***************************************************************************)
\* What its variables are, whatever happens.
DbTyped ==
  /\ here \in [Path -> {"no", "yes", "dropping"}] /\ listed \subseteq Path
  /\ shards \in [Path -> SUBSET Tablet]
  /\ op \in [Path -> [refs : SUBSET Path, left : SUBSET Tablet]]
  /\ hive \in [Tablet -> {"none", "running", "stopped", "gone"}]

\* A path that is there has all its shards and lies in paths that are there;
\* what a drop has not deleted yet is known to its operation.
DbTrue ==
  \A p \in Path :
    /\ shards[p] \cup op[p].left \subseteq ShardsOf[p]
    /\ op[p].refs # {} => p \in op[p].refs
    /\ here[p] # "dropping" => op[p] = NoOp
    /\ here[p] = "no" => shards[p] = {}
    /\ here[p] = "yes" => /\ shards[p] = ShardsOf[p] /\ p \in listed
                          /\ \A n \in 0..Len(p) : here[SubSeq(p, 1, n)] = "yes"
    /\ here[p] = "dropping" => /\ shards[p] \in {{}, op[p].left}
                               /\ \A t \in ShardsOf[p] \ op[p].left : hive[t] = "gone"

Db == DbTyped /\ DbTrue

(***************************************************************************)
(* What a run has found                                                    *)
(***************************************************************************)
\* All of the path is outside the directories that are left alone.
Walkable(p) == opt.sys \/ \A d \in SysDirs : IsPrefix(d, p) => IsPrefix(d, opt.prefix)
Directories == {p \in Path : Walkable(p) /\ KindOf[p] \in DirectoryTypes}
Nested == {p \in Path : Walkable(p) /\ (KindOf[p] = "CDC_STREAM" => WantCdc)}
Chosen == {p \in Path : Selects(p) /\ Open(p)}

\* What a request has to say of the tablets of p: nothing, or all there are.
Tells(found, p) ==
  /\ found \subseteq ShardsOf[p]
  /\ found = {} \/ \A t \in ShardsOf[p] \ found : hive[t] = "gone"

RunTyped ==
  /\ asked \in Cases /\ faults \in Nat /\ faults <= asked.faults
  /\ pc \in {"hive", "start", "walk", "read", "act", "exit"}
  /\ errors \subseteq Path
  /\ queue \in Seq(Directories) /\ objects \subseteq Chosen
  /\ DOMAIN nested \subseteq {p \in Nested : KindOf[p] = "TABLE"}
  /\ \A p \in DOMAIN nested : nested[p] \in Seq(Nested)
  /\ pc \in {"hive", "start", "walk"} => task = None /\ walk = NoWalk
  /\ pc = "read" => task \in [objects -> {"todo", "hidden", "done"}]
  /\ pc \notin {"act", "exit"} => act = None /\ accepted = {}
  /\ accepted \subseteq Tablet
  /\ \A x \in DOMAIN act : act[x] \in [state : {"todo", "sent", "ok", "error", "refused"}, tries : Nat]

\* The targets are tablets of their objects; what is known of a hidden path is
\* nothing, or all that is left of it.
Reads ==
  /\ collected \subseteq {x \in Path \X Tablet : x[1] \in objects /\ x[2] \in ShardsOf[x[1]]}
  /\ walk = [by |-> walk.by, txs |-> walk.txs, slots |-> walk.slots, map |-> walk.map]
  /\ walk.by \subseteq objects /\ walk.txs \subseteq Path
  /\ \A s \in walk.slots : s.path \in Path /\ Tells(s.backup, s.path)
  /\ \A p \in DOMAIN walk.map : p \in Path /\ Tells(walk.map[p], p)
  /\ \A p \in DOMAIN cache.map : p \in Path /\ Tells(cache.map[p], p)
  /\ DOMAIN act \subseteq collected

Base == Db /\ RunTyped /\ Reads

(***************************************************************************)
(* What a run may complain about                                           *)
(***************************************************************************)
Lost == asked.faults - faults

\* What was hidden has not been there all the time.
Watched ==
  /\ untouched \subseteq {p \in Path : here[p] = "yes"}
  /\ ~readFailed => errors \cap untouched = {} /\ ~cache.error
  /\ pc = "read" => \A p \in objects : task[p] = "hidden" => p \notin untouched
  /\ pc = "read" /\ walk # NoWalk => \A p \in walk.by : task[p] = "hidden"

\* A lost answer is one attempt of one target.
Attempts ==
  \A x \in DOMAIN act :
    /\ act[x].state \in {"todo", "sent"} => act[x].tries <= Lost
    /\ act[x].state = "error" => hive[x[2]] = "gone" \/ Lost >= opt.retries

Excused == Watched /\ Attempts

(***************************************************************************)
(* What a run that complains of nothing has done                           *)
(***************************************************************************)
\* A directory above p is still to be listed, or something below a table.
InQueue(p) == \E a \in Range(queue) : IsPrefix(a, p)
InTable(p, t) ==
  \E q \in Range(nested[t]) :
    /\ IsPrefix(t, q) /\ IsStrictPrefix(q, p)
    /\ KindOf[q] \in {"TABLE", "TABLE_INDEX", "CDC_STREAM"}
    /\ KindOf[q] = "TABLE" /\ q # t => KindOf[Front(q)] = "TABLE_INDEX"
ToBeFound(p) ==
  \/ pc \in {"hive", "start"}
  \/ pc = "walk" /\ (InQueue(p) \/ \E t \in DOMAIN nested : InTable(p, t))

\* A path that has been there all the time is found, or will be.
Found ==
  /\ \A p \in untouched : \A n \in 0..Len(p) : SubSeq(p, 1, n) \in untouched
  /\ errors = {} /\ status # "1" =>
       \A p \in untouched : Wanted(p) => p \in objects \/ ToBeFound(p)

\* An object that is done has all its tablets among the targets, but for those
\* that are gone.
Told ==
  errors = {} /\ status # "1" /\ pc \in {"read", "act", "exit"} =>
    \A p \in objects : task[p] = "done" =>
      \A t \in ShardsOf[p] : <<p, t>> \in collected \/ hive[t] = "gone"

\* Every object is done before Hive is asked about any of its tablets; a target
\* that is ok is as it should be, or will be.
Carried ==
  /\ status # "none" => pc = "exit"
  /\ pc = "act" \/ (status = "0" /\ ~opt.dry) =>
       /\ \A p \in objects : task[p] = "done"
       /\ \A x \in collected : \E y \in DOMAIN act : y[2] = x[2]
  /\ status = "0" => errors = {} /\ (~opt.dry => \A x \in DOMAIN act : act[x].state = "ok")
  /\ \A x \in DOMAIN act : act[x].state = "ok" => hive[x[2]] \in {Goal, "gone"} \/ x[2] \in accepted

Thorough == Found /\ Told /\ Carried

(***************************************************************************)
(* Paths                                                                   *)
(***************************************************************************)
LEMMA PathTyped == Path \subseteq Seq(STRING) /\ << >> \in Path
BY SchemeAssumption

LEMMA PrefixByItems ==
  ASSUME NEW s \in Seq(STRING), NEW t \in Seq(STRING)
  PROVE  IsPrefix(s, t) <=> Len(s) <= Len(t) /\ \A i \in 1..Len(s) : s[i] = t[i]
<1>1. SubSeq(s, 1, Len(s)) = s
  OBVIOUS
<1>2. ASSUME Len(s) <= Len(t)
      PROVE  SubSeq(t, 1, Len(s)) = s <=> \A i \in 1..Len(s) : s[i] = t[i]
  <2>1. SubSeq(t, 1, Len(s)) \in Seq(STRING) /\ Len(SubSeq(t, 1, Len(s))) = Len(s)
    BY <1>2
  <2>2. \A i \in 1..Len(s) : SubSeq(t, 1, Len(s))[i] = t[i]
    BY <1>2
  <2>3. QED BY <2>1, <2>2
<1>3. QED BY <1>1, <1>2 DEF IsPrefix

LEMMA PrefixTransitive ==
  ASSUME NEW s \in Seq(STRING), NEW t \in Seq(STRING), NEW u \in Seq(STRING),
         IsPrefix(s, t), IsPrefix(t, u)
  PROVE  IsPrefix(s, u)
BY PrefixByItems

\* Two paths on the way to the same path are on the way to each other.
LEMMA PrefixesMeet ==
  ASSUME NEW s \in Seq(STRING), NEW t \in Seq(STRING), NEW u \in Seq(STRING),
         IsPrefix(s, u), IsPrefix(t, u)
  PROVE  IsPrefix(s, t) \/ IsPrefix(t, s)
BY PrefixByItems

LEMMA PrefixIsCut ==
  ASSUME NEW s \in Seq(STRING), NEW t \in Seq(STRING)
  PROVE  /\ IsPrefix(s, t) => Len(s) \in 0..Len(t) /\ s = SubSeq(t, 1, Len(s))
         /\ \A n \in 0..Len(t) : IsPrefix(SubSeq(t, 1, n), t) /\ Len(SubSeq(t, 1, n)) = n
<1>1. SubSeq(s, 1, Len(s)) = s
  OBVIOUS
<1>2. ASSUME NEW n \in 0..Len(t)
      PROVE  IsPrefix(SubSeq(t, 1, n), t) /\ Len(SubSeq(t, 1, n)) = n
  <2>1. PICK u : u = SubSeq(t, 1, n)
    OBVIOUS
  <2>2. u \in Seq(STRING) /\ Len(u) = n /\ \A i \in 1..n : u[i] = t[i]
    BY <2>1
  <2>3. IsPrefix(u, t)
    BY <2>2, PrefixByItems
  <2>4. QED BY <2>1, <2>2, <2>3
<1>3. QED BY <1>1, <1>2 DEF IsPrefix

\* What is above a path is the path itself or above the one it lies in.
LEMMA AboveChild ==
  ASSUME NEW q \in Seq(STRING), q # << >>
  PROVE  /\ Front(q) \in Seq(STRING) /\ Len(Front(q)) = Len(q) - 1
         /\ Front(q) = SubSeq(q, 1, Len(q) - 1) /\ IsPrefix(Front(q), q)
         /\ \A s \in Seq(STRING) : IsPrefix(s, q) => s = q \/ IsPrefix(s, Front(q))
<1>1. Len(q) > 0 /\ Len(q) - 1 \in 0..Len(q)
  OBVIOUS
<1>2. Front(q) = SubSeq(q, 1, Len(q) - 1)
  BY DEF Front
<1>3. Front(q) \in Seq(STRING) /\ Len(Front(q)) = Len(q) - 1
  <2>1. PICK n \in 0..Len(q) : n = Len(q) - 1
    BY <1>1
  <2>2. SubSeq(q, 1, n) \in Seq(STRING) /\ Len(SubSeq(q, 1, n)) = n
    OBVIOUS
  <2>3. QED BY <1>2, <2>1, <2>2
<1>4. IsPrefix(Front(q), q)
  BY <1>1, <1>2, PrefixIsCut
<1>5. ASSUME NEW s \in Seq(STRING), IsPrefix(s, q)
      PROVE  s = q \/ IsPrefix(s, Front(q))
  <2>1. CASE IsPrefix(s, Front(q))
    BY <2>1
  <2>2. CASE IsPrefix(Front(q), s)
    BY <1>1, <1>3, <1>5, <2>2, PrefixByItems
  <2>3. QED BY <1>3, <1>4, <1>5, <2>1, <2>2, PrefixesMeet
<1>6. QED BY <1>2, <1>3, <1>4, <1>5

\* The next path on the way from a to p.
LEMMA NextOnTheWay ==
  ASSUME NEW a \in Path, NEW p \in Path, IsStrictPrefix(a, p)
  PROVE  \E n \in 0..Len(p) :
           LET c == SubSeq(p, 1, n)
           IN  c \in Path \ {<< >>} /\ Front(c) = a /\ IsPrefix(c, p) /\ IsPrefix(a, c) /\ c # a
<1>1. a \in Seq(STRING) /\ p \in Seq(STRING) /\ IsPrefix(a, p) /\ a # p
  BY PathTyped DEF IsStrictPrefix
<1>2. Len(a) \in 0..Len(p) /\ a = SubSeq(p, 1, Len(a))
  BY <1>1, PrefixIsCut
<1>3. Len(a) # Len(p)
  BY <1>1, <1>2
<1>4. PICK n \in 0..Len(p) : n = Len(a) + 1
  BY <1>1, <1>2, <1>3
<1>5. PICK c : c = SubSeq(p, 1, n)
  OBVIOUS
<1>6. c \in Path
  BY <1>5, SchemeAssumption
<1>7. c \in Seq(STRING) /\ Len(c) = n /\ IsPrefix(c, p)
  BY <1>1, <1>5, PrefixIsCut
<1>8. c # << >> /\ c # a
  BY <1>1, <1>4, <1>7
<1>9. IsPrefix(a, c)
  BY <1>1, <1>4, <1>7, PrefixByItems
<1>10. IsPrefix(Front(c), a) /\ Len(Front(c)) = Len(a) /\ Front(c) \in Seq(STRING)
  <2>1. Front(c) \in Seq(STRING) /\ Len(Front(c)) = Len(a) /\ IsPrefix(Front(c), c)
    BY <1>1, <1>4, <1>7, <1>8, AboveChild
  <2>2. IsPrefix(a, Front(c))
    BY <1>1, <1>7, <1>8, <1>9, AboveChild
  <2>3. QED BY <1>1, <2>1, <2>2, PrefixByItems
<1>11. Front(c) = a
  BY <1>1, <1>10, PrefixByItems
<1>12. QED BY <1>5, <1>6, <1>7, <1>8, <1>9, <1>11

LEMMA FrontIsPath ==
  ASSUME NEW p \in Path, p # << >>
  PROVE  Front(p) \in Path
<1>1. p \in Seq(STRING) /\ Len(p) - 1 \in 0..Len(p)
  BY PathTyped
<1>2. PICK n \in 0..Len(p) : n = Len(p) - 1
  BY <1>1
<1>3. SubSeq(p, 1, n) \in Path
  BY SchemeAssumption
<1>4. QED BY <1>1, <1>2, <1>3, AboveChild

\* What a set is listed as.
LEMMA ListOfSet ==
  ASSUME NEW S, IsFiniteSet(S)
  PROVE  SetToSeq(S) \in Seq(S) /\ Range(SetToSeq(S)) = S
<1>1. Cardinality(S) \in Nat /\ ExistsBijection(1..Cardinality(S), S)
  BY FS_CardinalityType
<1>2. PICK f \in [1..Cardinality(S) -> S] : IsInjective(f)
  BY <1>1 DEF ExistsBijection, Bijection, Injection, IsInjective
<1>3. SetToSeq(S) \in [1..Cardinality(S) -> S] /\ IsInjective(SetToSeq(S))
  BY <1>2 DEF SetToSeq
<1>4. SetToSeq(S) \in Seq(S)
  BY <1>1, <1>3
<1>5. Range(SetToSeq(S)) = S
  <2>1. SetToSeq(S) \in Injection(1..Cardinality(S), S)
    BY <1>3 DEF Injection, IsInjective
  <2>2. IsFiniteSet(1..Cardinality(S)) /\ Cardinality(1..Cardinality(S)) = Cardinality(S)
    BY <1>1, FS_Interval
  <2>3. SetToSeq(S) \in Surjection(1..Cardinality(S), S)
    BY <2>1, <2>2, FS_Injection
  <2>4. QED BY <1>3, <2>3 DEF Surjection, Range
<1>6. QED BY <1>4, <1>5

LEMMA SomePathsFinite == \A S : S \subseteq Path => IsFiniteSet(S)
BY SchemeAssumption, FS_Subset

(***************************************************************************)
(* The database stays what it is                                           *)
(***************************************************************************)
\* Nothing happens to a tablet that there is but that it is deleted.
Settles == \A t \in Tablet : hive[t] # "none" => hive'[t] \in {hive[t], "gone"}

LEMMA ShardsAreTablets == \A p \in Path : ShardsOf[p] \subseteq Tablet
BY DEF Tablet

LEMMA NoOpTyped ==
  NoOp \in [refs : SUBSET Path, left : SUBSET Tablet] /\ NoOp.refs = {} /\ NoOp.left = {}
BY DEF NoOp

LEMMA CreateStep ==
  ASSUME Db, NEW p \in Volatile, Create(p)
  PROVE  Db' /\ Settles
<1> USE DEF Db
<1>1. p \in Path /\ p # << >>
  BY SchemeAssumption
<1>2. DbTyped'
  BY <1>1, ShardsAreTablets DEF Create, DbTyped
<1>3. /\ here' = [here EXCEPT ![p] = "yes"] /\ listed' = listed \cup {p}
      /\ shards' = [shards EXCEPT ![p] = ShardsOf[p]] /\ op' = op
      /\ here[p] = "no" /\ here[Front(p)] = "yes"
      /\ \A t \in ShardsOf[p] : hive[t] = "none"
      /\ hive' = [t \in Tablet |-> IF t \in ShardsOf[p] THEN "running" ELSE hive[t]]
  BY DEF Create
<1>4. \A t \in Tablet : hive[t] # "none" => hive'[t] = hive[t]
  BY <1>3
<1>5. ASSUME NEW q \in Path, q # p
      PROVE  /\ here'[q] = here[q] /\ shards'[q] = shards[q] /\ op'[q] = op[q]
             /\ q \in listed => q \in listed'
  BY <1>3, <1>5 DEF DbTyped
<1>6. here'[p] = "yes" /\ shards'[p] = ShardsOf[p] /\ op'[p] = NoOp /\ p \in listed'
  BY <1>1, <1>3 DEF DbTyped, DbTrue
<1>7. ASSUME NEW q \in Path, here[q] = "yes", NEW n \in 0..Len(q)
      PROVE  here'[SubSeq(q, 1, n)] = "yes"
  <2>1. SubSeq(q, 1, n) \in Path /\ here[SubSeq(q, 1, n)] = "yes"
    BY <1>7, SchemeAssumption DEF DbTrue
  <2>2. QED BY <1>5, <1>6, <2>1
<1>8. ASSUME NEW n \in 0..Len(p)
      PROVE  here'[SubSeq(p, 1, n)] = "yes"
  <2>1. p \in Seq(STRING)
    BY <1>1, PathTyped
  <2>2. CASE n = Len(p)
    <3>1. SubSeq(p, 1, n) = p
      BY <2>1, <2>2
    <3>2. QED BY <1>6, <3>1
  <2>3. CASE n # Len(p)
    <3>1. PICK f \in Path : f = Front(p)
      BY <1>1, FrontIsPath
    <3>2. f \in Seq(STRING) /\ n \in 0..Len(f) /\ f = SubSeq(p, 1, Len(p) - 1) /\ Len(f) = Len(p) - 1
      BY <1>1, <2>1, <2>3, <3>1, AboveChild
    <3>3. SubSeq(f, 1, n) = SubSeq(p, 1, n)
      BY <2>1, <2>3, <3>2
    <3>4. QED BY <1>3, <1>7, <3>1, <3>2, <3>3
  <2>4. QED BY <2>2, <2>3
<1>9. DbTrue'
  <2>1. ASSUME NEW q \in Path, q # p, here[q] = "dropping", NEW t \in ShardsOf[q] \ op[q].left
        PROVE  hive'[t] = "gone"
    BY <1>4, <2>1, ShardsAreTablets DEF DbTrue
  <2>2. QED BY <1>1, <1>5, <1>6, <1>7, <1>8, <2>1, NoOpTyped DEF DbTrue
<1>10. QED BY <1>2, <1>4, <1>9 DEF Settles

LEMMA DropStep ==
  ASSUME Db, NEW p \in Volatile, NEW other \in SUBSET Volatile, Drop(p, other)
  PROVE  Db' /\ hive' = hive
<1> USE DEF Db
<1>1. p \in Path /\ p # << >> /\ other \subseteq Path
  BY SchemeAssumption
<1>2. PICK o : o = [refs |-> {p} \cup other, left |-> shards[p]]
  OBVIOUS
<1>3. /\ here' = [here EXCEPT ![p] = "dropping"] /\ op' = [op EXCEPT ![p] = o]
      /\ listed' = listed /\ shards' = shards /\ hive' = hive
      /\ here[p] = "yes" /\ \A q \in ChildrenOf(p) : here[q] # "yes"
  BY <1>2 DEF Drop
<1>4. o \in [refs : SUBSET Path, left : SUBSET Tablet] /\ p \in o.refs /\ o.left = ShardsOf[p]
  BY <1>1, <1>2, <1>3 DEF DbTyped, DbTrue
<1>5. DbTyped'
  BY <1>1, <1>3, <1>4 DEF DbTyped
<1>6. ASSUME NEW q \in Path, q # p
      PROVE  here'[q] = here[q] /\ op'[q] = op[q]
  BY <1>3, <1>6 DEF DbTyped
<1>7. here'[p] = "dropping" /\ op'[p] = o
  BY <1>1, <1>3 DEF DbTyped
<1>8. ASSUME NEW q \in Path, q # p, here[q] = "yes", NEW n \in 0..Len(q)
      PROVE  here'[SubSeq(q, 1, n)] = "yes"
  <2>1. SubSeq(q, 1, n) \in Path /\ here[SubSeq(q, 1, n)] = "yes"
    BY <1>8, SchemeAssumption DEF DbTrue
  <2>2. ASSUME SubSeq(q, 1, n) = p
        PROVE  FALSE
    <3>1. IsStrictPrefix(p, q)
      BY <1>8, <2>2, PathTyped, PrefixIsCut DEF IsStrictPrefix
    <3>2. PICK m \in 0..Len(q) :
            SubSeq(q, 1, m) \in Path \ {<< >>} /\ Front(SubSeq(q, 1, m)) = p
      BY <1>1, <3>1, NextOnTheWay
    <3>3. SubSeq(q, 1, m) \in ChildrenOf(p) /\ here[SubSeq(q, 1, m)] = "yes"
      BY <1>8, <3>2 DEF ChildrenOf, DbTrue
    <3>4. QED BY <1>3, <3>3
  <2>3. QED BY <1>6, <2>1, <2>2
<1>9. DbTrue'
  BY <1>1, <1>3, <1>4, <1>6, <1>7, <1>8 DEF DbTrue
<1>10. QED BY <1>3, <1>5, <1>9

LEMMA UnlistStep ==
  ASSUME Db, NEW p \in Volatile, Unlist(p)
  PROVE  Db' /\ hive' = hive
BY DEF Db, DbTyped, DbTrue, Unlist

LEMMA ForgetStep ==
  ASSUME Db, NEW p \in Volatile, Forget(p)
  PROVE  Db' /\ hive' = hive
<1> USE DEF Db
<1>1. p \in Path
  BY SchemeAssumption
<1>2. /\ here[p] = "dropping" /\ shards' = [shards EXCEPT ![p] = {}]
      /\ here' = here /\ listed' = listed /\ op' = op /\ hive' = hive
  BY DEF Forget
<1>3. \A q \in Path : shards'[q] = IF q = p THEN {} ELSE shards[q]
  BY <1>2 DEF DbTyped
<1>4. QED BY <1>1, <1>2, <1>3 DEF DbTyped, DbTrue

LEMMA DeleteShardStep ==
  ASSUME Db, NEW p \in Volatile, DeleteShard(p)
  PROVE  Db' /\ Settles
<1> USE DEF Db
<1>1. p \in Path
  BY SchemeAssumption
<1>2. PICK t \in op[p].left :
        /\ op' = [op EXCEPT ![p].left = @ \ {t}] /\ hive' = [hive EXCEPT ![t] = "gone"]
        /\ shards' = [shards EXCEPT ![p] = @ \ {t}]
        /\ here' = here /\ listed' = listed
  BY DEF DeleteShard
<1>3. t \in Tablet /\ here[p] = "dropping"
  BY <1>1, NoOpTyped DEF DbTyped, DbTrue
<1>4. \A u \in Tablet : hive'[u] = IF u = t THEN "gone" ELSE hive[u]
  BY <1>2 DEF DbTyped
<1>5. \A q \in Path : shards'[q] = IF q = p THEN shards[p] \ {t} ELSE shards[q]
  BY <1>2 DEF DbTyped
<1>6. op'[p] = [refs |-> op[p].refs, left |-> op[p].left \ {t}]
  BY <1>1, <1>2 DEF DbTyped
<1>7. \A q \in Path : q # p => op'[q] = op[q]
  BY <1>2 DEF DbTyped
<1>8. DbTyped'
  <2>1. op' \in [Path -> [refs : SUBSET Path, left : SUBSET Tablet]]
    BY <1>1, <1>2 DEF DbTyped
  <2>2. shards' \in [Path -> SUBSET Tablet] /\ hive' \in [Tablet -> {"none", "running", "stopped", "gone"}]
    BY <1>1, <1>2, <1>3 DEF DbTyped
  <2>3. QED BY <1>2, <2>1, <2>2 DEF DbTyped
<1>9. DbTrue'
  <2>1. ASSUME NEW q \in Path, here[q] = "dropping", NEW u \in ShardsOf[q] \ op'[q].left
        PROVE  hive'[u] = "gone"
    BY <1>4, <1>6, <1>7, <2>1, ShardsAreTablets DEF DbTrue
  <2>2. shards'[p] \in {{}, op'[p].left}
    BY <1>1, <1>3, <1>5, <1>6 DEF DbTrue
  <2>3. op'[p].refs = op[p].refs /\ op'[p].left \subseteq op[p].left
    BY <1>6
  <2>4. QED BY <1>1, <1>2, <1>3, <1>5, <1>7, <2>1, <2>2, <2>3 DEF DbTrue
<1>10. QED BY <1>4, <1>8, <1>9 DEF Settles

LEMMA FinishStep ==
  ASSUME Db, NEW p \in Volatile, Finish(p)
  PROVE  Db' /\ hive' = hive
<1> USE DEF Db
<1>1. p \in Path
  BY SchemeAssumption
<1>2. /\ here[p] = "dropping" /\ shards[p] = {}
      /\ here' = [here EXCEPT ![p] = "no"] /\ listed' = listed \ {p}
      /\ op' = [op EXCEPT ![p] = NoOp] /\ shards' = shards /\ hive' = hive
  BY DEF Finish
<1>3. DbTyped'
  BY <1>1, <1>2, NoOpTyped DEF DbTyped
<1>4. \A q \in Path : q # p => here'[q] = here[q] /\ op'[q] = op[q]
  BY <1>2 DEF DbTyped
<1>5. here'[p] = "no" /\ op'[p] = NoOp
  BY <1>1, <1>2 DEF DbTyped
<1>6. ASSUME NEW q \in Path, here[q] = "yes", NEW n \in 0..Len(q)
      PROVE  here'[SubSeq(q, 1, n)] = "yes"
  <2>1. SubSeq(q, 1, n) \in Path /\ here[SubSeq(q, 1, n)] = "yes"
    BY <1>6, SchemeAssumption DEF DbTrue
  <2>2. QED BY <1>2, <1>4, <2>1
<1>7. DbTrue'
  BY <1>1, <1>2, <1>4, <1>5, <1>6, NoOpTyped DEF DbTrue
<1>8. QED BY <1>2, <1>3, <1>7

LEMMA DbSchemeStep ==
  ASSUME Db, SchemeStep
  PROVE  Db' /\ Settles
<1>1. PICK p \in Volatile :
        \/ Create(p) \/ Unlist(p) \/ Forget(p) \/ DeleteShard(p) \/ Finish(p)
        \/ \E other \in SUBSET ((Volatile \ {p}) \cap ChildrenOf(Front(p))) : Drop(p, other)
  BY DEF SchemeStep
<1>2. hive' = hive => Settles
  BY DEF Settles
<1>3. QED BY <1>1, <1>2, CreateStep, DropStep, UnlistStep, ForgetStep, DeleteShardStep, FinishStep

LEMMA DbDone ==
  ASSUME Db, NEW t, Done(t), UNCHANGED scheme, opt.action \in {"stop", "start"}
  PROVE  Db' /\ \A u \in Tablet : hive[u] = "gone" => hive'[u] = "gone"
<1>1. hive' = [hive EXCEPT ![t] = IF @ = "gone" THEN @ ELSE Goal]
  BY DEF Done
<1>2. Goal \in {"stopped", "running"}
  BY DEF Goal
<1>3. \A u \in Tablet : hive[u] = "gone" => hive'[u] = "gone"
  BY <1>1 DEF Db, DbTyped
<1>4. DbTyped'
  BY <1>1, <1>2 DEF Db, DbTyped, scheme
<1>5. DbTrue'
  BY <1>3, ShardsAreTablets DEF Db, DbTrue, scheme
<1>6. QED BY <1>3, <1>4, <1>5 DEF Db

LEMMA DbInit == Init => Db
<1>1. SUFFICES ASSUME NEW c \in Cases, asked = c, SchemeInit(c.here, c.changes)
               PROVE  Db
  BY DEF Init
<1>2. c.here \subseteq Path /\ \A p \in c.here : \A n \in 0..Len(p) : SubSeq(p, 1, n) \in c.here
  BY ManageAssumption
<1>3. DbTyped
  BY <1>1, <1>2, ShardsAreTablets, NoOpTyped DEF SchemeInit, DbTyped
<1>4. DbTrue
  BY <1>1, <1>2, NoOpTyped, SchemeAssumption DEF SchemeInit, DbTrue
<1>5. QED BY <1>3, <1>4 DEF Db

(***************************************************************************)
(* What is found stays what was asked for                                  *)
(***************************************************************************)
LEMMA AskedStays ==
  ASSUME asked' = asked
  PROVE  /\ opt' = opt /\ Goal' = Goal /\ Directories' = Directories /\ Nested' = Nested
         /\ Chosen' = Chosen
BY DEF opt, Goal, Directories, Nested, Chosen, Walkable, Selects, Open, MatchesPrefix, WantCdc

LEMMA NobodyAsksOtherwise == [Next]_vars => asked' = asked
BY DEF Next, Step, Over, vars, run, ResolveHive, ResolveStartPath, ListDirectory, DiscoverNested,
   BeginReading, ReadStep, Describe, UseCache, BeginWalk, WalkFails, ReadTx, ReadPath, EndWalk,
   Reading, BeginActing, Post, Reply, Refuse, NoReply, HiveDoes, Exit, Surroundings, Quiet, PostQuiet

LEMMA AskedTyped ==
  ASSUME asked \in Cases
  PROVE  /\ opt \in Option /\ opt.action \in {"stop", "start"} /\ opt.prefix \in Path
         /\ opt.retries \in Nat /\ opt.retries > 0 /\ opt.kinds \subseteq SelectableKinds
         /\ asked.faults \in Nat /\ Goal \in {"stopped", "running"}
<1>1. opt \in Option /\ asked.faults \in Nat
  BY ManageAssumption DEF opt
<1>2. QED BY <1>1 DEF Option, Goal

LEMMA DbQuiet ==
  ASSUME UNCHANGED <<scheme, hive>>, Db
  PROVE  Db'
BY DEF Db, DbTyped, DbTrue, scheme

\* A kind that does not hold directories is not that of a system directory.
LEMMA ChildOpen ==
  ASSUME NEW a \in Path, Walkable(a), NEW q \in Path \ {<< >>}, Front(q) = a
  PROVE  /\ Open(q)
         /\ KindOf[q] \notin Holders \/ q \notin SysDirs \/ opt.sys => Walkable(q)
<1>1. a \in Seq(STRING) /\ q \in Seq(STRING) /\ SysDirs \subseteq Seq(STRING)
  BY PathTyped, ManageAssumption
<1>2. \A d \in SysDirs : IsPrefix(d, q) => d = q \/ IsPrefix(d, a)
  BY <1>1, AboveChild
<1>3. Open(q)
  BY <1>2 DEF Open, Walkable, IsStrictPrefix
<1>4. KindOf[q] \notin Holders => q \notin SysDirs
  BY ManageAssumption
<1>5. QED BY <1>2, <1>3, <1>4 DEF Walkable

LEMMA ResolveHiveBase ==
  ASSUME Base, ResolveHive
  PROVE  Base'
<1>1. asked' = asked /\ UNCHANGED <<scheme, hive>>
  BY DEF ResolveHive, Quiet
<1>2. RunTyped'
  BY <1>1, AskedStays, AskedTyped DEF Base, RunTyped, ResolveHive, Spend, Keep, finding, reading, acting
<1>3. Reads'
  BY <1>1 DEF Base, Reads, ResolveHive, finding, reading, acting, Tells
<1>4. QED BY <1>1, <1>2, <1>3, DbQuiet DEF Base

LEMMA ResolveStartPathBase ==
  ASSUME Base, ResolveStartPath
  PROVE  Base'
<1>1. asked' = asked /\ UNCHANGED <<scheme, hive>>
  BY DEF ResolveStartPath, Quiet
<1>2. PICK p \in Path : /\ IsPrefix(p, opt.prefix)
                        /\ p = << >> \/ (Visible(p) /\ KindOf[p] \in DirectoryTypes)
                        /\ queue' = <<p>>
  <2>1. PICK q \in {p \in Path : /\ IsPrefix(p, opt.prefix)
                               /\ \/ p = << >>
                                  \/ Visible(p) /\ KindOf[p] \in DirectoryTypes} : queue' = <<q>>
    BY Zenon DEF ResolveStartPath
  <2>2. /\ q \in Path /\ IsPrefix(q, opt.prefix)
        /\ q = << >> \/ (Visible(q) /\ KindOf[q] \in DirectoryTypes)
    OBVIOUS
  <2>3. QED BY <2>1, <2>2, Zenon
<1>3. KindOf[p] \in DirectoryTypes
  BY <1>2, SchemeAssumption DEF DirectoryTypes
<1>4. Walkable(p)
  <2>1. opt.prefix \in Seq(STRING) /\ p \in Seq(STRING) /\ SysDirs \subseteq Seq(STRING)
    BY AskedTyped, PathTyped, ManageAssumption DEF Base, RunTyped
  <2>2. QED BY <1>2, <2>1, PrefixTransitive DEF Walkable
<1>5. queue' \in Seq(Directories)
  BY <1>2, <1>3, <1>4 DEF Directories
<1>6. RunTyped'
  BY <1>1, <1>5, AskedStays, AskedTyped
     DEF Base, RunTyped, ResolveStartPath, Spend, Keep, reading, acting
<1>7. Reads'
  BY <1>1 DEF Base, Reads, ResolveStartPath, reading, acting, Tells
<1>8. QED BY <1>1, <1>6, <1>7, DbQuiet DEF Base

\* The next of a list, and the list without it.
LEMMA Rest ==
  ASSUME NEW S, NEW s \in Seq(S), s # << >>
  PROVE  /\ Head(s) \in S /\ Tail(s) \in Seq(S) /\ Head(s) \in Range(s)
         /\ Range(s) = {Head(s)} \cup Range(Tail(s))
<1>1. Head(s) = s[1] /\ Len(s) \in Nat /\ Len(s) > 0 /\ Tail(s) \in Seq(S)
  OBVIOUS
<1>2. Len(Tail(s)) = Len(s) - 1 /\ \A i \in 1..(Len(s) - 1) : Tail(s)[i] = s[i + 1]
  BY <1>1
<1>3. ASSUME NEW i \in DOMAIN s, i # 1
      PROVE  i - 1 \in DOMAIN Tail(s) /\ Tail(s)[i - 1] = s[i]
  <2>1. i - 1 \in 1..(Len(s) - 1) /\ (i - 1) + 1 = i
    BY <1>1, <1>3
  <2>2. QED BY <1>1, <1>2, <2>1
<1>4. ASSUME NEW i \in DOMAIN Tail(s)
      PROVE  i + 1 \in DOMAIN s /\ s[i + 1] = Tail(s)[i]
  BY <1>1, <1>2
<1>5. 1 \in DOMAIN s
  BY <1>1
<1>6. ASSUME NEW x \in Range(s)
      PROVE  x \in {Head(s)} \cup Range(Tail(s))
  <2>1. PICK i \in DOMAIN s : x = s[i]
    BY DEF Range
  <2>2. CASE i = 1
    BY <1>1, <2>1, <2>2
  <2>3. CASE i # 1
    <3>1. i - 1 \in DOMAIN Tail(s) /\ Tail(s)[i - 1] = x
      BY <1>3, <2>1, <2>3
    <3>2. QED BY <3>1 DEF Range
  <2>4. QED BY <2>2, <2>3
<1>7. ASSUME NEW x \in {Head(s)} \cup Range(Tail(s))
      PROVE  x \in Range(s)
  <2>1. CASE x = Head(s)
    BY <1>1, <1>5, <2>1 DEF Range
  <2>2. CASE x \in Range(Tail(s))
    <3>1. PICK i \in DOMAIN Tail(s) : x = Tail(s)[i]
      BY <2>2 DEF Range
    <3>2. i + 1 \in DOMAIN s /\ s[i + 1] = x
      BY <1>4, <3>1
    <3>3. QED BY <3>2 DEF Range
  <2>3. QED BY <1>7, <2>1, <2>2
<1>8. QED BY <1>1, <1>5, <1>6, <1>7 DEF Range

LEMMA Joined ==
  ASSUME NEW S, NEW s \in Seq(S), NEW t \in Seq(S)
  PROVE  s \o t \in Seq(S) /\ Range(s \o t) = Range(s) \cup Range(t)
<1>1. s \o t \in Seq(S) /\ Len(s \o t) = Len(s) + Len(t) /\ Len(s) \in Nat /\ Len(t) \in Nat
  OBVIOUS
<1>2. \A i \in 1..Len(s) : i \in DOMAIN (s \o t) /\ (s \o t)[i] = s[i]
  BY <1>1
<1>3. \A i \in 1..Len(t) : Len(s) + i \in DOMAIN (s \o t) /\ (s \o t)[Len(s) + i] = t[i]
  BY <1>1
<1>4. \A i \in DOMAIN (s \o t) : \/ i \in 1..Len(s)
                                 \/ i - Len(s) \in 1..Len(t) /\ (s \o t)[i] = t[i - Len(s)]
  BY <1>1
<1>5. ASSUME NEW x \in Range(s \o t)
      PROVE  x \in Range(s) \cup Range(t)
  <2>1. PICK i \in DOMAIN (s \o t) : x = (s \o t)[i]
    BY DEF Range
  <2>2. CASE i \in 1..Len(s)
    BY <1>1, <1>2, <2>1, <2>2 DEF Range
  <2>3. CASE i \notin 1..Len(s)
    BY <1>1, <1>4, <2>1, <2>3 DEF Range
  <2>4. QED BY <2>2, <2>3
<1>6. ASSUME NEW x \in Range(s) \cup Range(t)
      PROVE  x \in Range(s \o t)
  <2>1. CASE x \in Range(s)
    <3>1. PICK i \in 1..Len(s) : x = s[i]
      BY <1>1, <2>1 DEF Range
    <3>2. QED BY <1>2, <3>1 DEF Range
  <2>2. CASE x \in Range(t)
    <3>1. PICK i \in 1..Len(t) : x = t[i]
      BY <1>1, <2>2 DEF Range
    <3>2. QED BY <1>3, <3>1 DEF Range
  <2>3. QED BY <1>6, <2>1, <2>2
<1>7. QED BY <1>1, <1>5, <1>6

LEMMA ChildrenTyped ==
  ASSUME NEW a
  PROVE  /\ ChildrenOf(a) = {q \in Path \ {<< >>} : Front(q) = a}
         /\ Children(a) \subseteq ChildrenOf(a) /\ Impls(a) \subseteq Children(a)
         /\ \A q \in Children(a) : here[q] = "yes"
BY DEF ChildrenOf, Children, Impls, Visible

LEMMA NestedIsOpen ==
  ASSUME NEW a \in Nested, NEW q \in Path \ {<< >>}, Front(q) = a
  PROVE  Open(q) /\ (KindOf[q] \notin Holders => Walkable(q))
BY ChildOpen DEF Nested

LEMMA FindsChosen ==
  ASSUME NEW a \in Nested
  PROVE  Finds(a) \subseteq Chosen
<1>1. CASE KindOf[a] = "TABLE_INDEX"
  <2>1. ASSUME NEW q \in Finds(a)
        PROVE  q \in Chosen
    <3>1. q \in Impls(a) /\ WantIndexTablets /\ MatchesPrefix(q)
      BY <1>1, <2>1 DEF Finds
    <3>2. q \in Path \ {<< >>} /\ Front(q) = a /\ KindOf[q] = "TABLE"
      BY <3>1 DEF Impls, Children, ChildrenOf
    <3>3. Open(q)
      BY <3>2, NestedIsOpen
    <3>4. QED BY <3>1, <3>2, <3>3 DEF Chosen, Selects, WantIndexTablets
  <2>2. QED BY <2>1
<1>2. CASE KindOf[a] = "CDC_STREAM"
  <2>1. PICK impl : impl = Append(a, "streamImpl")
    OBVIOUS
  <2>2. a \in Path /\ a \in Seq(STRING) /\ WantCdc
    BY <1>2, PathTyped DEF Nested
  <2>3. impl \in Path /\ KindOf[impl] = "TOPIC"
    BY <1>2, <2>1, <2>2, TreeAssumption
  <2>4. impl # << >> /\ Front(impl) = a
    BY <2>1, <2>2 DEF Front
  <2>5. ASSUME NEW q \in Finds(a)
        PROVE  q \in Chosen
    <3>1. MatchesPrefix(q) /\ (q = impl \/ (q \in Children(a) /\ KindOf[q] = "TOPIC"))
      BY <1>2, <2>1, <2>5 DEF Finds
    <3>2. q \in Path \ {<< >>} /\ Front(q) = a /\ KindOf[q] = "TOPIC"
      BY <2>3, <2>4, <3>1 DEF Children, ChildrenOf
    <3>3. Open(q)
      BY <3>2, NestedIsOpen
    <3>4. QED BY <2>2, <3>1, <3>2, <3>3 DEF Chosen, Selects, WantCdc
  <2>6. QED BY <2>5
<1>3. CASE KindOf[a] \notin {"TABLE_INDEX", "CDC_STREAM"}
  BY <1>3 DEF Finds
<1>4. QED BY <1>1, <1>2, <1>3

\* What has to be described next, as a set.
LEMMA BelowTyped ==
  ASSUME NEW t, NEW a \in Nested
  PROVE  /\ Below(t, a) \in Seq(Nested)
         /\ \A q \in Children(a) :
              \/ KindOf[a] = "TABLE" /\ KindOf[q] = "CDC_STREAM" /\ WantCdc /\ Intersects(q)
              \/ KindOf[a] = "TABLE" /\ a = t /\ KindOf[q] = "TABLE_INDEX" /\ Intersects(q)
              \/ KindOf[a] = "TABLE_INDEX" /\ KindOf[q] = "TABLE" /\ WantCdc /\ Intersects(q)
              => q \in Range(Below(t, a))
<1>1. PICK feeds : feeds = {q \in Children(a) : KindOf[q] = "CDC_STREAM" /\ WantCdc /\ Intersects(q)}
  OBVIOUS
<1>2. PICK indexes : indexes = {q \in Children(a) : a = t /\ KindOf[q] = "TABLE_INDEX" /\ Intersects(q)}
  OBVIOUS
<1>3. PICK impls : impls = {q \in Impls(a) : WantCdc /\ Intersects(q)}
  OBVIOUS
<1>4. \A q \in Children(a) : q \in Path \ {<< >>} /\ Front(q) = a
  BY ChildrenTyped
<1>5. feeds \cup indexes \cup impls \subseteq Nested
  <2>1. ASSUME NEW q \in feeds \cup indexes \cup impls
        PROVE  q \in Nested
    <3>1. /\ q \in Children(a) /\ KindOf[q] \in {"CDC_STREAM", "TABLE_INDEX", "TABLE"}
          /\ KindOf[q] = "CDC_STREAM" => WantCdc
      BY <1>1, <1>2, <1>3, <2>1 DEF Impls
    <3>2. Walkable(q) /\ q \in Path
      BY <1>4, <3>1, NestedIsOpen DEF Holders
    <3>3. QED BY <3>1, <3>2 DEF Nested
  <2>2. QED BY <2>1
<1>6. \A S \in {feeds, indexes, impls} : IsFiniteSet(S)
  BY <1>5, SomePathsFinite DEF Nested
<1>7. \A S \in {feeds, indexes, impls} : SetToSeq(S) \in Seq(S) /\ Range(SetToSeq(S)) = S
  BY <1>6, ListOfSet
<1>8. \A S \in {feeds, indexes, impls} : SetToSeq(S) \in Seq(Nested)
  BY <1>5, <1>7
<1>9. CASE KindOf[a] = "TABLE"
  <2>1. Below(t, a) = SetToSeq(feeds) \o SetToSeq(indexes)
    BY <1>1, <1>2, <1>9 DEF Below
  <2>2. Below(t, a) \in Seq(Nested) /\ Range(Below(t, a)) = feeds \cup indexes
    BY <1>7, <1>8, <2>1, Joined
  <2>3. QED BY <1>1, <1>2, <1>9, <2>2
<1>10. CASE KindOf[a] = "TABLE_INDEX"
  <2>1. Below(t, a) = SetToSeq(impls)
    BY <1>3, <1>10 DEF Below
  <2>2. Below(t, a) \in Seq(Nested) /\ Range(Below(t, a)) = impls
    BY <1>7, <1>8, <2>1
  <2>3. QED BY <1>3, <1>10, <2>2 DEF Impls
<1>11. CASE KindOf[a] \notin {"TABLE", "TABLE_INDEX"}
  BY <1>11 DEF Below
<1>12. QED BY <1>9, <1>10, <1>11

LEMMA ListDirectoryBase ==
  ASSUME Base, ListDirectory
  PROVE  Base'
<1>1. asked' = asked /\ UNCHANGED <<scheme, hive>>
  BY DEF ListDirectory, Quiet
<1>2. PICK a : a = Head(queue)
  OBVIOUS
<1>3. PICK kids : kids = {q \in listed : q # << >> /\ Front(q) = a}
  OBVIOUS
<1>4. PICK tables : tables = DOMAIN nested \cup
                              {q \in kids : /\ WantCdc \/ WantIndexTablets
                                            /\ KindOf[q] = "TABLE" /\ Intersects(q)}
  OBVIOUS
<1>5. PICK dirs : dirs = {q \in kids : Descends(q)}
  OBVIOUS
<1>6. /\ pc = "walk" /\ queue # << >>
      /\ \/ /\ objects' = objects \cup {q \in kids \cup {a} : Selects(q)}
            /\ nested' = [q \in tables |-> <<q>>] /\ queue' = Tail(queue) \o SetToSeq(dirs)
            /\ errors' = errors
         \/ /\ errors' = errors \cup {a} /\ queue' = Tail(queue)
            /\ objects' = objects /\ nested' = nested
      /\ faults' \in {faults, faults - 1} /\ (faults' = faults \/ faults > 0)
      /\ UNCHANGED <<pc, status, reading, acting>>
  BY <1>2, <1>3, <1>4, <1>5, Zenon DEF ListDirectory, Spend, Keep
<1>7. a \in Directories /\ Tail(queue) \in Seq(Directories)
  BY <1>2, <1>6, Rest DEF Base, RunTyped
<1>8. a \in Path /\ Walkable(a) /\ Open(a)
  BY <1>7 DEF Directories, Open, Walkable, IsStrictPrefix
<1>9. kids \subseteq Path /\ \A q \in kids : q \in Path \ {<< >>} /\ Front(q) = a
  BY <1>3 DEF Base, Db, DbTyped
<1>10. \A q \in kids : Open(q) /\ (KindOf[q] \notin Holders \/ q \notin SysDirs \/ opt.sys => Walkable(q))
  BY <1>8, <1>9, ChildOpen
<1>11. {q \in kids \cup {a} : Selects(q)} \subseteq Chosen
  BY <1>8, <1>9, <1>10 DEF Chosen
<1>12. tables \subseteq {q \in Nested : KindOf[q] = "TABLE"}
  BY <1>4, <1>9, <1>10 DEF Base, RunTyped, Nested, Holders
<1>13. dirs \subseteq Directories
  BY <1>5, <1>9, <1>10 DEF Descends, Directories
<1>14. Tail(queue) \o SetToSeq(dirs) \in Seq(Directories)
  <2>1. SetToSeq(dirs) \in Seq(dirs)
    BY <1>5, <1>9, SomePathsFinite, ListOfSet
  <2>2. SetToSeq(dirs) \in Seq(Directories)
    BY <1>13, <2>1
  <2>3. QED BY <1>7, <2>2, Joined
<1>15. queue' \in Seq(Directories)
  BY <1>6, <1>7, <1>14
<1>16. objects' \subseteq Chosen /\ errors' \subseteq Path /\ objects \subseteq objects'
  BY <1>6, <1>8, <1>11 DEF Base, RunTyped
<1>17. /\ DOMAIN nested' \subseteq {q \in Nested : KindOf[q] = "TABLE"}
       /\ \A q \in DOMAIN nested' : nested'[q] \in Seq(Nested)
  <2>1. CASE nested' = nested
    BY <2>1 DEF Base, RunTyped
  <2>2. CASE nested' = [q \in tables |-> <<q>>]
    <3>1. \A q \in Nested : <<q>> \in Seq(Nested)
      OBVIOUS
    <3>2. QED BY <1>12, <2>2, <3>1
  <2>3. QED BY <1>6, <2>1, <2>2
<1>18. faults' \in Nat /\ faults' <= asked.faults
  BY <1>6, AskedTyped DEF Base, RunTyped
<1>19. RunTyped'
  <2>1. pc = "walk" /\ UNCHANGED <<pc, status, reading, acting>>
    BY <1>6
  <2>2. QED
    BY <1>1, <1>15, <1>16, <1>17, <1>18, <2>1, AskedStays DEF Base, RunTyped, reading, acting
<1>20. Reads'
  BY <1>1, <1>6, <1>16 DEF Base, Reads, reading, acting, Tells
<1>21. QED BY <1>1, <1>19, <1>20, DbQuiet DEF Base

LEMMA DiscoverNestedBase ==
  ASSUME Base, NEW t \in DOMAIN nested, DiscoverNested(t)
  PROVE  Base'
<1>1. asked' = asked /\ UNCHANGED <<scheme, hive>>
  BY DEF DiscoverNested, Quiet
<1>2. PICK a : a = Head(nested[t])
  OBVIOUS
<1>3. /\ pc = "walk" /\ nested[t] # << >>
      /\ \/ /\ objects' = objects \cup Finds(a) /\ errors' = errors
            /\ nested' = [nested EXCEPT ![t] = Below(t, a) \o Tail(nested[t])]
         \/ /\ errors' = errors \cup {a} /\ nested' = [nested EXCEPT ![t] = Tail(nested[t])]
            /\ objects' = objects
      /\ faults' \in {faults, faults - 1} /\ (faults' = faults \/ faults > 0)
      /\ UNCHANGED <<pc, status, queue, reading, acting>>
  BY <1>2 DEF DiscoverNested, Spend, Keep
<1>4. nested[t] \in Seq(Nested) /\ a \in Nested /\ Tail(nested[t]) \in Seq(Nested)
  BY <1>2, <1>3, Rest DEF Base, RunTyped
<1>5. Below(t, a) \in Seq(Nested)
  BY <1>4, BelowTyped
<1>6. Below(t, a) \o Tail(nested[t]) \in Seq(Nested)
  BY <1>4, <1>5, Joined
<1>7. DOMAIN nested' = DOMAIN nested /\ \A q \in DOMAIN nested' : nested'[q] \in Seq(Nested)
  BY <1>3, <1>4, <1>6 DEF Base, RunTyped
<1>8. objects' \subseteq Chosen /\ errors' \subseteq Path /\ objects \subseteq objects'
  BY <1>3, <1>4, FindsChosen DEF Base, RunTyped, Nested
<1>9. faults' \in Nat /\ faults' <= asked.faults
  BY <1>3, AskedTyped DEF Base, RunTyped
<1>10. RunTyped'
  BY <1>1, <1>3, <1>7, <1>8, <1>9, AskedStays DEF Base, RunTyped, reading, acting
<1>11. Reads'
  BY <1>1, <1>3, <1>8 DEF Base, Reads, reading, acting, Tells
<1>12. QED BY <1>1, <1>10, <1>11, DbQuiet DEF Base

LEMMA BeginReadingBase ==
  ASSUME Base, BeginReading
  PROVE  Base'
<1>1. asked' = asked /\ UNCHANGED <<scheme, hive>>
  BY DEF BeginReading, Quiet
<1>2. RunTyped'
  BY <1>1, AskedStays DEF Base, RunTyped, BeginReading, Keep, finding, acting
<1>3. Reads'
  BY <1>1 DEF Base, Reads, BeginReading, finding, acting, Tells
<1>4. QED BY <1>1, <1>2, <1>3, DbQuiet DEF Base

\* Nothing more can be said of the tablets of p later.
LEMMA TellsStays ==
  ASSUME Reads, \A t \in Tablet : hive[t] = "gone" => hive'[t] = "gone",
         UNCHANGED <<collected, objects, walk, cache, act>>
  PROVE  Reads'
<1>1. ASSUME NEW found, NEW p \in Path, Tells(found, p)
      PROVE  found = {} \/ \A t \in ShardsOf[p] \ found : hive'[t] = "gone"
  BY <1>1, ShardsAreTablets DEF Tells
<1>2. QED BY <1>1 DEF Reads, Tells

(***************************************************************************)
(* The pool that reads                                                     *)
(***************************************************************************)
\* The tablets of an operation are those of its path.
LEMMA BackupTells ==
  ASSUME Db, NEW p \in Path, NEW q \in op[p].refs
  PROVE  q \in Path /\ Tells(Backup(op[p]), q)
<1>1. op[p].refs \subseteq Path /\ IsFiniteSet(op[p].refs)
  BY SomePathsFinite DEF Db, DbTyped
<1>2. p \in op[p].refs /\ here[p] = "dropping"
  BY NoOpTyped DEF Db, DbTyped, DbTrue
<1>3. CASE Cardinality(op[p].refs) = 1
  <2>1. PICK x : op[p].refs = {x}
    BY <1>1, <1>3, FS_Singleton
  <2>2. q = p
    BY <1>2, <2>1
  <2>3. Backup(op[p]) = op[p].left
    BY <1>3 DEF Backup
  <2>4. QED BY <1>2, <2>2, <2>3 DEF Tells, Db, DbTrue
<1>4. CASE Cardinality(op[p].refs) # 1
  BY <1>1, <1>4 DEF Backup, Tells
<1>5. QED BY <1>3, <1>4

LEMMA ShardsTell ==
  ASSUME Db, NEW p \in Path
  PROVE  /\ Tells(shards[p], p)
         /\ here[p] = "yes" => shards[p] = ShardsOf[p]
BY DEF Db, DbTyped, DbTrue, Tells

LEMMA UnionTells ==
  ASSUME NEW p, NEW S, \A s \in S : Tells(s.backup, p)
  PROVE  Tells(UNION {s.backup : s \in S}, p)
BY DEF Tells

\* What the pool may change without harm.
LEMMA PoolBase ==
  ASSUME Base, Reading,
         task' \in [objects -> {"todo", "hidden", "done"}], errors' \subseteq Path,
         faults' \in Nat, faults' <= faults,
         collected' \subseteq {x \in Path \X Tablet : x[1] \in objects /\ x[2] \in ShardsOf[x[1]]},
         collected \subseteq collected',
         walk' = [by |-> walk'.by, txs |-> walk'.txs, slots |-> walk'.slots, map |-> walk'.map],
         walk'.by \subseteq objects, walk'.txs \subseteq Path,
         \A s \in walk'.slots : s.path \in Path /\ Tells(s.backup, s.path),
         \A p \in DOMAIN walk'.map : p \in Path /\ Tells(walk'.map[p], p),
         \A p \in DOMAIN cache'.map : p \in Path /\ Tells(cache'.map[p], p)
  PROVE  Base'
<1>1. /\ asked' = asked /\ UNCHANGED <<scheme, hive>> /\ pc = "read"
      /\ UNCHANGED <<pc, status, queue, objects, nested, acting>>
  BY DEF Reading, Quiet
<1>2. faults' <= asked.faults
  BY AskedTyped DEF Base, RunTyped
<1>3. RunTyped'
  BY <1>1, <1>2, AskedStays DEF Base, RunTyped, acting
<1>4. Reads'
  BY <1>1 DEF Base, Reads, acting, Tells
<1>5. QED BY <1>1, <1>3, <1>4, DbQuiet DEF Base

LEMMA FinishedBase ==
  ASSUME Base, Reading, NEW p \in objects, NEW found, Tells(found, p), Finished(p, found)
  PROVE  /\ task' \in [objects -> {"todo", "hidden", "done"}] /\ p \in Path
         /\ collected' \subseteq {x \in Path \X Tablet : x[1] \in objects /\ x[2] \in ShardsOf[x[1]]}
         /\ collected \subseteq collected' /\ \A t \in found : <<p, t>> \in collected'
         /\ \A q \in objects : task'[q] = IF q = p THEN "done" ELSE task[q]
<1>1. p \in Path /\ found \subseteq ShardsOf[p] /\ task \in [objects -> {"todo", "hidden", "done"}]
  BY DEF Base, RunTyped, Chosen, Reading, Tells
<1>2. QED BY <1>1, ShardsAreTablets DEF Finished, Base, Reads

LEMMA FallbackBase ==
  ASSUME Base, Reading, NEW p \in objects, NEW map,
         \A q \in DOMAIN map : q \in Path /\ Tells(map[q], q), Fallback(p, map)
  PROVE  /\ \E found : /\ Finished(p, found) /\ Tells(found, p)
                       /\ errors' = IF found = {} THEN errors \cup {p} ELSE errors
         /\ task' \in [objects -> {"todo", "hidden", "done"}] /\ errors' \subseteq Path
         /\ collected' \subseteq {x \in Path \X Tablet : x[1] \in objects /\ x[2] \in ShardsOf[x[1]]}
         /\ collected \subseteq collected'
<1>1. PICK found : found = IF p \in DOMAIN map THEN map[p] ELSE {}
  OBVIOUS
<1>2. Tells(found, p)
  BY <1>1 DEF Tells
<1>3. Finished(p, found) /\ errors' = IF found = {} THEN errors \cup {p} ELSE errors
  BY <1>1 DEF Fallback
<1>4. QED BY <1>2, <1>3, FinishedBase DEF Base, RunTyped

LEMMA NothingTells == \A p : Tells({}, p)
BY DEF Tells

LEMMA DescribeBase ==
  ASSUME Base, NEW p \in objects, Describe(p)
  PROVE  Base'
<1>1. Reading /\ UNCHANGED <<walk, cache>> /\ p \in Path
      /\ task \in [objects -> {"todo", "hidden", "done"}]
  BY DEF Describe, Reading, Base, RunTyped, Chosen
<1>2. CASE Finished(p, shards[p]) /\ Keep /\ errors' = errors
  <2>1. Tells(shards[p], p)
    BY <1>1, ShardsTell DEF Base
  <2>2. QED BY <1>1, <1>2, <2>1, FinishedBase, PoolBase DEF Base, RunTyped, Reads, Keep
<1>3. CASE Finished(p, {}) /\ Spend /\ errors' = errors \cup {p}
  <2>1. faults' \in Nat /\ faults' <= faults
    BY <1>3 DEF Spend, Base, RunTyped
  <2>2. QED BY <1>1, <1>3, <2>1, NothingTells, FinishedBase, PoolBase DEF Base, RunTyped, Reads
<1>4. CASE task' = [task EXCEPT ![p] = "hidden"] /\ Keep /\ UNCHANGED <<collected, errors>>
  BY <1>1, <1>4, PoolBase DEF Base, RunTyped, Reads, Keep
<1>5. QED BY <1>2, <1>3, <1>4 DEF Describe

LEMMA UseCacheBase ==
  ASSUME Base, NEW p \in objects, UseCache(p)
  PROVE  Base'
<1>1. Reading /\ UNCHANGED <<walk, cache>> /\ p \in Path /\ Keep
  BY DEF UseCache, Base, RunTyped, Chosen
<1>2. CASE Finished(p, {}) /\ errors' = errors \cup {p}
  BY <1>1, <1>2, NothingTells, FinishedBase, PoolBase DEF Base, RunTyped, Reads, Keep
<1>3. CASE Fallback(p, cache.map)
  <2>1. \A q \in DOMAIN cache.map : q \in Path /\ Tells(cache.map[q], q)
    BY DEF Base, Reads
  <2>2. QED BY <1>1, <1>3, <2>1, FallbackBase, PoolBase DEF Base, RunTyped, Reads, Keep
<1>4. QED BY <1>2, <1>3 DEF UseCache

LEMMA BeginWalkBase ==
  ASSUME Base, NEW p \in objects, BeginWalk(p)
  PROVE  Base'
<1>1. PICK w : w = [by |-> {p}, txs |-> InFlight, slots |-> {}, map |-> None]
  OBVIOUS
<1>2. Reading /\ walk' = w /\ UNCHANGED <<task, collected, cache, errors>> /\ Keep
  BY <1>1 DEF BeginWalk
<1>3. /\ w = [by |-> w.by, txs |-> w.txs, slots |-> w.slots, map |-> w.map]
      /\ w.by = {p} /\ w.txs = InFlight /\ w.slots = {} /\ w.map = None
  BY <1>1
<1>4. InFlight \subseteq Path /\ DOMAIN None = {}
  BY DEF InFlight, None
<1>5. task \in [objects -> {"todo", "hidden", "done"}]
  BY <1>2 DEF Reading, Base, RunTyped
<1>6. QED BY <1>2, <1>3, <1>4, <1>5, PoolBase DEF Base, RunTyped, Reads, Keep

LEMMA WalkFailsBase ==
  ASSUME Base, WalkFails
  PROVE  Base'
<1>1. PICK p \in walk.by : Finished(p, {}) /\ errors' = errors \cup {p}
  BY DEF WalkFails
<1>2. p \in objects /\ p \in Path
  BY DEF Base, Reads, RunTyped, Chosen
<1>3. Reading /\ Spend /\ walk' = NoWalk /\ cache' = [error |-> TRUE, map |-> None, filled |-> TRUE]
  BY DEF WalkFails
<1>4. /\ NoWalk = [by |-> NoWalk.by, txs |-> NoWalk.txs, slots |-> NoWalk.slots, map |-> NoWalk.map]
      /\ NoWalk.by = {} /\ NoWalk.txs = {} /\ NoWalk.slots = {} /\ DOMAIN NoWalk.map = {}
  BY DEF NoWalk
<1>5. cache'.map = None /\ DOMAIN None = {}
  BY <1>3 DEF None
<1>6. faults' \in Nat /\ faults' <= faults
  BY <1>3 DEF Spend, Base, RunTyped
<1>7. QED
  BY <1>1, <1>2, <1>3, <1>4, <1>5, <1>6, NothingTells, FinishedBase, PoolBase DEF Base, RunTyped

LEMMA ReadTxBase ==
  ASSUME Base, NEW p \in Path, ReadTx(p)
  PROVE  Base'
<1>1. PICK more : more = {[path |-> q, tx |-> p, backup |-> Backup(op[p])] : q \in op[p].refs}
  OBVIOUS
<1>2. /\ Reading /\ walk' = [walk EXCEPT !.txs = @ \ {p}, !.slots = @ \cup more]
      /\ Keep /\ UNCHANGED <<task, collected, cache, errors>>
  BY <1>1 DEF ReadTx
<1>3. \A s \in more : s.path \in Path /\ Tells(s.backup, s.path)
  BY <1>1, BackupTells DEF Base
<1>4. walk' = [by |-> walk.by, txs |-> walk.txs \ {p}, slots |-> walk.slots \cup more, map |-> walk.map]
  <2>1. walk = [by |-> walk.by, txs |-> walk.txs, slots |-> walk.slots, map |-> walk.map]
    BY DEF Base, Reads
  <2>2. QED BY <1>2, <2>1
<1>5. /\ walk'.by = walk.by /\ walk'.txs = walk.txs \ {p} /\ walk'.slots = walk.slots \cup more
      /\ walk'.map = walk.map
      /\ walk' = [by |-> walk'.by, txs |-> walk'.txs, slots |-> walk'.slots, map |-> walk'.map]
  BY <1>4
<1>6. task \in [objects -> {"todo", "hidden", "done"}]
  BY <1>2 DEF Reading, Base, RunTyped
<1>7. QED BY <1>2, <1>3, <1>5, <1>6, PoolBase DEF Base, RunTyped, Reads, Keep

LEMMA ReadPathBase ==
  ASSUME Base, NEW p \in Path, ReadPath(p)
  PROVE  Base'
<1>1. PICK mine : mine = {s \in walk.slots : s.path = p}
  OBVIOUS
<1>2. PICK backups : backups = {s \in mine : s.backup # {}}
  OBVIOUS
<1>3. PICK found : found = IF shards[p] # {} THEN shards[p]
                           ELSE IF Cardinality(mine) = 1 THEN UNION {s.backup : s \in backups} ELSE {}
  OBVIOUS
<1>4. /\ Reading
      /\ walk' = [walk EXCEPT !.slots = @ \ mine,
                   !.map = [q \in DOMAIN @ \cup {p} |-> IF q = p THEN found ELSE @[q]]]
      /\ Keep /\ UNCHANGED <<task, collected, cache, errors>>
  BY <1>1, <1>2, <1>3 DEF ReadPath
<1>5. \A s \in backups : Tells(s.backup, p)
  BY <1>1, <1>2 DEF Base, Reads
<1>6. Tells(UNION {s.backup : s \in backups}, p)
  BY <1>5, UnionTells
<1>7. Tells(found, p)
  BY <1>3, <1>6, ShardsTell, NothingTells DEF Base
<1>8. PICK m : m = [q \in DOMAIN walk.map \cup {p} |-> IF q = p THEN found ELSE walk.map[q]]
  OBVIOUS
<1>9. walk' = [by |-> walk.by, txs |-> walk.txs, slots |-> walk.slots \ mine, map |-> m]
  <2>1. walk = [by |-> walk.by, txs |-> walk.txs, slots |-> walk.slots, map |-> walk.map]
    BY DEF Base, Reads
  <2>2. QED BY <1>4, <1>8, <2>1
<1>10. /\ walk'.by = walk.by /\ walk'.txs = walk.txs /\ walk'.slots = walk.slots \ mine
       /\ walk'.map = m
       /\ walk' = [by |-> walk'.by, txs |-> walk'.txs, slots |-> walk'.slots, map |-> walk'.map]
  BY <1>9
<1>11. \A q \in DOMAIN m : q \in Path /\ Tells(m[q], q)
  BY <1>7, <1>8 DEF Base, Reads
<1>12. task \in [objects -> {"todo", "hidden", "done"}]
  BY <1>4 DEF Reading, Base, RunTyped
<1>13. \A s \in walk'.slots : s.path \in Path /\ Tells(s.backup, s.path)
  BY <1>10 DEF Base, Reads
<1>14. /\ walk'.by \subseteq objects /\ walk'.txs \subseteq Path
       /\ \A q \in DOMAIN walk'.map : q \in Path /\ Tells(walk'.map[q], q)
  BY <1>10, <1>11 DEF Base, Reads
<1>15. /\ Reading /\ errors' \subseteq Path /\ faults' \in Nat /\ faults' <= faults
       /\ UNCHANGED <<task, collected, cache>>
  BY <1>4 DEF Base, RunTyped, Keep
<1>16. QED BY <1>10, <1>12, <1>13, <1>14, <1>15, PoolBase DEF Base, Reads

LEMMA EndWalkBase ==
  ASSUME Base, EndWalk
  PROVE  Base'
<1>1. PICK p \in walk.by : Fallback(p, walk.map)
  BY DEF EndWalk
<1>2. /\ Reading /\ walk' = NoWalk /\ Keep
      /\ cache' = [error |-> FALSE, map |-> walk.map, filled |-> TRUE]
  BY DEF EndWalk
<1>3. p \in objects /\ \A q \in DOMAIN walk.map : q \in Path /\ Tells(walk.map[q], q)
  BY DEF Base, Reads
<1>4. /\ NoWalk = [by |-> NoWalk.by, txs |-> NoWalk.txs, slots |-> NoWalk.slots, map |-> NoWalk.map]
      /\ NoWalk.by = {} /\ NoWalk.txs = {} /\ NoWalk.slots = {} /\ DOMAIN NoWalk.map = {}
  BY DEF NoWalk
<1>5. cache'.map = walk.map
  BY <1>2
<1>6. QED BY <1>1, <1>2, <1>3, <1>4, <1>5, FallbackBase, PoolBase DEF Base, RunTyped, Keep

LEMMA ReadStepBase ==
  ASSUME Base, ReadStep
  PROVE  Base'
BY DescribeBase, UseCacheBase, BeginWalkBase, WalkFailsBase, ReadTxBase, ReadPathBase, EndWalkBase
   DEF ReadStep

(***************************************************************************)
(* The pool that asks Hive, and the rest                                   *)
(***************************************************************************)
ActType == [state : {"todo", "sent", "ok", "error", "refused"}, tries : Nat]

LEMMA BeginActingBase ==
  ASSUME Base, BeginActing
  PROVE  Base'
<1>1. /\ asked' = asked /\ UNCHANGED <<scheme, hive>> /\ pc = "read" /\ pc' \in {"act", "exit"}
      /\ Keep /\ UNCHANGED <<finding, reading, accepted>>
  BY DEF BeginActing, Quiet
<1>2. /\ DOMAIN act' \subseteq collected
      /\ \A x \in DOMAIN act' : act'[x] \in ActType
  <2>1. CASE opt.dry
    BY <2>1 DEF BeginActing, Base, RunTyped, Reads, ActType
  <2>2. CASE ~opt.dry
    <3>1. act' = [x \in Dedupe(collected) |-> [state |-> "todo", tries |-> 0]]
      BY <2>2 DEF BeginActing
    <3>2. [state |-> "todo", tries |-> 0] \in ActType
      BY DEF ActType
    <3>3. QED BY <3>1, <3>2, DedupeApart
  <2>3. QED BY <2>1, <2>2
<1>3. RunTyped'
  BY <1>1, <1>2, AskedStays DEF Base, RunTyped, finding, reading, ActType, Keep
<1>4. Reads'
  BY <1>1, <1>2 DEF Base, Reads, finding, reading, Tells
<1>5. QED BY <1>1, <1>3, <1>4, DbQuiet DEF Base

\* What is done to one target.
LEMMA ActBase ==
  ASSUME Base, pc = "act", asked' = asked,
         UNCHANGED <<pc, queue, objects, nested, errors, task, collected, walk, cache>>,
         Db', \A t \in Tablet : hive[t] = "gone" => hive'[t] = "gone",
         DOMAIN act' = DOMAIN act, \A x \in DOMAIN act : act'[x] \in ActType,
         accepted' \subseteq Tablet, faults' \in Nat, faults' <= faults
  PROVE  Base'
<1>1. faults' <= asked.faults
  BY AskedTyped DEF Base, RunTyped
<1>2. RunTyped'
  BY <1>1, AskedStays DEF Base, RunTyped, ActType
<1>3. Reads'
  <2>1. ASSUME NEW found, NEW p \in Path, Tells(found, p)
        PROVE  found = {} \/ \A t \in ShardsOf[p] \ found : hive'[t] = "gone"
    BY <2>1, ShardsAreTablets DEF Tells
  <2>2. QED BY <2>1 DEF Base, Reads, Tells
<1>4. QED BY <1>2, <1>3 DEF Base

LEMMA TargetTyped ==
  ASSUME Base, NEW x \in DOMAIN act
  PROVE  /\ x[2] \in Tablet /\ act[x] \in ActType
         /\ x \in collected /\ x[1] \in objects /\ x[1] \in Path /\ x[2] \in ShardsOf[x[1]]
BY DEF Base, RunTyped, Reads, ActType

LEMMA PostBase ==
  ASSUME Base, NEW x \in DOMAIN act, Post(x)
  PROVE  Base'
<1>1. act' = [act EXCEPT ![x].state = "sent"]
  BY DEF Post
<1>2. DOMAIN act' = DOMAIN act /\ \A y \in DOMAIN act : act'[y] \in ActType
  BY <1>1, TargetTyped DEF ActType
<1>3. /\ pc = "act" /\ asked' = asked /\ UNCHANGED <<scheme, hive>> /\ Keep
      /\ UNCHANGED <<pc, status, finding, reading, accepted>>
  BY DEF Post, Quiet
<1>4. QED
  BY <1>2, <1>3, ActBase, DbQuiet DEF Base, RunTyped, Keep, finding, reading

LEMMA AfterTyped ==
  ASSUME Base, NEW x \in DOMAIN act, NEW reply \in {"ok", "error", "refused", "retry"}, After(x, reply)
  PROVE  /\ DOMAIN act' = DOMAIN act /\ \A y \in DOMAIN act : act'[y] \in ActType
         /\ \A y \in DOMAIN act : y # x => act'[y] = act[y]
         /\ act'[x].tries = act[x].tries + 1
         /\ act'[x].state = IF reply # "retry" THEN reply
                            ELSE IF act[x].tries + 1 < opt.retries THEN "todo" ELSE "error"
<1>1. PICK state : state = IF reply # "retry" THEN reply
                           ELSE IF act[x].tries + 1 < opt.retries THEN "todo" ELSE "error"
  OBVIOUS
<1>2. act' = [act EXCEPT ![x] = [state |-> state, tries |-> act[x].tries + 1]]
  BY <1>1 DEF After
<1>3. state \in {"todo", "sent", "ok", "error", "refused"} /\ act[x].tries \in Nat
  BY <1>1, TargetTyped DEF ActType
<1>4. QED BY <1>1, <1>2, <1>3, TargetTyped DEF ActType

LEMMA ReplyBase ==
  ASSUME Base, NEW x \in DOMAIN act, Reply(x)
  PROVE  Base'
<1>1. /\ pc = "act" /\ After(x, Answered(x[2])) /\ faults' = faults /\ PostQuiet
  BY DEF Reply
<1>2. Answered(x[2]) \in {"ok", "error", "retry"}
  BY DEF Answered
<1>3. DOMAIN act' = DOMAIN act /\ \A y \in DOMAIN act : act'[y] \in ActType
  BY <1>1, <1>2, AfterTyped
<1>4. Db' /\ (\A t \in Tablet : hive[t] = "gone" => hive'[t] = "gone") /\ accepted' \subseteq Tablet
  <2>1. CASE Done(x[2]) /\ accepted' = accepted
    BY <1>1, <2>1, DbDone, AskedTyped DEF Base, RunTyped, PostQuiet
  <2>2. CASE hive' = hive /\ accepted' = accepted \cup {x[2]}
    BY <1>1, <2>2, DbQuiet, TargetTyped DEF Base, RunTyped, PostQuiet
  <2>3. QED BY <2>1, <2>2 DEF Reply
<1>5. QED BY <1>1, <1>3, <1>4, ActBase DEF Base, RunTyped, PostQuiet, finding, reading

LEMMA RefuseBase ==
  ASSUME Base, NEW x \in DOMAIN act, Refuse(x)
  PROVE  Base'
<1>1. /\ pc = "act" /\ After(x, "refused") /\ UNCHANGED <<hive, accepted, faults>> /\ PostQuiet
  BY DEF Refuse
<1>2. DOMAIN act' = DOMAIN act /\ \A y \in DOMAIN act : act'[y] \in ActType
  BY <1>1, AfterTyped
<1>3. Db' /\ \A t \in Tablet : hive[t] = "gone" => hive'[t] = "gone"
  BY <1>1, DbQuiet DEF Base, PostQuiet
<1>4. faults' \in Nat /\ faults' <= faults
  BY <1>1 DEF Base, RunTyped
<1>5. QED BY <1>1, <1>2, <1>3, <1>4, ActBase DEF Base, RunTyped, PostQuiet, finding, reading

LEMMA NoReplyBase ==
  ASSUME Base, NEW x \in DOMAIN act, NoReply(x)
  PROVE  Base'
<1>1. /\ pc = "act" /\ After(x, "retry") /\ faults > 0 /\ faults' = faults - 1 /\ PostQuiet
      /\ accepted' = accepted /\ (hive' = hive \/ Done(x[2]))
  BY DEF NoReply
<1>2. DOMAIN act' = DOMAIN act /\ \A y \in DOMAIN act : act'[y] \in ActType
  BY <1>1, AfterTyped
<1>3. Db' /\ \A t \in Tablet : hive[t] = "gone" => hive'[t] = "gone"
  BY <1>1, DbDone, DbQuiet, AskedTyped DEF Base, RunTyped, PostQuiet
<1>4. faults' \in Nat /\ faults' <= faults
  BY <1>1 DEF Base, RunTyped
<1>5. QED BY <1>1, <1>2, <1>3, <1>4, ActBase DEF Base, RunTyped, PostQuiet, finding, reading

\* What happens to the database while a run goes on or after it.
LEMMA MeanwhileBase ==
  ASSUME Base, Db', \A t \in Tablet : hive[t] = "gone" => hive'[t] = "gone", asked' = asked,
         UNCHANGED <<pc, queue, objects, nested, errors, task, collected, walk, cache, act, faults>>,
         accepted' \subseteq accepted
  PROVE  Base'
<1>1. RunTyped'
  BY AskedStays DEF Base, RunTyped
<1>2. Reads'
  BY TellsStays DEF Base
<1>3. QED BY <1>1, <1>2 DEF Base

LEMMA HiveDoesBase ==
  ASSUME Base, NEW t \in accepted, HiveDoes(t)
  PROVE  Base'
<1>1. /\ Done(t) /\ accepted' = accepted \ {t} /\ UNCHANGED <<scheme, asked>>
      /\ UNCHANGED <<pc, status, finding, reading, act, faults>>
  BY DEF HiveDoes
<1>2. QED
  BY <1>1, DbDone, AskedTyped, MeanwhileBase DEF Base, RunTyped, finding, reading

LEMMA SurroundingsBase ==
  ASSUME Base, Surroundings
  PROVE  Base'
<1>1. SchemeStep /\ UNCHANGED <<run, faults>>
  BY DEF Surroundings
<1>2. Db' /\ Settles
  BY <1>1, DbSchemeStep DEF Base
<1>3. \A t \in Tablet : hive[t] = "gone" => hive'[t] = "gone"
  BY <1>2 DEF Settles
<1>4. QED BY <1>1, <1>2, <1>3, MeanwhileBase DEF run, finding, reading, acting

LEMMA ExitBase ==
  ASSUME Base, Exit
  PROVE  Base'
<1>1. /\ asked' = asked /\ UNCHANGED <<scheme, hive>> /\ pc = "act" /\ pc' = "exit"
      /\ Keep /\ UNCHANGED <<finding, reading, acting>>
  BY DEF Exit, Quiet
<1>2. RunTyped'
  BY <1>1, AskedStays DEF Base, RunTyped, finding, reading, acting, Keep
<1>3. Reads'
  BY <1>1 DEF Base, Reads, finding, reading, acting, Tells
<1>4. QED BY <1>1, <1>2, <1>3, DbQuiet DEF Base

LEMMA StutterBase ==
  ASSUME Base, UNCHANGED vars
  PROVE  Base'
BY DbQuiet, AskedStays DEF vars, run, finding, reading, acting, Base, RunTyped, Reads, Tells

LEMMA BaseInit == Init => Base
<1>1. SUFFICES ASSUME Init PROVE Base
  OBVIOUS
<1>2. PICK c \in Cases : asked = c /\ faults = c.faults /\ SchemeInit(c.here, c.changes)
  BY <1>1 DEF Init
<1>3. RunTyped
  <2>1. DOMAIN None = {} /\ << >> \in Seq(Directories) /\ faults \in Nat /\ faults = asked.faults
    BY <1>2, AskedTyped DEF None
  <2>2. QED BY <1>1, <1>2, <2>1 DEF Init, RunTyped
<1>4. Reads
  <2>1. /\ NoWalk = [by |-> NoWalk.by, txs |-> NoWalk.txs, slots |-> NoWalk.slots, map |-> NoWalk.map]
        /\ NoWalk.by = {} /\ NoWalk.txs = {} /\ NoWalk.slots = {} /\ DOMAIN NoWalk.map = {}
        /\ DOMAIN NoCache.map = {} /\ DOMAIN None = {}
    BY DEF NoWalk, NoCache, None
  <2>2. QED BY <1>1, <2>1 DEF Init, Reads
<1>5. QED BY <1>1, <1>3, <1>4, DbInit DEF Base

LEMMA BaseStep ==
  ASSUME Base, [Next]_vars
  PROVE  Base'
<1>1. CASE ResolveHive \/ ResolveStartPath \/ ListDirectory \/ \E p \in DOMAIN nested : DiscoverNested(p)
  BY <1>1, ResolveHiveBase, ResolveStartPathBase, ListDirectoryBase, DiscoverNestedBase
<1>2. CASE BeginReading \/ ReadStep \/ BeginActing
  BY <1>2, BeginReadingBase, ReadStepBase, BeginActingBase
<1>3. CASE Exit \/ \E x \in DOMAIN act : Post(x) \/ Reply(x) \/ Refuse(x) \/ NoReply(x)
  BY <1>3, PostBase, ReplyBase, RefuseBase, NoReplyBase, ExitBase
<1>4. CASE Surroundings \/ (\E t \in accepted : HiveDoes(t)) \/ UNCHANGED vars
  BY <1>4, SurroundingsBase, HiveDoesBase, StutterBase
<1>5. QED BY <1>1, <1>2, <1>3, <1>4 DEF Next, Step, Over

\* Whatever pages are read and whatever fails, Hive is asked only about tablets
\* of objects of a wanted kind under the prefix.
THEOREM SelectedOnly == Spec => []OnlySelected
<1>1. Base => OnlySelected
  BY TargetTyped DEF OnlySelected, Base, RunTyped, Chosen
<1>2. QED BY BaseInit, BaseStep, <1>1, PTL DEF Spec

(***************************************************************************)
(* A run does not complain without a reason                                *)
(***************************************************************************)
LEMMA LostGrows ==
  ASSUME Base, asked' = asked, faults' \in Nat, faults' <= faults
  PROVE  Lost \in Nat /\ Lost' \in Nat /\ Lost <= Lost' /\ Lost' = Lost + (faults - faults')
BY AskedTyped DEF Base, RunTyped, Lost

LEMMA AttemptsStay ==
  ASSUME Base, Attempts, asked' = asked, faults' \in Nat, faults' <= faults, act' = act,
         \A t \in Tablet : hive[t] = "gone" => hive'[t] = "gone"
  PROVE  Attempts'
<1>1. ASSUME NEW x \in DOMAIN act
      PROVE  /\ act[x].tries \in Nat /\ x[2] \in Tablet /\ opt.retries \in Nat
             /\ act[x].state \in {"todo", "sent"} => act[x].tries <= Lost
             /\ act[x].state = "error" => hive[x[2]] = "gone" \/ Lost >= opt.retries
  BY <1>1, TargetTyped, AskedTyped DEF ActType, Attempts, Base, RunTyped
<1>2. Lost \in Nat /\ Lost' \in Nat /\ Lost <= Lost' /\ opt' = opt
  BY LostGrows, AskedStays
<1>3. QED BY <1>1, <1>2 DEF Attempts

\* A request fails, or it does not.
LEMMA SpendOrKeep ==
  ASSUME Base, Spend \/ Keep
  PROVE  faults' \in Nat /\ faults' <= faults /\ (~readFailed' => ~readFailed)
BY DEF Spend, Keep, Base, RunTyped

LEMMA DiscoveryExcused ==
  ASSUME Base, Excused,
         ResolveHive \/ ResolveStartPath \/ ListDirectory \/ \E t \in DOMAIN nested : DiscoverNested(t)
  PROVE  Excused'
<1>1. /\ asked' = asked /\ UNCHANGED <<scheme, hive, untouched>>
      /\ UNCHANGED <<reading, acting>> /\ pc \in {"hive", "start", "walk"} /\ pc' # "read"
  BY DEF ResolveHive, ResolveStartPath, ListDirectory, DiscoverNested, Quiet
<1>2. Spend \/ Keep
  BY DEF ResolveHive, ResolveStartPath, ListDirectory, DiscoverNested
<1>3. ~readFailed' => \A a \in errors' : a \in errors \/ here[a] # "yes"
  BY DEF ResolveHive, ResolveStartPath, ListDirectory, DiscoverNested, Spend, Keep, Visible, finding
<1>4. /\ untouched' = untouched /\ here' = here /\ cache' = cache
      /\ faults' \in Nat /\ faults' <= faults /\ (~readFailed' => ~readFailed)
  BY <1>1, <1>2, SpendOrKeep DEF scheme, reading
<1>5. Watched'
  BY <1>1, <1>3, <1>4 DEF Excused, Watched
<1>6. Attempts'
  BY <1>1, <1>4, AttemptsStay DEF Excused, acting
<1>7. QED BY <1>5, <1>6 DEF Excused

LEMMA BeginReadingExcused ==
  ASSUME Base, Excused, BeginReading
  PROVE  Excused'
<1>1. /\ asked' = asked /\ UNCHANGED <<scheme, hive, untouched>> /\ Keep
      /\ UNCHANGED <<finding, collected, walk, cache, acting>> /\ walk = NoWalk
      /\ task' = [p \in objects |-> "todo"]
  BY DEF BeginReading, Quiet, Base, RunTyped
<1>2. Watched'
  BY <1>1 DEF Excused, Watched, Keep, finding, scheme
<1>3. Attempts'
  BY <1>1, AttemptsStay, SpendOrKeep DEF Excused, acting
<1>4. QED BY <1>2, <1>3 DEF Excused

\* A step of the pool: the path of one thread is looked at.
LEMMA PoolExcused ==
  ASSUME Base, Excused, Reading, Spend \/ Keep,
         ~readFailed' => /\ ~cache'.error
                         /\ \A a \in errors' : a \in errors \/ a \notin untouched,
         \A p \in objects : task'[p] = "hidden" => task[p] = "hidden" \/ here[p] # "yes",
         walk' # NoWalk => \A p \in walk'.by : task'[p] = "hidden"
  PROVE  Excused'
<1>1. /\ asked' = asked /\ UNCHANGED <<scheme, hive, untouched>> /\ pc = "read"
      /\ UNCHANGED <<pc, status, queue, objects, nested, acting>>
  BY DEF Reading, Quiet
<1>2. Watched'
  BY <1>1, SpendOrKeep DEF Excused, Watched, scheme
<1>3. Attempts'
  BY <1>1, AttemptsStay, SpendOrKeep DEF Excused, acting
<1>4. QED BY <1>2, <1>3 DEF Excused

LEMMA FinishedTask ==
  ASSUME Base, Reading, NEW p \in objects, NEW found, Finished(p, found)
  PROVE  \A q \in objects : task'[q] = IF q = p THEN "done" ELSE task[q]
BY DEF Finished, Base, RunTyped, Reading

LEMMA WalkerIsHidden ==
  ASSUME Base, Excused, Reading, walk # NoWalk, NEW p \in walk.by
  PROVE  p \in objects /\ task[p] = "hidden" /\ p \notin untouched
BY DEF Base, Reads, Excused, Watched, Reading

LEMMA FallbackErrors ==
  ASSUME NEW p, NEW map, Fallback(p, map)
  PROVE  (\E found : Finished(p, found)) /\ \A a \in errors' : a \in errors \/ a = p
BY DEF Fallback

LEMMA DescribeExcused ==
  ASSUME Base, Excused, NEW p \in objects, Describe(p)
  PROVE  Excused'
<1>1. Reading /\ UNCHANGED <<walk, cache>> /\ task[p] = "todo"
  BY DEF Describe
<1>2. walk # NoWalk => \A q \in walk.by : q \in objects /\ task[q] = "hidden" /\ q # p
  BY <1>1, WalkerIsHidden
<1>3. CASE Finished(p, shards[p]) /\ Keep /\ errors' = errors
  BY <1>1, <1>2, <1>3, FinishedTask, PoolExcused DEF Keep, Excused, Watched
<1>4. CASE Finished(p, {}) /\ Spend
  BY <1>1, <1>2, <1>4, FinishedTask, PoolExcused DEF Spend
<1>5. CASE /\ ~Visible(p) /\ task' = [task EXCEPT ![p] = "hidden"] /\ Keep
           /\ UNCHANGED <<collected, errors>>
  <2>1. \A q \in objects : task'[q] = IF q = p THEN "hidden" ELSE task[q]
    BY <1>1, <1>5 DEF Base, RunTyped, Reading
  <2>2. QED BY <1>1, <1>2, <1>5, <2>1, PoolExcused DEF Keep, Excused, Watched, Visible
<1>6. QED BY <1>3, <1>4, <1>5 DEF Describe

LEMMA UseCacheExcused ==
  ASSUME Base, Excused, NEW p \in objects, UseCache(p)
  PROVE  Excused'
<1>1. Reading /\ UNCHANGED <<walk, cache>> /\ Keep /\ walk = NoWalk /\ p \notin untouched
  BY DEF UseCache, Excused, Watched, Reading
<1>2. CASE cache.error /\ Finished(p, {})
  BY <1>1, <1>2, FinishedTask, PoolExcused DEF Keep, Excused, Watched
<1>3. CASE ~cache.error /\ Fallback(p, cache.map)
  <2>1. \A q \in objects : task'[q] = IF q = p THEN "done" ELSE task[q]
    BY <1>1, <1>3, FallbackErrors, FinishedTask
  <2>2. \A a \in errors' : a \in errors \/ a = p
    BY <1>3, FallbackErrors
  <2>3. QED BY <1>1, <1>3, <2>1, <2>2, PoolExcused DEF Keep
<1>4. QED BY <1>2, <1>3 DEF UseCache

LEMMA BeginWalkExcused ==
  ASSUME Base, Excused, NEW p \in objects, BeginWalk(p)
  PROVE  Excused'
<1>1. /\ Reading /\ UNCHANGED <<task, collected, cache, errors>> /\ Keep /\ task[p] = "hidden"
      /\ walk'.by = {p}
  BY DEF BeginWalk
<1>2. QED BY <1>1, PoolExcused DEF Keep, Excused, Watched

LEMMA WalkFailsExcused ==
  ASSUME Base, Excused, WalkFails
  PROVE  Excused'
<1>1. PICK p \in walk.by : Finished(p, {})
  BY DEF WalkFails
<1>2. Reading /\ Spend /\ walk' = NoWalk /\ walk # NoWalk
  BY DEF WalkFails
<1>3. p \in objects
  BY <1>2, WalkerIsHidden
<1>4. QED BY <1>1, <1>2, <1>3, FinishedTask, PoolExcused DEF Spend

LEMMA WalkExcused ==
  ASSUME Base, Excused, NEW p \in Path, ReadTx(p) \/ ReadPath(p)
  PROVE  Excused'
<1>1. /\ Reading /\ UNCHANGED <<task, collected, cache, errors>> /\ Keep
  BY DEF ReadTx, ReadPath
<1>2. walk = [by |-> walk.by, txs |-> walk.txs, slots |-> walk.slots, map |-> walk.map]
  BY DEF Base, Reads
<1>3. walk'.by = walk.by
  BY <1>2 DEF ReadTx, ReadPath
<1>4. walk # NoWalk
  <2>1. NoWalk.txs = {} /\ NoWalk.slots = {}
    BY DEF NoWalk
  <2>2. walk.txs # {} \/ walk.slots # {}
    BY DEF ReadTx, ReadPath
  <2>3. QED BY <2>1, <2>2
<1>5. QED BY <1>1, <1>3, <1>4, WalkerIsHidden, PoolExcused DEF Keep, Excused, Watched

LEMMA EndWalkExcused ==
  ASSUME Base, Excused, EndWalk
  PROVE  Excused'
<1>1. PICK p \in walk.by : Fallback(p, walk.map)
  BY DEF EndWalk
<1>2. Reading /\ walk' = NoWalk /\ Keep /\ ~cache'.error /\ walk # NoWalk
  BY DEF EndWalk
<1>3. p \in objects /\ p \notin untouched
  BY <1>2, WalkerIsHidden
<1>4. \A q \in objects : task'[q] = IF q = p THEN "done" ELSE task[q]
  BY <1>1, <1>2, <1>3, FallbackErrors, FinishedTask
<1>5. \A a \in errors' : a \in errors \/ a = p
  BY <1>1, FallbackErrors
<1>6. QED BY <1>2, <1>3, <1>4, <1>5, PoolExcused DEF Keep

LEMMA BeginActingExcused ==
  ASSUME Base, Excused, BeginActing
  PROVE  Excused'
<1>1. /\ asked' = asked /\ UNCHANGED <<scheme, hive, untouched>> /\ pc' # "read"
      /\ Keep /\ UNCHANGED <<finding, reading, accepted>>
  BY DEF BeginActing, Quiet
<1>2. Watched'
  BY <1>1 DEF Excused, Watched, Keep, finding, reading, scheme
<1>3. Attempts'
  <2>1. CASE opt.dry
    BY <1>1, <2>1, AttemptsStay, SpendOrKeep DEF BeginActing, Excused
  <2>2. CASE ~opt.dry
    <3>1. act' = [x \in Dedupe(collected) |-> [state |-> "todo", tries |-> 0]]
      BY <2>2 DEF BeginActing
    <3>2. Lost' \in Nat
      BY <1>1, SpendOrKeep, LostGrows
    <3>3. QED BY <3>1, <3>2 DEF Attempts
  <2>3. QED BY <2>1, <2>2
<1>4. QED BY <1>2, <1>3 DEF Excused

LEMMA WatchedWhileActing ==
  ASSUME Watched, pc = "act", UNCHANGED <<scheme, untouched, errors, cache, pc, readFailed>>
  PROVE  Watched'
BY DEF Watched, scheme

LEMMA PostExcused ==
  ASSUME Base, Excused, NEW x \in DOMAIN act, Post(x)
  PROVE  Excused'
<1>1. /\ asked' = asked /\ UNCHANGED <<scheme, hive, untouched>> /\ Keep /\ pc = "act"
      /\ UNCHANGED <<pc, status, finding, reading, accepted>>
      /\ act[x].state = "todo" /\ act' = [act EXCEPT ![x].state = "sent"]
  BY DEF Post, Quiet
<1>2. /\ DOMAIN act' = DOMAIN act /\ act'[x].state = "sent" /\ act'[x].tries = act[x].tries
      /\ \A y \in DOMAIN act : y # x => act'[y] = act[y]
  BY <1>1, TargetTyped DEF ActType
<1>3. Lost' = Lost /\ opt' = opt
  BY <1>1, AskedStays DEF Lost, Keep
<1>4. Attempts'
  BY <1>1, <1>2, <1>3 DEF Excused, Attempts
<1>5. QED BY <1>1, <1>4, WatchedWhileActing DEF Excused, finding, reading, Keep

LEMMA ReplyExcused ==
  ASSUME Base, Excused, NEW x \in DOMAIN act, Reply(x)
  PROVE  Excused'
<1>1. /\ pc = "act" /\ After(x, Answered(x[2])) /\ faults' = faults /\ PostQuiet
  BY DEF Reply
<1>2. Answered(x[2]) \in {"ok", "error"} /\ (Answered(x[2]) = "error" => hive[x[2]] = "gone")
  BY DEF Answered
<1>3. /\ DOMAIN act' = DOMAIN act /\ act'[x].state = Answered(x[2])
      /\ \A y \in DOMAIN act : y # x => act'[y] = act[y]
  BY <1>1, <1>2, AfterTyped
<1>4. \A t \in Tablet : hive[t] = "gone" => hive'[t] = "gone"
  BY <1>1, DbDone, AskedTyped DEF Reply, Base, RunTyped, PostQuiet
<1>5. Lost' = Lost /\ opt' = opt
  BY <1>1, AskedStays DEF Lost, PostQuiet
<1>6. \A y \in DOMAIN act : y[2] \in Tablet
  BY TargetTyped
<1>7. Attempts'
  BY <1>2, <1>3, <1>4, <1>5, <1>6 DEF Excused, Attempts
<1>8. QED BY <1>1, <1>7, WatchedWhileActing DEF Excused, finding, reading, PostQuiet

LEMMA RefuseExcused ==
  ASSUME Base, Excused, NEW x \in DOMAIN act, Refuse(x)
  PROVE  Excused'
<1>1. /\ pc = "act" /\ After(x, "refused") /\ UNCHANGED <<hive, accepted, faults>> /\ PostQuiet
  BY DEF Refuse
<1>2. /\ DOMAIN act' = DOMAIN act /\ act'[x].state = "refused"
      /\ \A y \in DOMAIN act : y # x => act'[y] = act[y]
  BY <1>1, AfterTyped
<1>3. Lost' = Lost /\ opt' = opt
  BY <1>1, AskedStays DEF Lost, PostQuiet
<1>4. Attempts'
  BY <1>1, <1>2, <1>3 DEF Excused, Attempts
<1>5. QED BY <1>1, <1>4, WatchedWhileActing DEF Excused, finding, reading, PostQuiet

LEMMA NoReplyExcused ==
  ASSUME Base, Excused, NEW x \in DOMAIN act, NoReply(x)
  PROVE  Excused'
<1>1. /\ pc = "act" /\ After(x, "retry") /\ faults > 0 /\ faults' = faults - 1 /\ PostQuiet
      /\ act[x].state = "sent" /\ (hive' = hive \/ Done(x[2]))
  BY DEF NoReply
<1>2. /\ DOMAIN act' = DOMAIN act /\ act'[x].tries = act[x].tries + 1
      /\ act'[x].state = IF act[x].tries + 1 < opt.retries THEN "todo" ELSE "error"
      /\ \A y \in DOMAIN act : y # x => act'[y] = act[y]
  BY <1>1, AfterTyped
<1>3. \A t \in Tablet : hive[t] = "gone" => hive'[t] = "gone"
  BY <1>1, DbDone, AskedTyped DEF Base, RunTyped, PostQuiet
<1>4. faults' \in Nat /\ faults' <= faults /\ faults - faults' = 1 /\ asked' = asked
  BY <1>1 DEF Base, RunTyped, PostQuiet
<1>5. Lost \in Nat /\ Lost' = Lost + 1 /\ opt' = opt
  BY <1>4, LostGrows, AskedStays
<1>6. /\ opt.retries \in Nat
      /\ \A y \in DOMAIN act : y[2] \in Tablet /\ act[y].tries \in Nat
  BY TargetTyped, AskedTyped DEF ActType, Base, RunTyped
<1>7. act[x].tries <= Lost
  BY <1>1 DEF Excused, Attempts
<1>8. ASSUME NEW y \in DOMAIN act
      PROVE  /\ act'[y].state \in {"todo", "sent"} => act'[y].tries <= Lost'
             /\ act'[y].state = "error" => hive'[y[2]] = "gone" \/ Lost' >= opt.retries
  <2>1. CASE y = x
    BY <1>2, <1>5, <1>6, <1>7, <2>1
  <2>2. CASE y # x
    BY <1>2, <1>3, <1>5, <1>6, <2>2 DEF Excused, Attempts
  <2>3. QED BY <2>1, <2>2
<1>9. Attempts'
  BY <1>2, <1>5, <1>8 DEF Attempts
<1>10. QED BY <1>1, <1>9, WatchedWhileActing DEF Excused, finding, reading, PostQuiet

LEMMA HiveDoesExcused ==
  ASSUME Base, Excused, NEW t \in accepted, HiveDoes(t)
  PROVE  Excused'
<1>1. /\ Done(t) /\ UNCHANGED <<scheme, untouched, asked>>
      /\ UNCHANGED <<pc, status, finding, reading, readFailed, act, faults>>
  BY DEF HiveDoes
<1>2. \A u \in Tablet : hive[u] = "gone" => hive'[u] = "gone"
  BY <1>1, DbDone, AskedTyped DEF Base, RunTyped
<1>3. Watched'
  BY <1>1 DEF Excused, Watched, finding, reading, scheme
<1>4. Attempts'
  BY <1>1, <1>2, AttemptsStay DEF Excused, Base, RunTyped
<1>5. QED BY <1>3, <1>4 DEF Excused

LEMMA SurroundingsExcused ==
  ASSUME Base, Excused, Surroundings
  PROVE  Excused'
<1>1. /\ SchemeStep /\ UNCHANGED <<run, faults>>
      /\ untouched' = {p \in untouched : here'[p] = "yes"}
  BY DEF Surroundings
<1>2. \A t \in Tablet : hive[t] = "gone" => hive'[t] = "gone"
  BY <1>1, DbSchemeStep DEF Base, Settles
<1>3. Watched'
  BY <1>1 DEF Excused, Watched, run, finding, reading
<1>4. Attempts'
  BY <1>1, <1>2, AttemptsStay DEF Excused, run, acting, Base, RunTyped
<1>5. QED BY <1>3, <1>4 DEF Excused

LEMMA ExitExcused ==
  ASSUME Base, Excused, Exit
  PROVE  Excused'
<1>1. /\ asked' = asked /\ UNCHANGED <<scheme, hive, untouched>> /\ pc' = "exit"
      /\ Keep /\ UNCHANGED <<finding, reading, acting>>
  BY DEF Exit, Quiet
<1>2. Watched'
  BY <1>1 DEF Excused, Watched, finding, reading, scheme, Keep
<1>3. Attempts'
  BY <1>1, AttemptsStay, SpendOrKeep DEF Excused, acting
<1>4. QED BY <1>2, <1>3 DEF Excused

LEMMA StutterExcused ==
  ASSUME Excused, UNCHANGED vars
  PROVE  Excused'
BY DEF vars, run, finding, reading, acting, scheme, Excused, Watched, Attempts, Lost, opt

LEMMA ExcusedInit == Init => Excused
<1>1. SUFFICES ASSUME Init PROVE Excused
  OBVIOUS
<1>2. DOMAIN None = {} /\ ~NoCache.error
  BY DEF None, NoCache
<1>3. QED BY <1>1, <1>2 DEF Init, Excused, Watched, Attempts

LEMMA ExcusedStep ==
  ASSUME Base, Excused, [Next]_vars
  PROVE  Excused'
<1>1. CASE ResolveHive \/ ResolveStartPath \/ ListDirectory \/ \E p \in DOMAIN nested : DiscoverNested(p)
  BY <1>1, DiscoveryExcused
<1>2. CASE ReadStep
  BY <1>2, DescribeExcused, UseCacheExcused, BeginWalkExcused, WalkFailsExcused, WalkExcused,
     EndWalkExcused DEF ReadStep
<1>3. CASE BeginReading \/ BeginActing \/ Exit
  BY <1>3, BeginReadingExcused, BeginActingExcused, ExitExcused
<1>4. CASE \E x \in DOMAIN act : Post(x) \/ Reply(x) \/ Refuse(x) \/ NoReply(x)
  BY <1>4, PostExcused, ReplyExcused, RefuseExcused, NoReplyExcused
<1>5. CASE Surroundings \/ (\E t \in accepted : HiveDoes(t)) \/ UNCHANGED vars
  BY <1>5, SurroundingsExcused, HiveDoesExcused, StutterExcused
<1>6. QED BY <1>1, <1>2, <1>3, <1>4, <1>5 DEF Next, Step, Over

\* As long as every page can be read, a run reports no path that has been there
\* all the time, and gives up a tablet for another reason than a denied access only
\* when it is gone or every attempt has been lost.
THEOREM FalseAlarmsNever == Spec => []NoFalseAlarm
<1>1. Init => Base /\ Excused
  BY BaseInit, ExcusedInit
<1>2. Base /\ Excused /\ [Next]_vars => Base' /\ Excused'
  BY BaseStep, ExcusedStep
<1>3. Base /\ Excused => NoFalseAlarm
  BY DEF Excused, Watched, Attempts, NoFalseAlarm, Lost
<1>4. QED BY <1>1, <1>2, <1>3, PTL DEF Spec

(***************************************************************************)
(* A run that complains of nothing has found everything                    *)
(***************************************************************************)
\* Only these hold anything.
LEMMA HoldersOnly ==
  ASSUME NEW q \in Path, NEW p \in Path, IsStrictPrefix(q, p)
  PROVE  \E n \in 0..Len(p) : \E c \in Path :
           /\ c = SubSeq(p, 1, n) /\ c # << >> /\ c # q /\ Front(c) = q
           /\ IsPrefix(c, p) /\ IsPrefix(q, c) /\ (c = p \/ IsStrictPrefix(c, p))
           /\ KindOf[c] \in Kinds /\ KindOf[q] \in HolderKinds[KindOf[c]]
           /\ KindOf[q] \in {"DIRECTORY", "COLUMN_STORE", "TABLE", "TABLE_INDEX", "CDC_STREAM"}
<1>1. PICK n \in 0..Len(p) :
        LET c == SubSeq(p, 1, n)
        IN  c \in Path \ {<< >>} /\ Front(c) = q /\ IsPrefix(c, p) /\ IsPrefix(q, c) /\ c # q
  BY NextOnTheWay
<1>2. PICK c : c = SubSeq(p, 1, n)
  OBVIOUS
<1>3. /\ c \in Path /\ c # << >> /\ Front(c) = q /\ IsPrefix(c, p) /\ IsPrefix(q, c) /\ c # q
      /\ c = p \/ IsStrictPrefix(c, p)
  BY <1>1, <1>2 DEF IsStrictPrefix
<1>4. KindOf[c] \in Kinds /\ KindOf[q] \in HolderKinds[KindOf[c]]
  BY <1>3, SchemeAssumption, TreeAssumption
<1>5. KindOf[q] \in {"DIRECTORY", "COLUMN_STORE", "TABLE", "TABLE_INDEX", "CDC_STREAM"}
  BY <1>4 DEF Kinds, HolderKinds, Holders
<1>6. QED BY <1>2, <1>3, <1>4, <1>5

\* A changefeed holds its topic.
LEMMA UnderStream ==
  ASSUME NEW q \in Path, NEW p \in Path, IsStrictPrefix(q, p), KindOf[q] = "CDC_STREAM"
  PROVE  p # << >> /\ Front(p) = q /\ KindOf[p] = "TOPIC"
<1>1. PICK c \in Path : /\ c # << >> /\ Front(c) = q /\ (c = p \/ IsStrictPrefix(c, p))
                        /\ KindOf[c] \in Kinds /\ KindOf[q] \in HolderKinds[KindOf[c]]
  BY HoldersOnly
<1>2. KindOf[c] = "TOPIC"
  BY <1>1 DEF Kinds, HolderKinds, Holders
<1>3. ~IsStrictPrefix(c, p)
  BY <1>1, <1>2, HoldersOnly
<1>4. QED BY <1>1, <1>2, <1>3

\* The implementation tables of an index, and the topics of their changefeeds.
LEMMA UnderIndex ==
  ASSUME NEW q \in Path, NEW p \in Path, IsStrictPrefix(q, p), KindOf[q] = "TABLE_INDEX",
         KindOf[p] \in SelectableKinds
  PROVE  \E n \in 0..Len(p) : \E c \in Path :
           /\ c = SubSeq(p, 1, n) /\ c # << >> /\ Front(c) = q /\ c # q
           /\ IsPrefix(c, p) /\ IsPrefix(q, c) /\ KindOf[c] = "TABLE"
           /\ c = p \/ (IsStrictPrefix(c, p) /\ KindOf[p] = "TOPIC")
<1>1. PICK n \in 0..Len(p) : \E c \in Path :
        /\ c = SubSeq(p, 1, n) /\ c # << >> /\ c # q /\ Front(c) = q
        /\ IsPrefix(c, p) /\ IsPrefix(q, c) /\ (c = p \/ IsStrictPrefix(c, p))
        /\ KindOf[c] \in Kinds /\ KindOf[q] \in HolderKinds[KindOf[c]]
  BY HoldersOnly
<1>2. PICK c \in Path :
        /\ c = SubSeq(p, 1, n) /\ c # << >> /\ c # q /\ Front(c) = q
        /\ IsPrefix(c, p) /\ IsPrefix(q, c) /\ (c = p \/ IsStrictPrefix(c, p))
        /\ KindOf[c] \in Kinds /\ KindOf[q] \in HolderKinds[KindOf[c]]
  BY <1>1
<1>3. KindOf[c] = "TABLE"
  BY <1>2 DEF Kinds, HolderKinds, Holders
<1>4. ASSUME IsStrictPrefix(c, p)
      PROVE  KindOf[p] = "TOPIC"
  <2>1. PICK d \in Path : /\ d # << >> /\ Front(d) = c /\ (d = p \/ IsStrictPrefix(d, p))
                          /\ KindOf[d] \in Kinds /\ KindOf[c] \in HolderKinds[KindOf[d]]
    BY <1>4, HoldersOnly
  <2>2. KindOf[d] \in {"TABLE_INDEX", "CDC_STREAM"}
    BY <1>3, <2>1 DEF Kinds, HolderKinds, Holders
  <2>3. KindOf[d] # "TABLE_INDEX"
    <3>1. KindOf[d] = "TABLE_INDEX" => KindOf[Front(Front(d))] \in Holders
      BY <2>1, TreeAssumption
    <3>2. Front(Front(d)) = q
      BY <1>2, <2>1
    <3>3. QED BY <3>1, <3>2 DEF Holders
  <2>4. d # p
    BY <2>2 DEF SelectableKinds
  <2>5. QED BY <2>1, <2>2, <2>3, <2>4, UnderStream
<1>5. QED BY <1>2, <1>3, <1>4

\* What lies under a table.
LEMMA UnderTable ==
  ASSUME NEW q \in Path, NEW p \in Path, IsStrictPrefix(q, p), KindOf[q] = "TABLE",
         KindOf[p] \in SelectableKinds
  PROVE  \E n \in 0..Len(p) : \E c \in Path :
           /\ c = SubSeq(p, 1, n) /\ c # << >> /\ Front(c) = q /\ c # q
           /\ IsStrictPrefix(c, p) /\ IsPrefix(q, c)
           /\ \/ KindOf[c] = "CDC_STREAM" /\ KindOf[p] = "TOPIC"
              \/ /\ KindOf[c] = "TABLE_INDEX" /\ KindOf[Front(q)] \in Holders
                 /\ KindOf[p] \in {"TOPIC", "TABLE"}
<1>1. PICK n \in 0..Len(p) : \E c \in Path :
        /\ c = SubSeq(p, 1, n) /\ c # << >> /\ c # q /\ Front(c) = q
        /\ IsPrefix(c, p) /\ IsPrefix(q, c) /\ (c = p \/ IsStrictPrefix(c, p))
        /\ KindOf[c] \in Kinds /\ KindOf[q] \in HolderKinds[KindOf[c]]
  BY HoldersOnly
<1>2. PICK c \in Path :
        /\ c = SubSeq(p, 1, n) /\ c # << >> /\ c # q /\ Front(c) = q
        /\ IsPrefix(c, p) /\ IsPrefix(q, c) /\ (c = p \/ IsStrictPrefix(c, p))
        /\ KindOf[c] \in Kinds /\ KindOf[q] \in HolderKinds[KindOf[c]]
  BY <1>1
<1>3. KindOf[c] \in {"TABLE_INDEX", "CDC_STREAM"}
  BY <1>2 DEF Kinds, HolderKinds, Holders
<1>4. IsStrictPrefix(c, p)
  BY <1>2, <1>3 DEF SelectableKinds
<1>5. CASE KindOf[c] = "CDC_STREAM"
  BY <1>2, <1>4, <1>5, UnderStream
<1>6. CASE KindOf[c] = "TABLE_INDEX"
  <2>1. KindOf[Front(q)] \in Holders
    BY <1>2, <1>6, TreeAssumption
  <2>2. KindOf[p] \in {"TOPIC", "TABLE"}
    BY <1>4, <1>6, UnderIndex
  <2>3. QED BY <1>2, <1>4, <1>6, <2>1, <2>2
<1>7. QED BY <1>3, <1>5, <1>6

LEMMA WantedTyped ==
  ASSUME Base, Excused, Found, NEW p \in untouched, Wanted(p)
  PROVE  /\ p \in Path /\ KindOf[p] \in opt.kinds /\ KindOf[p] \in SelectableKinds
         /\ IsPrefix(opt.prefix, p) /\ MatchesPrefix(p) /\ Selects(p)
         /\ KindOf[p] = "TOPIC" => WantCdc
         /\ KindOf[p] = "TABLE" => WantIndexTablets
         /\ \A c \in Path : IsPrefix(c, p) => Intersects(c)
         /\ \A c \in Path : IsStrictPrefix(c, p) => opt.sys \/ c \notin SysDirs
         /\ \A n \in 0..Len(p) : SubSeq(p, 1, n) \in untouched /\ here[SubSeq(p, 1, n)] = "yes"
<1>1. p \in Path /\ Selects(p) /\ KindOf[p] \in opt.kinds /\ IsPrefix(opt.prefix, p) /\ MatchesPrefix(p)
  BY DEF Wanted, Selects, MatchesPrefix, Excused, Watched
<1>2. opt.prefix \in Path /\ opt.kinds \subseteq SelectableKinds
  BY AskedTyped DEF Base, RunTyped
<1>3. ASSUME NEW c \in Path, IsPrefix(c, p)
      PROVE  Intersects(c)
  BY <1>1, <1>2, <1>3, PathTyped, PrefixesMeet DEF Intersects
<1>4. \A c \in Path : IsStrictPrefix(c, p) => opt.sys \/ c \notin SysDirs
  BY DEF Wanted
<1>5. \A n \in 0..Len(p) : SubSeq(p, 1, n) \in untouched /\ here[SubSeq(p, 1, n)] = "yes"
  BY DEF Found, Excused, Watched
<1>6. QED BY <1>1, <1>2, <1>3, <1>4, <1>5 DEF WantCdc, WantIndexTablets

\* A directory lists what leads to such a path.
LEMMA ListedOnTheWay ==
  ASSUME Base, Excused, Found, NEW p \in untouched, Wanted(p),
         NEW a \in Path, KindOf[a] \in DirectoryTypes, IsStrictPrefix(a, p)
  PROVE  \E c \in listed :
           /\ c \in Path /\ c # << >> /\ Front(c) = a /\ IsPrefix(c, p)
           /\ \/ c = p
              \/ Descends(c)
              \/ /\ IsStrictPrefix(c, p) /\ KindOf[c] = "TABLE"
                 /\ (WantCdc \/ WantIndexTablets) /\ Intersects(c)
<1>1. p \in Path
  BY WantedTyped
<1>2. PICK n \in 0..Len(p) : \E c \in Path :
        /\ c = SubSeq(p, 1, n) /\ c # << >> /\ Front(c) = a
        /\ IsPrefix(c, p) /\ (c = p \/ IsStrictPrefix(c, p))
        /\ KindOf[c] \in Kinds /\ KindOf[a] \in HolderKinds[KindOf[c]]
  BY <1>1, HoldersOnly
<1>3. PICK c \in Path :
        /\ c = SubSeq(p, 1, n) /\ c # << >> /\ Front(c) = a
        /\ IsPrefix(c, p) /\ (c = p \/ IsStrictPrefix(c, p))
        /\ KindOf[c] \in Kinds /\ KindOf[a] \in HolderKinds[KindOf[c]]
  BY <1>2
<1>4. here[c] = "yes" /\ Intersects(c)
  BY <1>3, WantedTyped
<1>5. c \in listed
  BY <1>4 DEF Base, Db, DbTrue
<1>6. CASE IsStrictPrefix(c, p)
  <2>1. KindOf[c] \in {"DIRECTORY", "COLUMN_STORE", "TABLE"}
    <3>1. KindOf[c] \in {"DIRECTORY", "COLUMN_STORE", "TABLE", "TABLE_INDEX", "CDC_STREAM"}
      BY <1>1, <1>6, HoldersOnly
    <3>2. QED BY <1>3, <3>1 DEF HolderKinds, Holders, DirectoryTypes
  <2>2. CASE KindOf[c] = "TABLE"
    <3>1. KindOf[p] \in {"TOPIC", "TABLE"}
      BY <1>1, <1>6, <2>2, UnderTable, WantedTyped
    <3>2. WantCdc \/ WantIndexTablets
      BY <3>1, WantedTyped
    <3>3. QED BY <1>3, <1>4, <1>5, <1>6, <2>2, <3>2
  <2>3. CASE KindOf[c] \in {"DIRECTORY", "COLUMN_STORE"}
    <3>1. opt.sys \/ c \notin SysDirs
      BY <1>6, WantedTyped
    <3>2. Descends(c)
      BY <1>4, <2>3, <3>1 DEF Descends, DirectoryTypes
    <3>3. QED BY <1>3, <1>5, <3>2
  <2>4. QED BY <2>1, <2>2, <2>3
<1>7. CASE c = p
  BY <1>3, <1>5, <1>7
<1>8. QED BY <1>3, <1>6, <1>7

\* The cut of a path that is left untouched is left untouched.
LEMMA UntouchedStaysClosed ==
  ASSUME Base, Excused, Found, Db',
         untouched' = {p \in untouched : here'[p] = "yes"}
  PROVE  \A p \in untouched' : \A n \in 0..Len(p) : SubSeq(p, 1, n) \in untouched'
<1>1. ASSUME NEW p \in untouched', NEW n \in 0..Len(p)
      PROVE  SubSeq(p, 1, n) \in untouched'
  <2>1. p \in Path /\ p \in untouched /\ here'[p] = "yes"
    BY DEF Excused, Watched
  <2>2. here'[SubSeq(p, 1, n)] = "yes"
    BY <2>1 DEF Db, DbTrue
  <2>3. SubSeq(p, 1, n) \in untouched
    BY <2>1 DEF Found
  <2>4. QED BY <2>2, <2>3
<1>2. QED BY <1>1

LEMMA WantedStays ==
  ASSUME asked' = asked
  PROVE  \A p : Wanted(p)' = Wanted(p)
BY DEF Wanted, Selects, MatchesPrefix, opt

\* Wanted is of no interest before the walk; a run starts above the prefix.
LEMMA StartFound ==
  ASSUME Base, Excused, Found, ResolveHive \/ ResolveStartPath
  PROVE  Found'
<1>1. asked' = asked /\ untouched' = untouched /\ errors' = errors /\ objects' = objects
  BY DEF ResolveHive, ResolveStartPath, Quiet, finding
<1>2. CASE ResolveHive
  <2>1. pc' = "start" \/ status' = "1"
    BY <1>2 DEF ResolveHive
  <2>2. QED BY <1>1, <2>1 DEF Found, ToBeFound
<1>3. CASE ResolveStartPath
  <2>1. PICK a \in Path : IsPrefix(a, opt.prefix) /\ queue' = <<a>>
    <3>1. PICK q \in {p \in Path : /\ IsPrefix(p, opt.prefix)
                                   /\ \/ p = << >>
                                      \/ Visible(p) /\ KindOf[p] \in DirectoryTypes} : queue' = <<q>>
      BY <1>3, Zenon DEF ResolveStartPath
    <3>2. q \in Path /\ IsPrefix(q, opt.prefix)
      OBVIOUS
    <3>3. QED BY <3>1, <3>2, Zenon
  <2>2. pc' = "walk" /\ a \in Range(queue')
    BY <1>3, <2>1 DEF ResolveStartPath, Range
  <2>3. ASSUME NEW p \in untouched, Wanted(p)
        PROVE  IsPrefix(a, p)
    BY <2>1, <2>3, WantedTyped, AskedTyped, PathTyped, PrefixTransitive DEF Base, RunTyped
  <2>4. QED BY <1>1, <2>2, <2>3, WantedStays DEF Found, ToBeFound, InQueue
<1>4. QED BY <1>2, <1>3

LEMMA PrefixOfItself == \A p \in Path : IsPrefix(p, p)
BY PathTyped, PrefixByItems

\* A table on the way is one to look below.
LEMMA TableOnTheWay ==
  ASSUME NEW t \in Path, NEW p, NEW n, KindOf[t] = "TABLE", IsStrictPrefix(t, p), n[t] = <<t>>
  PROVE  \E q \in Range(n[t]) :
           /\ IsPrefix(t, q) /\ IsStrictPrefix(q, p)
           /\ KindOf[q] \in {"TABLE", "TABLE_INDEX", "CDC_STREAM"}
           /\ KindOf[q] = "TABLE" /\ q # t => KindOf[Front(q)] = "TABLE_INDEX"
<1>1. t \in Range(n[t])
  BY DEF Range
<1>2. QED BY <1>1, PrefixOfItself

LEMMA StrictAbove ==
  ASSUME NEW t \in Path, NEW q \in Path, NEW p \in Path, IsPrefix(t, q), IsStrictPrefix(q, p)
  PROVE  IsStrictPrefix(t, p)
<1>1. t \in Seq(STRING) /\ q \in Seq(STRING) /\ p \in Seq(STRING)
  BY PathTyped
<1>2. IsPrefix(t, p) /\ IsPrefix(q, p) /\ q # p
  BY <1>1, PrefixTransitive DEF IsStrictPrefix
<1>3. t # p
  BY <1>1, <1>2, PrefixByItems
<1>4. QED BY <1>2, <1>3 DEF IsStrictPrefix

LEMMA ListDirectoryFound ==
  ASSUME Base, Excused, Found, ListDirectory
  PROVE  Found'
<1>1. asked' = asked /\ untouched' = untouched /\ pc = "walk" /\ pc' = "walk" /\ status' = status
  BY DEF ListDirectory, Quiet
<1>2. PICK a : a = Head(queue)
  OBVIOUS
<1>3. PICK kids : kids = {q \in listed : q # << >> /\ Front(q) = a}
  OBVIOUS
<1>4. PICK tables : tables = DOMAIN nested \cup
                              {q \in kids : /\ WantCdc \/ WantIndexTablets
                                            /\ KindOf[q] = "TABLE" /\ Intersects(q)}
  OBVIOUS
<1>5. PICK dirs : dirs = {q \in kids : Descends(q)}
  OBVIOUS
<1>6. queue # << >> /\ (errors' = errors \cup {a} \/
        /\ objects' = objects \cup {q \in kids \cup {a} : Selects(q)} /\ errors' = errors
        /\ nested' = [q \in tables |-> <<q>>] /\ queue' = Tail(queue) \o SetToSeq(dirs))
  BY <1>2, <1>3, <1>4, <1>5, Zenon DEF ListDirectory
<1>7. /\ a \in Directories /\ Tail(queue) \in Seq(Directories)
      /\ Range(queue) = {a} \cup Range(Tail(queue))
  BY <1>2, <1>6, Rest DEF Base, RunTyped
<1>8. a \in Path /\ KindOf[a] \in DirectoryTypes
  BY <1>7 DEF Directories
<1>9. kids \subseteq Path
  BY <1>3 DEF Base, Db, DbTyped
<1>10. SUFFICES ASSUME errors' = {}, status # "1", NEW p \in untouched, Wanted(p)
                PROVE  p \in objects' \/ InQueue(p)' \/ \E t \in DOMAIN nested' : InTable(p, t)'
  BY <1>1, WantedStays DEF Found, ToBeFound
<1>11. /\ objects' = objects \cup {q \in kids \cup {a} : Selects(q)} /\ errors' = errors
       /\ nested' = [q \in tables |-> <<q>>] /\ queue' = Tail(queue) \o SetToSeq(dirs)
  BY <1>6, <1>10
<1>12. Range(queue') = Range(Tail(queue)) \cup dirs
  <2>1. dirs \subseteq Path /\ IsFiniteSet(dirs)
    BY <1>5, <1>9, SomePathsFinite
  <2>2. SetToSeq(dirs) \in Seq(dirs) /\ Range(SetToSeq(dirs)) = dirs
    BY <2>1, ListOfSet
  <2>3. SetToSeq(dirs) \in Seq(Path) /\ Tail(queue) \in Seq(Path)
    BY <1>7, <2>1, <2>2 DEF Directories
  <2>4. Range(Tail(queue) \o SetToSeq(dirs)) = Range(Tail(queue)) \cup Range(SetToSeq(dirs))
    BY <2>3, Joined
  <2>5. QED BY <1>11, <2>2, <2>4, Zenon
<1>13. p \in Path /\ Selects(p)
  BY <1>10, WantedTyped
<1>14. CASE p \in objects
  BY <1>11, <1>14
<1>15. CASE InQueue(p)
  <2>1. PICK b \in Range(queue) : IsPrefix(b, p)
    BY <1>15 DEF InQueue
  <2>2. CASE b \in Range(Tail(queue))
    BY <1>12, <2>1, <2>2 DEF InQueue
  <2>3. CASE b = a /\ a = p
    BY <1>11, <1>13, <2>3
  <2>4. CASE b = a /\ a # p
    <3>1. IsStrictPrefix(a, p)
      BY <2>1, <2>4 DEF IsStrictPrefix
    <3>2. PICK c \in listed :
            /\ c \in Path /\ c # << >> /\ Front(c) = a /\ IsPrefix(c, p)
            /\ \/ c = p
               \/ Descends(c)
               \/ /\ IsStrictPrefix(c, p) /\ KindOf[c] = "TABLE"
                  /\ (WantCdc \/ WantIndexTablets) /\ Intersects(c)
      BY <1>8, <1>10, <3>1, ListedOnTheWay
    <3>3. c \in kids
      BY <1>3, <3>2
    <3>4. CASE c = p
      BY <1>11, <1>13, <3>3, <3>4
    <3>5. CASE Descends(c)
      BY <1>5, <1>12, <3>2, <3>3, <3>5 DEF InQueue
    <3>6. CASE /\ IsStrictPrefix(c, p) /\ KindOf[c] = "TABLE"
               /\ (WantCdc \/ WantIndexTablets) /\ Intersects(c)
      <4>1. c \in DOMAIN nested' /\ nested'[c] = <<c>>
        BY <1>4, <1>11, <3>3, <3>6
      <4>2. InTable(p, c)'
        BY <3>2, <3>6, <4>1, TableOnTheWay DEF InTable
      <4>3. QED BY <4>1, <4>2
    <3>7. QED BY <3>2, <3>4, <3>5, <3>6
  <2>5. QED BY <1>7, <2>1, <2>2, <2>3, <2>4
<1>16. CASE \E t \in DOMAIN nested : InTable(p, t)
  <2>1. PICK t \in DOMAIN nested : InTable(p, t)
    BY <1>16
  <2>2. PICK q \in Range(nested[t]) : IsPrefix(t, q) /\ IsStrictPrefix(q, p)
    BY <2>1 DEF InTable
  <2>3. t \in Path /\ q \in Path /\ KindOf[t] = "TABLE"
    <3>1. t \in Nested /\ KindOf[t] = "TABLE" /\ nested[t] \in Seq(Nested)
      BY <2>1 DEF Base, RunTyped
    <3>2. PICK i \in DOMAIN nested[t] : q = nested[t][i]
      BY <2>2 DEF Range
    <3>3. QED BY <3>1, <3>2 DEF Nested
  <2>4. IsStrictPrefix(t, p)
    BY <1>13, <2>2, <2>3, StrictAbove
  <2>5. t \in DOMAIN nested' /\ nested'[t] = <<t>>
    BY <1>4, <1>11, <2>1
  <2>6. InTable(p, t)'
    BY <2>3, <2>4, <2>5, TableOnTheWay DEF InTable
  <2>7. QED BY <2>5, <2>6
<1>17. QED BY <1>1, <1>10, <1>11, <1>14, <1>15, <1>16 DEF Found, ToBeFound

\* A description tells what leads to such a path, or the path itself.
LEMMA DescribedOnTheWay ==
  ASSUME Base, Excused, Found, NEW p \in untouched, Wanted(p), NEW t \in Path, NEW a \in Nested,
         IsPrefix(t, a), IsStrictPrefix(a, p), KindOf[a] \in {"TABLE", "TABLE_INDEX", "CDC_STREAM"},
         KindOf[a] = "TABLE" /\ a # t => KindOf[Front(a)] = "TABLE_INDEX"
  PROVE  \/ p \in Finds(a)
         \/ \E q \in Range(Below(t, a)) :
              /\ IsPrefix(t, q) /\ IsStrictPrefix(q, p)
              /\ KindOf[q] \in {"TABLE", "TABLE_INDEX", "CDC_STREAM"}
              /\ KindOf[q] = "TABLE" /\ q # t => KindOf[Front(q)] = "TABLE_INDEX"
<1>1. p \in Path /\ a \in Path /\ KindOf[p] \in SelectableKinds /\ MatchesPrefix(p)
  BY WantedTyped DEF Nested
<1>2. ASSUME NEW n \in 0..Len(p), NEW c \in Path, c = SubSeq(p, 1, n), c # << >>, Front(c) = a,
             IsPrefix(a, c)
      PROVE  c \in Children(a) /\ IsPrefix(t, c)
  <2>1. here[c] = "yes"
    BY <1>2, WantedTyped
  <2>2. IsPrefix(t, c)
    BY <1>1, <1>2, PathTyped, PrefixTransitive
  <2>3. QED BY <1>2, <2>1, <2>2 DEF Children, ChildrenOf, Visible
<1>3. ASSUME NEW c \in Path, IsStrictPrefix(c, p)
      PROVE  Intersects(c)
  BY <1>1, <1>3, WantedTyped DEF IsStrictPrefix
<1>4. CASE KindOf[a] = "CDC_STREAM"
  <2>1. p # << >> /\ Front(p) = a /\ KindOf[p] = "TOPIC"
    BY <1>1, <1>4, UnderStream
  <2>2. here[p] = "yes"
    BY DEF Excused, Watched
  <2>3. p \in Children(a)
    BY <1>1, <2>1, <2>2 DEF Children, ChildrenOf, Visible
  <2>4. QED BY <1>1, <1>4, <2>1, <2>3 DEF Finds
<1>5. CASE KindOf[a] = "TABLE_INDEX"
  <2>1. PICK n \in 0..Len(p) : \E c \in Path :
          /\ c = SubSeq(p, 1, n) /\ c # << >> /\ Front(c) = a /\ c # a
          /\ IsPrefix(c, p) /\ IsPrefix(a, c) /\ KindOf[c] = "TABLE"
          /\ c = p \/ (IsStrictPrefix(c, p) /\ KindOf[p] = "TOPIC")
    BY <1>1, <1>5, UnderIndex
  <2>2. PICK c \in Path :
          /\ c = SubSeq(p, 1, n) /\ c # << >> /\ Front(c) = a /\ c # a
          /\ IsPrefix(c, p) /\ IsPrefix(a, c) /\ KindOf[c] = "TABLE"
          /\ c = p \/ (IsStrictPrefix(c, p) /\ KindOf[p] = "TOPIC")
    BY <2>1
  <2>3. c \in Children(a) /\ IsPrefix(t, c)
    BY <1>2, <2>2
  <2>4. CASE c = p
    <3>1. WantIndexTablets
      BY <2>2, <2>4, WantedTyped
    <3>2. QED BY <1>1, <1>5, <2>2, <2>3, <2>4, <3>1 DEF Finds, Impls
  <2>5. CASE IsStrictPrefix(c, p) /\ KindOf[p] = "TOPIC"
    <3>1. WantCdc /\ Intersects(c)
      BY <1>3, <2>2, <2>5, WantedTyped
    <3>2. c \in Range(Below(t, a))
      BY <1>5, <2>2, <2>3, <3>1, BelowTyped
    <3>3. QED BY <1>5, <2>2, <2>3, <2>5, <3>2
  <2>6. QED BY <2>2, <2>4, <2>5
<1>6. CASE KindOf[a] = "TABLE"
  <2>1. PICK n \in 0..Len(p) : \E c \in Path :
          /\ c = SubSeq(p, 1, n) /\ c # << >> /\ Front(c) = a /\ c # a
          /\ IsStrictPrefix(c, p) /\ IsPrefix(a, c)
          /\ \/ KindOf[c] = "CDC_STREAM" /\ KindOf[p] = "TOPIC"
             \/ /\ KindOf[c] = "TABLE_INDEX" /\ KindOf[Front(a)] \in Holders
                /\ KindOf[p] \in {"TOPIC", "TABLE"}
    BY <1>1, <1>6, UnderTable
  <2>2. PICK c \in Path :
          /\ c = SubSeq(p, 1, n) /\ c # << >> /\ Front(c) = a /\ c # a
          /\ IsStrictPrefix(c, p) /\ IsPrefix(a, c)
          /\ \/ KindOf[c] = "CDC_STREAM" /\ KindOf[p] = "TOPIC"
             \/ /\ KindOf[c] = "TABLE_INDEX" /\ KindOf[Front(a)] \in Holders
                /\ KindOf[p] \in {"TOPIC", "TABLE"}
    BY <2>1
  <2>3. c \in Children(a) /\ IsPrefix(t, c) /\ Intersects(c)
    BY <1>2, <1>3, <2>2
  <2>4. KindOf[c] = "TABLE_INDEX" => a = t
    BY <1>6, <2>2 DEF Holders
  <2>5. c \in Range(Below(t, a))
    BY <1>6, <2>2, <2>3, <2>4, WantedTyped, BelowTyped
  <2>6. QED BY <2>2, <2>3, <2>5
<1>7. QED BY <1>4, <1>5, <1>6

LEMMA DiscoverNestedFound ==
  ASSUME Base, Excused, Found, NEW t \in DOMAIN nested, DiscoverNested(t)
  PROVE  Found'
<1>1. /\ asked' = asked /\ untouched' = untouched /\ pc = "walk" /\ pc' = "walk" /\ status' = status
      /\ queue' = queue /\ nested[t] # << >>
  BY DEF DiscoverNested, Quiet
<1>2. PICK a : a = Head(nested[t])
  OBVIOUS
<1>3. SUFFICES ASSUME errors' = {}, status # "1", NEW p \in untouched, Wanted(p)
               PROVE  p \in objects' \/ InQueue(p)' \/ \E u \in DOMAIN nested' : InTable(p, u)'
  BY <1>1, WantedStays DEF Found, ToBeFound
<1>4. /\ objects' = objects \cup Finds(a) /\ errors' = errors
      /\ nested' = [nested EXCEPT ![t] = Below(t, a) \o Tail(nested[t])]
  BY <1>2, <1>3 DEF DiscoverNested
<1>5. /\ nested[t] \in Seq(Nested) /\ a \in Nested /\ Tail(nested[t]) \in Seq(Nested)
      /\ Range(nested[t]) = {a} \cup Range(Tail(nested[t]))
  BY <1>1, <1>2, Rest DEF Base, RunTyped
<1>6. Below(t, a) \in Seq(Nested)
  BY <1>5, BelowTyped
<1>7. DOMAIN nested' = DOMAIN nested /\ Range(nested'[t]) = Range(Below(t, a)) \cup Range(Tail(nested[t]))
  <2>1. Range(Below(t, a) \o Tail(nested[t])) = Range(Below(t, a)) \cup Range(Tail(nested[t]))
    <3>1. PICK b : b = Below(t, a)
      OBVIOUS
    <3>2. PICK r : r = Tail(nested[t])
      OBVIOUS
    <3>3. b \in Seq(Nested) /\ r \in Seq(Nested)
      BY <1>5, <1>6, <3>1, <3>2
    <3>4. Range(b \o r) = Range(b) \cup Range(r)
      BY <3>3, Joined
    <3>5. QED BY <3>1, <3>2, <3>4
  <2>2. DOMAIN nested' = DOMAIN nested /\ nested'[t] = Below(t, a) \o Tail(nested[t])
    BY <1>4
  <2>3. QED BY <2>1, <2>2
<1>8. \A u \in DOMAIN nested : u # t => nested'[u] = nested[u]
  BY <1>4
<1>9. t \in Path /\ p \in Path
  BY <1>3, WantedTyped DEF Base, RunTyped, Nested
<1>10. CASE p \in objects \/ InQueue(p)
  BY <1>1, <1>4, <1>10 DEF InQueue
<1>11. CASE \E u \in DOMAIN nested : InTable(p, u)
  <2>1. PICK u \in DOMAIN nested : InTable(p, u)
    BY <1>11
  <2>2. CASE u # t
    BY <1>7, <1>8, <2>1, <2>2 DEF InTable
  <2>3. CASE u = t
    <3>1. PICK q \in Range(nested[t]) :
            /\ IsPrefix(t, q) /\ IsStrictPrefix(q, p)
            /\ KindOf[q] \in {"TABLE", "TABLE_INDEX", "CDC_STREAM"}
            /\ KindOf[q] = "TABLE" /\ q # t => KindOf[Front(q)] = "TABLE_INDEX"
      BY <2>1, <2>3 DEF InTable
    <3>2. CASE q \in Range(Tail(nested[t]))
      <4>1. InTable(p, t)'
        BY <1>7, <3>1, <3>2 DEF InTable
      <4>2. QED BY <1>7, <4>1
    <3>3. CASE q = a
      <4>1. CASE p \in Finds(a)
        BY <1>4, <4>1
      <4>2. CASE p \notin Finds(a)
        <5>1. InTable(p, t)'
          BY <1>3, <1>5, <1>7, <1>9, <3>1, <3>3, <4>2, DescribedOnTheWay DEF InTable
        <5>2. QED BY <1>7, <5>1
      <4>3. QED BY <4>1, <4>2
    <3>4. QED BY <1>5, <3>1, <3>2, <3>3
  <2>4. QED BY <2>2, <2>3
<1>12. QED BY <1>1, <1>3, <1>4, <1>10, <1>11 DEF Found, ToBeFound

\* What is still to be found stays so, and the rest has been found.
LEMMA FoundStays ==
  ASSUME Base, Excused, Found, Db', asked' = asked, objects' = objects, errors \subseteq errors',
         status = "1" => status' = "1",
         untouched' \in {untouched, {p \in untouched : here'[p] = "yes"}},
         \A p : ToBeFound(p) => ToBeFound(p)' \/ p \in objects
  PROVE  Found'
<1>1. \A p \in untouched' : p \in untouched
  OBVIOUS
<1>2. \A p \in untouched' : \A n \in 0..Len(p) : SubSeq(p, 1, n) \in untouched'
  <2>1. CASE untouched' = untouched
    BY <2>1 DEF Found
  <2>2. CASE untouched' = {p \in untouched : here'[p] = "yes"}
    BY <2>2, UntouchedStaysClosed
  <2>3. QED BY <2>1, <2>2
<1>3. ASSUME errors' = {}, status' # "1", NEW p \in untouched', Wanted(p)'
      PROVE  p \in objects' \/ ToBeFound(p)'
  <2>1. Wanted(p) /\ p \in untouched /\ errors = {} /\ status # "1"
    BY <1>1, <1>3, WantedStays
  <2>2. p \in objects \/ ToBeFound(p)
    BY <2>1 DEF Found
  <2>3. QED BY <2>2
<1>4. QED BY <1>2, <1>3 DEF Found

LEMMA BeginReadingFound ==
  ASSUME Base, Excused, Found, BeginReading
  PROVE  Found'
<1>1. /\ asked' = asked /\ UNCHANGED <<scheme, hive, untouched>>
      /\ queue = << >> /\ \A t \in DOMAIN nested : nested[t] = << >>
      /\ pc = "walk" /\ status' = status /\ UNCHANGED <<queue, objects, nested, errors>>
  BY DEF BeginReading, Quiet, finding
<1>2. Db'
  BY <1>1, DbQuiet DEF Base
<1>3. Range(<< >>) = {}
  BY DEF Range
<1>4. \A p : ~ToBeFound(p)
  BY <1>1, <1>3 DEF ToBeFound, InQueue, InTable
<1>5. QED BY <1>1, <1>2, <1>4, FoundStays

\* Once Hive may be asked nothing is found any more.
LEMMA FoundLater ==
  ASSUME Base, Excused, Found, Db', asked' = asked, untouched' = untouched, objects' = objects,
         errors \subseteq errors', status = "1" => status' = "1", pc \in {"read", "act", "exit"}
  PROVE  Found'
<1>1. \A p : ~ToBeFound(p)
  BY DEF ToBeFound
<1>2. QED BY <1>1, FoundStays

\* Whatever happens to the database.
LEMMA FoundMeanwhile ==
  ASSUME Base, Excused, Found, Db',
         UNCHANGED <<asked, pc, status, queue, objects, nested, errors>>,
         untouched' \in {untouched, {p \in untouched : here'[p] = "yes"}}
  PROVE  Found'
<1>1. \A p : ToBeFound(p) => ToBeFound(p)'
  BY DEF ToBeFound, InQueue, InTable
<1>2. QED BY <1>1, FoundStays

(***************************************************************************)
(* An object that is done has told its tablets                             *)
(***************************************************************************)
LEMMA ToldStays ==
  ASSUME Base, Told, \A t \in Tablet : hive[t] = "gone" => hive'[t] = "gone",
         objects' = objects, collected \subseteq collected', errors \subseteq errors',
         status = "1" => status' = "1",
         pc' \in {"read", "act", "exit"} => pc \in {"read", "act", "exit"},
         \A p \in objects :
           task'[p] = "done" =>
             \/ task[p] = "done" \/ errors' # {}
             \/ \A t \in ShardsOf[p] : <<p, t>> \in collected' \/ hive'[t] = "gone"
  PROVE  Told'
<1>1. SUFFICES ASSUME errors' = {}, status' # "1", pc' \in {"read", "act", "exit"},
                      NEW p \in objects, task'[p] = "done", NEW t \in ShardsOf[p]
               PROVE  <<p, t>> \in collected' \/ hive'[t] = "gone"
  BY DEF Told
<1>2. p \in Path /\ t \in Tablet
  BY <1>1, ShardsAreTablets DEF Base, RunTyped, Chosen
<1>3. CASE task[p] = "done"
  BY <1>1, <1>2, <1>3 DEF Told
<1>4. QED BY <1>1, <1>3

\* An answer that says something says all.
LEMMA FinishedTold ==
  ASSUME Base, Told, Reading, NEW p \in objects, NEW found, Tells(found, p), Finished(p, found),
         errors \subseteq errors', errors' # {} \/ found # {} \/ found = ShardsOf[p]
  PROVE  Told'
<1>1. /\ collected \subseteq collected' /\ \A t \in found : <<p, t>> \in collected'
      /\ \A q \in objects : task'[q] = IF q = p THEN "done" ELSE task[q]
  BY FinishedBase
<1>2. UNCHANGED <<scheme, hive, pc, status, objects>>
  BY DEF Reading, Quiet
<1>3. \/ errors' # {}
      \/ \A t \in ShardsOf[p] : <<p, t>> \in collected' \/ hive'[t] = "gone"
  BY <1>1, <1>2 DEF Tells
<1>4. QED BY <1>1, <1>2, <1>3, ToldStays

LEMMA FallbackTold ==
  ASSUME Base, Told, Reading, NEW p \in objects, NEW map,
         \A q \in DOMAIN map : q \in Path /\ Tells(map[q], q), Fallback(p, map)
  PROVE  Told'
<1>1. PICK found : /\ Finished(p, found) /\ Tells(found, p)
                   /\ errors' = IF found = {} THEN errors \cup {p} ELSE errors
  BY FallbackBase
<1>2. QED BY <1>1, FinishedTold

LEMMA ReadStepTold ==
  ASSUME Base, Told, pc = "read", ReadStep
  PROVE  Told'
<1>1. Reading /\ UNCHANGED <<scheme, hive, pc, status, objects>>
  <2>1. Reading
    <3>1. \A p : ReadTx(p) \/ ReadPath(p) => Reading
      BY Zenon DEF ReadTx, ReadPath
    <3>2. \A p : Describe(p) \/ UseCache(p) \/ BeginWalk(p) => Reading
      BY Zenon DEF Describe, UseCache, BeginWalk
    <3>3. QED BY <3>1, <3>2, Zenon DEF ReadStep, EndWalk, WalkFails
  <2>2. QED BY <2>1 DEF Reading, Quiet
<1>2. ASSUME NEW p \in objects, Describe(p)
      PROVE  Told'
  <2>1. p \in Path /\ task[p] = "todo" /\ task \in [objects -> {"todo", "hidden", "done"}]
    BY <1>1, <1>2 DEF Describe, Base, RunTyped, Chosen, Reading
  <2>2. CASE Visible(p) /\ Finished(p, shards[p]) /\ errors' = errors
    BY <1>1, <2>1, <2>2, ShardsTell, FinishedTold DEF Visible, Base
  <2>3. CASE Finished(p, {}) /\ errors' = errors \cup {p}
    BY <1>1, <2>1, <2>3, NothingTells, FinishedTold
  <2>4. CASE task' = [task EXCEPT ![p] = "hidden"] /\ UNCHANGED <<collected, errors>>
    <3>1. \A q \in objects : task'[q] = "done" => task[q] = "done"
      BY <2>1, <2>4
    <3>2. QED BY <1>1, <2>4, <3>1, ToldStays
  <2>5. QED BY <1>2, <2>2, <2>3, <2>4 DEF Describe
<1>3. ASSUME NEW p \in objects, UseCache(p)
      PROVE  Told'
  <2>1. CASE Finished(p, {}) /\ errors' = errors \cup {p}
    BY <1>1, <2>1, NothingTells, FinishedTold
  <2>2. CASE Fallback(p, cache.map)
    <3>1. \A q \in DOMAIN cache.map : q \in Path /\ Tells(cache.map[q], q)
      BY DEF Base, Reads
    <3>2. QED BY <1>1, <2>2, <3>1, FallbackTold
  <2>3. QED BY <1>3, <2>1, <2>2 DEF UseCache
<1>4. CASE EndWalk
  <2>1. PICK p \in walk.by : Fallback(p, walk.map)
    BY <1>4 DEF EndWalk
  <2>2. p \in objects /\ \A q \in DOMAIN walk.map : q \in Path /\ Tells(walk.map[q], q)
    BY DEF Base, Reads
  <2>3. QED BY <1>1, <2>1, <2>2, FallbackTold
<1>5. CASE WalkFails
  <2>1. PICK p \in walk.by : Finished(p, {}) /\ errors' = errors \cup {p}
    BY <1>5 DEF WalkFails
  <2>2. p \in objects
    BY DEF Base, Reads
  <2>3. QED BY <1>1, <2>1, <2>2, NothingTells, FinishedTold
<1>6. CASE (\E p \in objects : BeginWalk(p)) \/ \E p \in Path : ReadTx(p) \/ ReadPath(p)
  <2>1. UNCHANGED <<task, collected, errors>>
    BY <1>6, Zenon DEF BeginWalk, ReadTx, ReadPath
  <2>2. /\ \A t \in Tablet : hive[t] = "gone" => hive'[t] = "gone"
        /\ \A p \in objects : task'[p] = "done" => task[p] = "done"
        /\ objects' = objects /\ collected \subseteq collected' /\ errors \subseteq errors'
        /\ status' = status /\ pc' = pc
    BY <1>1, <2>1
  <2>3. QED BY <2>2, ToldStays
<1>7. QED BY <1>2, <1>3, <1>4, <1>5, <1>6 DEF ReadStep

(***************************************************************************)
(* A target that is ok is as it should be, or will be                      *)
(***************************************************************************)
LEMMA Empty == DOMAIN None = {}
BY DEF None

\* Until Hive is asked there is nothing to keep.
LEMMA CarriedBefore ==
  ASSUME Base, Carried, pc \notin {"act", "exit"}, pc' # "act", act' = act,
         \/ status' = status
         \/ status' = "1" /\ pc' = "exit"
  PROVE  Carried'
<1>1. status = "none" /\ act = None
  BY DEF Base, RunTyped, Carried
<1>2. QED BY <1>1, Empty DEF Carried

\* Nothing but the state of the targets and of their tablets changes.
LEMMA CarriedAfter ==
  ASSUME Base, Carried, UNCHANGED <<asked, pc, status, objects, task, collected, errors>>,
         DOMAIN act' = DOMAIN act,
         pc = "exit" => act' = act,
         \A x \in DOMAIN act : act'[x].state = "ok" =>
           hive'[x[2]] \in {Goal, "gone"} \/ x[2] \in accepted'
  PROVE  Carried'
<1>1. opt' = opt /\ Goal' = Goal
  BY AskedStays
<1>2. status = "0" => pc = "exit"
  BY DEF Carried
<1>3. QED BY <1>1, <1>2 DEF Carried

LEMMA BeginActingCarried ==
  ASSUME Base, Carried, BeginActing
  PROVE  Carried'
<1>1. /\ asked' = asked /\ pc = "read" /\ UNCHANGED <<objects, errors, task, collected>>
      /\ \A p \in objects : task[p] = "done"
  BY DEF BeginActing, Quiet, finding, reading
<1>2. status = "none" /\ act = None /\ opt' = opt
  BY <1>1, AskedStays DEF Base, RunTyped, Carried
<1>3. CASE opt.dry
  <2>1. pc' = "exit" /\ act' = act /\ status' = IF errors = {} THEN "0" ELSE "2"
    BY <1>3 DEF BeginActing
  <2>2. QED BY <1>1, <1>2, <1>3, <2>1, Empty DEF Carried
<1>4. CASE ~opt.dry
  <2>1. /\ pc' = "act" /\ status' = status
        /\ act' = [x \in Dedupe(collected) |-> [state |-> "todo", tries |-> 0]]
    BY <1>4 DEF BeginActing
  <2>2. DOMAIN act' = Dedupe(collected) /\ \A x \in DOMAIN act' : act'[x].state = "todo"
    BY <2>1
  <2>3. \A x \in collected : \E y \in DOMAIN act' : y[2] = x[2]
    BY <2>2, DedupeApart
  <2>4. QED BY <1>1, <1>2, <2>1, <2>2, <2>3 DEF Carried
<1>5. QED BY <1>3, <1>4

\* What has been asked for is not undone, but for a tablet that is deleted.
LEMMA DoneCarries ==
  ASSUME Base, NEW t \in Tablet, Done(t)
  PROVE  /\ hive'[t] \in {Goal, "gone"}
         /\ \A u \in Tablet : hive[u] \in {Goal, "gone"} => hive'[u] \in {Goal, "gone"}
         /\ \A u \in Tablet : u # t => hive'[u] = hive[u]
BY DEF Done, Base, Db, DbTyped

LEMMA PostCarried ==
  ASSUME Base, Carried, NEW x \in DOMAIN act, Post(x)
  PROVE  Carried'
<1>1. /\ asked' = asked /\ UNCHANGED <<scheme, hive>> /\ pc = "act"
      /\ UNCHANGED <<pc, status, finding, reading, accepted>>
      /\ act' = [act EXCEPT ![x].state = "sent"]
  BY DEF Post, Quiet
<1>2. /\ DOMAIN act' = DOMAIN act /\ act'[x].state = "sent"
      /\ \A y \in DOMAIN act : y # x => act'[y] = act[y]
  BY <1>1, TargetTyped DEF ActType
<1>3. \A y \in DOMAIN act : act'[y].state = "ok" =>
        hive'[y[2]] \in {Goal, "gone"} \/ y[2] \in accepted'
  BY <1>1, <1>2 DEF Carried
<1>4. QED BY <1>1, <1>2, <1>3, CarriedAfter DEF finding, reading

LEMMA ReplyCarried ==
  ASSUME Base, Carried, NEW x \in DOMAIN act, Reply(x)
  PROVE  Carried'
<1>1. /\ pc = "act" /\ After(x, Answered(x[2])) /\ PostQuiet
      /\ \/ Done(x[2]) /\ accepted' = accepted
         \/ hive' = hive /\ accepted' = accepted \cup {x[2]}
  BY DEF Reply
<1>2. Answered(x[2]) \in {"ok", "error"}
  BY DEF Answered
<1>3. DOMAIN act' = DOMAIN act /\ \A y \in DOMAIN act : y # x => act'[y] = act[y]
  BY <1>1, <1>2, AfterTyped
<1>4. \A y \in DOMAIN act : y[2] \in Tablet
  BY TargetTyped
<1>5. \A y \in DOMAIN act : act'[y].state = "ok" =>
        hive'[y[2]] \in {Goal, "gone"} \/ y[2] \in accepted'
  <2>1. hive'[x[2]] \in {Goal, "gone"} \/ x[2] \in accepted'
    BY <1>1, <1>4, DoneCarries
  <2>2. ASSUME NEW y \in DOMAIN act, y # x, act'[y].state = "ok"
        PROVE  hive'[y[2]] \in {Goal, "gone"} \/ y[2] \in accepted'
    <3>1. hive[y[2]] \in {Goal, "gone"} \/ y[2] \in accepted
      BY <1>3, <2>2 DEF Carried
    <3>2. QED BY <1>1, <1>4, <3>1, DoneCarries
  <2>3. QED BY <2>1, <2>2
<1>6. QED BY <1>1, <1>3, <1>5, CarriedAfter DEF PostQuiet, finding, reading

LEMMA RefuseCarried ==
  ASSUME Base, Carried, NEW x \in DOMAIN act, Refuse(x)
  PROVE  Carried'
<1>1. /\ pc = "act" /\ After(x, "refused") /\ PostQuiet /\ UNCHANGED <<hive, accepted, faults>>
  BY DEF Refuse
<1>2. /\ DOMAIN act' = DOMAIN act /\ act'[x].state # "ok"
      /\ \A y \in DOMAIN act : y # x => act'[y] = act[y]
  BY <1>1, AfterTyped
<1>3. ASSUME NEW y \in DOMAIN act, act'[y].state = "ok"
      PROVE  hive'[y[2]] \in {Goal, "gone"} \/ y[2] \in accepted'
  BY <1>1, <1>2, <1>3 DEF Carried
<1>4. QED BY <1>1, <1>2, <1>3, CarriedAfter DEF PostQuiet, finding, reading

LEMMA NoReplyCarried ==
  ASSUME Base, Carried, NEW x \in DOMAIN act, NoReply(x)
  PROVE  Carried'
<1>1. /\ pc = "act" /\ After(x, "retry") /\ PostQuiet /\ accepted' = accepted
      /\ (hive' = hive \/ Done(x[2]))
  BY DEF NoReply
<1>2. /\ DOMAIN act' = DOMAIN act /\ act'[x].state # "ok"
      /\ \A y \in DOMAIN act : y # x => act'[y] = act[y]
  BY <1>1, AfterTyped
<1>3. \A y \in DOMAIN act : y[2] \in Tablet
  BY TargetTyped
<1>4. ASSUME NEW y \in DOMAIN act, act'[y].state = "ok"
      PROVE  hive'[y[2]] \in {Goal, "gone"} \/ y[2] \in accepted'
  <2>1. hive[y[2]] \in {Goal, "gone"} \/ y[2] \in accepted
    BY <1>2, <1>4 DEF Carried
  <2>2. QED BY <1>1, <1>3, <2>1, DoneCarries
<1>5. QED BY <1>1, <1>2, <1>4, CarriedAfter DEF PostQuiet, finding, reading

LEMMA HiveDoesCarried ==
  ASSUME Base, Carried, NEW t \in accepted, HiveDoes(t)
  PROVE  Carried'
<1>1. /\ Done(t) /\ accepted' = accepted \ {t} /\ asked' = asked
      /\ UNCHANGED <<pc, status, finding, reading, act>>
  BY DEF HiveDoes
<1>2. t \in Tablet /\ \A x \in DOMAIN act : x[2] \in Tablet
  BY TargetTyped DEF Base, RunTyped
<1>3. ASSUME NEW x \in DOMAIN act, act'[x].state = "ok"
      PROVE  hive'[x[2]] \in {Goal, "gone"} \/ x[2] \in accepted'
  <2>1. hive[x[2]] \in {Goal, "gone"} \/ x[2] \in accepted
    BY <1>1, <1>3 DEF Carried
  <2>2. QED BY <1>1, <1>2, <2>1, DoneCarries
<1>4. QED BY <1>1, <1>3, CarriedAfter DEF finding, reading

LEMMA SurroundingsCarried ==
  ASSUME Base, Carried, Surroundings
  PROVE  Carried'
<1>1. Settles /\ UNCHANGED run
  BY DbSchemeStep DEF Surroundings, Base
<1>2. Goal \in {"stopped", "running"}
  BY AskedTyped DEF Base, RunTyped
<1>3. ASSUME NEW x \in DOMAIN act, act'[x].state = "ok"
      PROVE  hive'[x[2]] \in {Goal, "gone"} \/ x[2] \in accepted'
  <2>1. x[2] \in Tablet /\ act' = act /\ accepted' = accepted
    BY <1>1, TargetTyped DEF run, acting
  <2>2. hive[x[2]] \in {Goal, "gone"} \/ x[2] \in accepted
    BY <1>3, <2>1 DEF Carried
  <2>3. QED BY <1>1, <1>2, <2>1, <2>2 DEF Settles
<1>4. QED BY <1>1, <1>3, CarriedAfter DEF run, finding, reading, acting

LEMMA ExitCarried ==
  ASSUME Base, Carried, Exit
  PROVE  Carried'
<1>1. /\ asked' = asked /\ UNCHANGED hive /\ pc = "act" /\ pc' = "exit"
      /\ UNCHANGED <<finding, reading, acting>>
      /\ status' = IF errors = {} /\ \A x \in DOMAIN act : act[x].state = "ok" THEN "0" ELSE "2"
  BY DEF Exit, Quiet
<1>2. opt' = opt /\ Goal' = Goal
  BY <1>1, AskedStays
<1>3. QED BY <1>1, <1>2 DEF Carried, finding, reading, acting

(***************************************************************************)
(* Status 0 is a promise                                                   *)
(***************************************************************************)
LEMMA ThoroughInit == Init => Thorough
<1>1. SUFFICES ASSUME Init PROVE Thorough
  OBVIOUS
<1>2. PICK c \in Cases : asked = c /\ SchemeInit(c.here, c.changes)
  BY <1>1 DEF Init
<1>3. \A p \in c.here : \A n \in 0..Len(p) : SubSeq(p, 1, n) \in c.here
  BY ManageAssumption
<1>4. untouched = c.here
  BY <1>1, <1>2, ManageAssumption DEF Init, SchemeInit
<1>5. Found
  BY <1>1, <1>3, <1>4 DEF Init, Found, ToBeFound
<1>6. QED BY <1>1, <1>5, Empty DEF Init, Thorough, Told, Carried

LEMMA DiscoveryThorough ==
  ASSUME Base, Excused, Thorough,
         ResolveHive \/ ResolveStartPath \/ ListDirectory \/ \E t \in DOMAIN nested : DiscoverNested(t)
  PROVE  Thorough'
<1>1. Found'
  BY StartFound, ListDirectoryFound, DiscoverNestedFound DEF Thorough
<1>2. /\ UNCHANGED <<reading, acting>> /\ pc \in {"hive", "start", "walk"}
      /\ \/ pc' \in {"start", "walk"} /\ status' = status
         \/ pc' = "exit" /\ status' = "1"
  <2>1. \A t : DiscoverNested(t) => UNCHANGED <<pc, status, reading, acting>> /\ pc = "walk"
    BY Zenon DEF DiscoverNested
  <2>2. ListDirectory => UNCHANGED <<pc, status, reading, acting>> /\ pc = "walk"
    BY Zenon DEF ListDirectory
  <2>3. ResolveStartPath =>
          UNCHANGED <<status, reading, acting>> /\ pc = "start" /\ pc' = "walk"
    BY Zenon DEF ResolveStartPath
  <2>4. ResolveHive =>
          /\ UNCHANGED <<reading, acting>> /\ pc = "hive"
          /\ \/ pc' = "start" /\ status' = status
             \/ pc' = "exit" /\ status' = "1"
    BY Zenon DEF ResolveHive
  <2>5. QED BY <2>1, <2>2, <2>3, <2>4
<1>3. Told'
  BY <1>2 DEF Told
<1>4. Carried'
  BY <1>2, CarriedBefore DEF Thorough, acting
<1>5. QED BY <1>1, <1>3, <1>4 DEF Thorough

LEMMA BeginReadingThorough ==
  ASSUME Base, Excused, Thorough, BeginReading
  PROVE  Thorough'
<1>1. /\ pc = "walk" /\ pc' = "read" /\ task' = [p \in objects |-> "todo"] /\ objects' = objects
      /\ status' = status /\ act' = act
  BY DEF BeginReading, finding, acting
<1>2. Told'
  BY <1>1 DEF Told
<1>3. QED BY <1>1, <1>2, BeginReadingFound, CarriedBefore DEF Thorough

LEMMA ReadStepThorough ==
  ASSUME Base, Excused, Thorough, pc = "read", ReadStep
  PROVE  Thorough'
<1>1. Reading
  <2>1. \A p : ReadTx(p) \/ ReadPath(p) => Reading
    BY Zenon DEF ReadTx, ReadPath
  <2>2. \A p : Describe(p) \/ UseCache(p) \/ BeginWalk(p) => Reading
    BY Zenon DEF Describe, UseCache, BeginWalk
  <2>3. QED BY <2>1, <2>2, Zenon DEF ReadStep, EndWalk, WalkFails
<1>2. errors \subseteq errors'
  <2>1. \A p : ReadTx(p) \/ ReadPath(p) \/ BeginWalk(p) => errors' = errors
    BY Zenon DEF ReadTx, ReadPath, BeginWalk
  <2>2. \A p, map : Fallback(p, map) => errors \subseteq errors'
    BY DEF Fallback
  <2>3. \A p : Describe(p) \/ UseCache(p) => errors \subseteq errors'
    BY <2>2 DEF Describe, UseCache
  <2>4. WalkFails \/ EndWalk => errors \subseteq errors'
    BY <2>2 DEF WalkFails, EndWalk
  <2>5. QED BY <2>1, <2>3, <2>4 DEF ReadStep
<1>3. /\ asked' = asked /\ UNCHANGED <<scheme, hive, untouched, pc, status, objects, act>>
  BY <1>1 DEF Reading, Quiet, acting
<1>4. Found'
  BY <1>2, <1>3, DbQuiet, FoundLater DEF Thorough, Base
<1>5. QED BY <1>3, <1>4, ReadStepTold, CarriedBefore DEF Thorough

\* Neither the objects nor what is known of them changes any more.
LEMMA ActingThorough ==
  ASSUME Base, Excused, Thorough, Base', Carried', asked' = asked, untouched' = untouched,
         UNCHANGED <<objects, errors, task, collected>>, pc \in {"read", "act"},
         \A t \in Tablet : hive[t] = "gone" => hive'[t] = "gone"
  PROVE  Thorough'
<1>1. status # "1"
  BY DEF Thorough, Carried
<1>2. Found'
  BY <1>1, FoundLater DEF Thorough, Base
<1>3. Told'
  BY <1>1, ToldStays DEF Thorough
<1>4. QED BY <1>2, <1>3 DEF Thorough

LEMMA TargetThorough ==
  ASSUME Base, Excused, Thorough, NEW x \in DOMAIN act, Post(x) \/ Reply(x) \/ Refuse(x) \/ NoReply(x)
  PROVE  Thorough'
<1>1. /\ asked' = asked /\ untouched' = untouched /\ pc = "act"
      /\ UNCHANGED <<objects, errors, task, collected>>
  BY DEF Post, Reply, Refuse, NoReply, PostQuiet, Quiet, finding, reading
<1>2. \A t \in Tablet : hive[t] = "gone" => hive'[t] = "gone"
  <2>1. UNCHANGED hive \/ (Done(x[2]) /\ UNCHANGED scheme)
    BY DEF Post, Reply, Refuse, NoReply, PostQuiet, Quiet
  <2>2. QED BY <2>1, DbDone, AskedTyped DEF Base, RunTyped
<1>3. Base'
  BY PostBase, ReplyBase, RefuseBase, NoReplyBase
<1>4. Carried'
  BY PostCarried, ReplyCarried, RefuseCarried, NoReplyCarried DEF Thorough
<1>5. QED BY <1>1, <1>2, <1>3, <1>4, ActingThorough

LEMMA BeginOrExitThorough ==
  ASSUME Base, Excused, Thorough, BeginActing \/ Exit
  PROVE  Thorough'
<1>1. /\ asked' = asked /\ UNCHANGED <<hive, untouched>> /\ pc \in {"read", "act"}
      /\ UNCHANGED <<objects, errors, task, collected>>
  BY DEF BeginActing, Exit, Quiet, finding, reading
<1>2. Base' /\ Carried'
  BY BeginActingBase, ExitBase, BeginActingCarried, ExitCarried DEF Thorough
<1>3. QED BY <1>1, <1>2, ActingThorough

\* What happens to the database while a run goes on or after it.
LEMMA MeanwhileThorough ==
  ASSUME Base, Excused, Thorough, Surroundings \/ \E t \in accepted : HiveDoes(t)
  PROVE  Thorough'
<1>1. UNCHANGED <<asked, pc, status, queue, objects, nested, errors, task, collected>>
  BY DEF Surroundings, HiveDoes, run, finding, reading
<1>2. untouched' \in {untouched, {p \in untouched : here'[p] = "yes"}}
  BY DEF Surroundings, HiveDoes
<1>3. Base' /\ Carried'
  BY SurroundingsBase, HiveDoesBase, SurroundingsCarried, HiveDoesCarried DEF Thorough
<1>4. \A t \in Tablet : hive[t] = "gone" => hive'[t] = "gone"
  <2>1. CASE Surroundings
    BY <2>1, DbSchemeStep DEF Surroundings, Base, Settles
  <2>2. CASE \E t \in accepted : HiveDoes(t)
    BY <2>2, DbDone, AskedTyped DEF HiveDoes, Base, RunTyped
  <2>3. QED BY <2>1, <2>2
<1>5. Found'
  BY <1>1, <1>2, <1>3, FoundMeanwhile DEF Thorough, Base
<1>6. Told'
  BY <1>1, <1>4, ToldStays DEF Thorough
<1>7. QED BY <1>3, <1>5, <1>6 DEF Thorough

LEMMA StutterThorough ==
  ASSUME Thorough, UNCHANGED vars
  PROVE  Thorough'
<1>1. Found'
  BY WantedStays DEF Thorough, Found, ToBeFound, InQueue, InTable, vars, run, finding, scheme
<1>2. Told'
  BY DEF Thorough, Told, vars, run, finding, reading, scheme
<1>3. Carried'
  BY AskedStays DEF Thorough, Carried, vars, run, finding, reading, acting, scheme
<1>4. QED BY <1>1, <1>2, <1>3 DEF Thorough

LEMMA ThoroughStep ==
  ASSUME Base, Excused, Thorough, [Next]_vars
  PROVE  Thorough'
<1>1. CASE ResolveHive \/ ResolveStartPath \/ ListDirectory \/ \E p \in DOMAIN nested : DiscoverNested(p)
  BY <1>1, DiscoveryThorough
<1>2. CASE BeginReading \/ (pc = "read" /\ ReadStep)
  BY <1>2, BeginReadingThorough, ReadStepThorough
<1>3. CASE BeginActing \/ Exit \/ \E x \in DOMAIN act : Post(x) \/ Reply(x) \/ Refuse(x) \/ NoReply(x)
  BY <1>3, BeginOrExitThorough, TargetThorough
<1>4. CASE Surroundings \/ (\E t \in accepted : HiveDoes(t)) \/ UNCHANGED vars
  BY <1>4, MeanwhileThorough, StutterThorough
<1>5. QED BY <1>1, <1>2, <1>3, <1>4 DEF Next, Step, Over

LEMMA ThoroughPromises ==
  ASSUME Base, Excused, Thorough
  PROVE  ZeroMeansDone
<1>1. SUFFICES ASSUME status = "0", ~opt.dry, NEW p \in objects \cup {q \in untouched : Wanted(q)},
                      NEW t \in ShardsOf[p]
               PROVE  hive[t] \in {Goal, "gone"} \/ t \in accepted
  BY DEF ZeroMeansDone
<1>2. pc = "exit" /\ errors = {} /\ \A x \in DOMAIN act : act[x].state = "ok"
  BY <1>1 DEF Thorough, Carried
<1>3. p \in objects
  BY <1>1, <1>2 DEF Thorough, Found, ToBeFound
<1>4. task[p] = "done"
  BY <1>1, <1>3 DEF Thorough, Carried
<1>5. <<p, t>> \in collected \/ hive[t] = "gone"
  BY <1>1, <1>2, <1>3, <1>4 DEF Thorough, Told
<1>6. CASE <<p, t>> \in collected
  <2>1. PICK y \in DOMAIN act : y[2] = t
    BY <1>1, <1>6 DEF Thorough, Carried
  <2>2. QED BY <1>2, <2>1 DEF Thorough, Carried
<1>7. QED BY <1>5, <1>6

\* A run that exits with 0 has had every tablet of every object stopped (or
\* started), whatever failed, was hidden or was dropped on the way: of the
\* objects it has listed and of those that have been there all the time.
THEOREM ZeroKeepsThePromise == Spec => []ZeroMeansDone
<1>1. Init => Base /\ Excused /\ Thorough
  BY BaseInit, ExcusedInit, ThoroughInit
<1>2. Base /\ Excused /\ Thorough /\ [Next]_vars => Base' /\ Excused' /\ Thorough'
  BY BaseStep, ExcusedStep, ThoroughStep
<1>3. Base /\ Excused /\ Thorough => ZeroMeansDone
  BY ThoroughPromises
<1>4. QED BY <1>1, <1>2, <1>3, PTL DEF Spec

=============================================================================
