---------------------------- MODULE SchemeShard ----------------------------
(***************************************************************************)
(* The database the viewer tools look at, as its pages show it: a tree of  *)
(* paths, the operations in flight, the shards of every path, and what     *)
(* Hive knows of their tablets.  It is external: admin/viewer reads it, a  *)
(* request at a time, while it changes.                                    *)
(*                                                                         *)
(* DROP hides a path from describe at once; the directory may list it for  *)
(* a while, and its shards stay registered until they are deleted one by   *)
(* one (manage_tablets.py:31-38).  Ids of tablets are not used twice.      *)
(***************************************************************************)
EXTENDS Naturals, Sequences, FiniteSets, SequencesExt

CONSTANTS
  Path,        \* sequences of names; << >> is the database
  KindOf,      \* KindOf[p]: the scheme type of what is or may be at p
  ShardsOf,    \* ShardsOf[p]: the tablets p gets when it is created
  Volatile     \* the paths that may be dropped or created meanwhile

Kinds == {"DIRECTORY", "TOPIC", "TABLE", "TABLE_INDEX", "CDC_STREAM",
          "COLUMN_STORE", "COLUMN_TABLE"}

\* The database stays; every path lies in a path.
ASSUME SchemeAssumption ==
  /\ IsFiniteSet(Path) /\ Path \subseteq Seq(STRING) /\ << >> \in Path
  /\ \A p \in Path : \A n \in 0..Len(p) : SubSeq(p, 1, n) \in Path
  /\ KindOf \in [Path -> Kinds] /\ KindOf[<< >>] = "DIRECTORY"
  /\ Volatile \subseteq Path \ {<< >>}

\* What lies in what.  An index of a table has implementation tables, which may
\* have changefeeds and no index; a changefeed has its topic.
Holders == {"DIRECTORY", "COLUMN_STORE"}
HolderKinds ==
  [DIRECTORY |-> Holders, COLUMN_STORE |-> Holders, COLUMN_TABLE |-> Holders,
   TABLE |-> Holders \cup {"TABLE_INDEX"}, TOPIC |-> Holders \cup {"CDC_STREAM"},
   TABLE_INDEX |-> {"TABLE"}, CDC_STREAM |-> {"TABLE"}]

ASSUME TreeAssumption ==
  \A p \in Path :
    /\ p # << >> => KindOf[Front(p)] \in HolderKinds[KindOf[p]]
    /\ KindOf[p] = "TABLE_INDEX" => KindOf[Front(Front(p))] \in Holders
    /\ KindOf[p] = "CDC_STREAM" =>
         Append(p, "streamImpl") \in Path /\ KindOf[Append(p, "streamImpl")] = "TOPIC"

Tablet == UNION {ShardsOf[p] : p \in Path}

VARIABLES
  here,        \* here[p]: "no", "yes" or "dropping"
  listed,      \* the paths the directory pages list
  shards,      \* shards[p]: what Page=PathInfo lists
  op,          \* op[p]: what Page=TxList and TxInfo show of the drop of p
  hive,        \* hive[t]: "none", "running", "stopped" or "gone"
  changes      \* bound: how often paths may still be dropped or created

scheme == <<here, listed, shards, op, changes>>

NoOp == [refs |-> {}, left |-> {}]
ChildrenOf(p) == {q \in Path \ {<< >>} : Front(q) = p}

SchemeInit(h, n) ==
  /\ here = [p \in Path |-> IF p \in h THEN "yes" ELSE "no"]
  /\ listed = h
  /\ shards = [p \in Path |-> IF p \in h THEN ShardsOf[p] ELSE {}]
  /\ op = [p \in Path |-> NoOp]
  /\ hive = [t \in Tablet |-> IF \E p \in h : t \in ShardsOf[p] THEN "running" ELSE "none"]
  /\ changes = n

\* A path whose tablets have existed before is not made again.
Create(p) ==
  /\ changes > 0 /\ here[p] = "no" /\ here[Front(p)] = "yes"
  /\ \A t \in ShardsOf[p] : hive[t] = "none"
  /\ changes' = changes - 1
  /\ here' = [here EXCEPT ![p] = "yes"] /\ listed' = listed \cup {p}
  /\ shards' = [shards EXCEPT ![p] = ShardsOf[p]]
  /\ hive' = [t \in Tablet |-> IF t \in ShardsOf[p] THEN "running" ELSE hive[t]]
  /\ UNCHANGED op

\* Another path of the directory may take part in the operation, as in a move.
Drop(p, other) ==
  /\ changes > 0 /\ here[p] = "yes" /\ \A q \in ChildrenOf(p) : here[q] # "yes"
  /\ changes' = changes - 1
  /\ here' = [here EXCEPT ![p] = "dropping"]
  /\ op' = [op EXCEPT ![p] = [refs |-> {p} \cup other, left |-> shards[p]]]
  /\ UNCHANGED <<listed, shards, hive>>

Unlist(p) ==
  /\ here[p] = "dropping" /\ p \in listed /\ listed' = listed \ {p}
  /\ UNCHANGED <<here, shards, op, hive, changes>>

\* PathInfo has no shards any more, TxInfo still names some in progress.
Forget(p) ==
  /\ here[p] = "dropping" /\ shards[p] # {} /\ shards' = [shards EXCEPT ![p] = {}]
  /\ UNCHANGED <<here, listed, op, hive, changes>>

DeleteShard(p) ==
  /\ \E t \in op[p].left :
       /\ op' = [op EXCEPT ![p].left = @ \ {t}] /\ hive' = [hive EXCEPT ![t] = "gone"]
       /\ shards' = [shards EXCEPT ![p] = @ \ {t}]
  /\ UNCHANGED <<here, listed, changes>>

Finish(p) ==
  /\ here[p] = "dropping" /\ op[p].left = {} /\ shards[p] = {}
  /\ here' = [here EXCEPT ![p] = "no"] /\ listed' = listed \ {p}
  /\ op' = [op EXCEPT ![p] = NoOp] /\ UNCHANGED <<shards, hive, changes>>

SchemeStep ==
  \E p \in Volatile :
    \/ Create(p) \/ Unlist(p) \/ Forget(p) \/ DeleteShard(p) \/ Finish(p)
    \/ \E other \in SUBSET ((Volatile \ {p}) \cap ChildrenOf(Front(p))) : Drop(p, other)

\* What describe says of a path, and the operations TxList shows.
Visible(p) == here[p] = "yes"
InFlight == {p \in Path : op[p] # NoOp}
Children(p) == {q \in ChildrenOf(p) : Visible(q)}
=============================================================================
