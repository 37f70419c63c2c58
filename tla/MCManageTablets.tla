-------------------------- MODULE MCManageTablets --------------------------
(* Nine runs over seven databases: topics that may be dropped (three); a     *)
(* table with a changefeed and with an index that has a changefeed, asked    *)
(* for its topics and for its tables, once with --hive-id and once with      *)
(* --no-wait (three); a topic in a system directory; a column store that     *)
(* shares the shard of its table; a dry run over everything.                 *)
EXTENDS ManageTablets

D == <<"d">>
Q == <<"d", "q">>
R == <<"d", "r">>
E == <<"e">>
Tab == <<"e", "tab">>
Cdc == Append(Tab, "cdc")
Feed == Append(Cdc, "streamImpl")
Idx == Append(Tab, "idx")
Impl == Append(Idx, "impl")
Cdc2 == Append(Impl, "cdc2")
Feed2 == Append(Cdc2, "streamImpl")
Store == <<"s">>
Sys == <<".sys">>

MCKinds ==
  (<< >> :> "DIRECTORY" @@ D :> "DIRECTORY" @@ E :> "DIRECTORY" @@ Sys :> "DIRECTORY"
   @@ Q :> "TOPIC" @@ R :> "TOPIC" @@ <<"o">> :> "TOPIC" @@ Append(Sys, "z") :> "TOPIC"
   @@ Tab :> "TABLE" @@ Cdc :> "CDC_STREAM" @@ Feed :> "TOPIC" @@ Idx :> "TABLE_INDEX"
   @@ Impl :> "TABLE" @@ Cdc2 :> "CDC_STREAM" @@ Feed2 :> "TOPIC"
   @@ Store :> "COLUMN_STORE" @@ Append(Store, "ct") :> "COLUMN_TABLE")
MCPath == DOMAIN MCKinds
MCShards ==
  (Q :> {"q1", "q2"} @@ R :> {"r1"} @@ <<"o">> :> {"o1"} @@ Append(Sys, "z") :> {"z1"}
   @@ Tab :> {"t1"} @@ Feed :> {"c1"} @@ Impl :> {"i1"} @@ Feed2 :> {"c2"}
   @@ Store :> {"k1"} @@ Append(Store, "ct") :> {"k1"}
   @@ [p \in MCPath |-> {}])
MCSysDirs == {Sys}
MCVolatile == {Q, R, Feed}

Ask(action, kinds, prefix, paths, changes0, faults0) ==
  [opt |-> [action |-> action, kinds |-> kinds, prefix |-> prefix, sys |-> FALSE,
            wait |-> TRUE, dry |-> FALSE, hiveId |-> FALSE, retries |-> 2],
   here |-> {<< >>} \cup paths,
   changes |-> changes0, faults |-> faults0]

TwoTopics == {Ask("stop", {"TOPIC"}, D, {D, Q, R, <<"o">>}, 2, 0)}
Tables == {p \in MCPath : p # << >> /\ IsPrefix(E, p)}
MCCases ==
  TwoTopics \cup
  {Ask("stop", {"TOPIC"}, D, {D, Q}, 1, 2),
   Ask("stop", {"TOPIC"}, Q, {D, Q, R}, 2, 0),
   [Ask("stop", {"TOPIC", "TABLE"}, Cdc2, Tables, 0, 1) EXCEPT !.opt.hiveId = TRUE],
   Ask("stop", {"TOPIC"}, Tab, Tables, 1, 1),
   [Ask("stop", {"TABLE"}, Tab, Tables, 1, 1) EXCEPT !.opt.wait = FALSE],
   Ask("stop", {"TOPIC"}, Append(Sys, "z"), {Sys, Append(Sys, "z"), <<"o">>}, 0, 1),
   [Ask("start", {"COLUMN_STORE", "COLUMN_TABLE"}, << >>, {Store, Append(Store, "ct")}, 1, 1)
      EXCEPT !.opt.retries = 1],
   [Ask("stop", {"TOPIC", "TABLE"}, << >>, Tables \cup {D, <<"o">>, Sys, Append(Sys, "z")}, 1, 1)
      EXCEPT !.opt.dry = TRUE]}
=============================================================================
