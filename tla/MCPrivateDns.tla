---------------------------- MODULE MCPrivateDns ----------------------------
(* Two servers and a third that may take over the name of the first, two    *)
(* prefixes, pages and batches of two and of one, a name that is none of    *)
(* the program's, and two runs.                                             *)
EXTENDS PrivateDns

CONSTANTS x, y, public, r1, r2

MCServers == <<"s1", "s2", "s3">>
MCLabelOf == [s \in {"s1", "s2", "s3"} |-> IF s = "s2" THEN "b" ELSE "a"]
MCPrefixes == <<"one", "two">>
MCNames == <<<<"a", "one">>, <<"a", "two">>, <<"b", "one">>, <<"b", "two">>, <<"x", "a", "one">>>>

MCOptions == {[filtered |-> TRUE, prune |-> TRUE, dry |-> FALSE],
              [filtered |-> FALSE, prune |-> FALSE, dry |-> FALSE],
              [filtered |-> FALSE, prune |-> TRUE, dry |-> TRUE]}

With(p, a) == [state |-> "active", addr |-> [i \in {p} |-> a]]
MCInitServers ==
  {[s \in {"s1", "s2", "s3"} |-> IF s = "s1" THEN [state |-> "active", addr |-> <<NoAddress, x>>]
                                ELSE Absent],
   [s \in {"s1", "s2", "s3"} |-> IF s = "s1" THEN With(1, x) ELSE IF s = "s2" THEN With(1, y) ELSE Absent]}
MCEdits == {[ttl |-> 61, data |-> <<x>>]}
MCInitZones ==
  {[n \in Range(MCNames) |-> IF n[1] = "x" THEN Record(x) ELSE IF n[1] = "a" THEN [ttl |-> 61, data |-> <<x>>] ELSE Record(x)]}
=============================================================================
