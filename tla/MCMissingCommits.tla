-------------------------- MODULE MCMissingCommits --------------------------
(* A trunk 1-2-3, a release branch 1-4-5 with 4 of the ids of 2, 6 a merge of *)
(* 3 and 4, and 7, which only changes documents.  The branches are given by   *)
(* their short names, or each in another form.                                *)
EXTENDS MissingCommits

MCParents == <<{}, {1}, {2}, {1}, {4}, {3, 4}, {6}>>
MCIds == <<{}, {"i"}, {"i", "j"}, {"i"}, {"j"}, {}, {}>>
Doc == {<<"docs", "a">>}
Code == {<<"docs2", "a">>}
MCFiles == <<Code, Code, Doc \cup Code, Code, Code, Code, Doc>>
MCSkip == {<<"docs">>}
MCDate == [c \in 1..7 |-> c]

At(p, n, b) == [previous |-> p, next |-> n, base |-> b]
MCOptions ==
  {[fetch |-> TRUE, base |-> TRUE, skip |-> FALSE, window |-> 2,
    form |-> At("short", "short", "short")],
   [fetch |-> TRUE, base |-> TRUE, skip |-> FALSE, window |-> AllTime,
    form |-> At("head", "tracking", "other")],
   [fetch |-> FALSE, base |-> FALSE, skip |-> TRUE, window |-> AllTime,
    form |-> At("short", "tracking", "short")]}
MCInitRefs ==
  {[server |-> At(6, 4, 2), tracking |-> At(3, 1, 1), head |-> At(3, 1, NoRef)],
   [server |-> At(7, 4, NoRef), tracking |-> At(7, 1, 2), head |-> At(3, NoRef, 1)]}
=============================================================================
